SPECIFICATION DrainSpec
CONSTANTS
    Codes = {undefinedHeader}
    NoError = noError
    QueueOverflow = queueOverflow
    Capacity = 2
    MaxErrors = 4
    Threads = {t1, t2}
    MaxDrain = 3
INVARIANTS
    DrainTypeOK
    NoSilentLoss
    EsrOrOverflow
    DrainComplete
    GivesUpOnlyUnderNewErrors
PROPERTIES
    DrainEnds
