SPECIFICATION MethodsSpec
CONSTANTS
    Codes <- SimulatorCodes
    NoError = 0
    QueueOverflow = 350
    Capacity = 1
    MaxErrors = 2
    Usages <- SimulatorUsages
    MaxLine = 2
    MaxPending = 1
INVARIANTS
    AnsweredOrExplained
    FormatsCoupled
    InStep
    TextSession
    TimeoutExplained
    RejectedForConflict
PROPERTY
    PreparedForText
