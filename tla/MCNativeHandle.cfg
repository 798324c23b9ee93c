SPECIFICATION HandleSpec
CONSTANTS
    Codes = {c1, c2}
    NoError = NoError
    QueueOverflow = QueueOverflow
    Capacity = 2
    MaxErrors = 3
    FirstBuffer = 1
    MaxTries = 2
    MaxCalls = 5
CHECK_DEADLOCK FALSE
INVARIANTS
    OwnMessage
    
    OneExchangeLosesNothing
