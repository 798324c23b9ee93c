SPECIFICATION FairSpec
CONSTANTS
    Calls = {c1, c2, c3}
    Nobody = nobody
    MaxOpens = 2
    ClosesBeforeReopen = TRUE
INVARIANTS
    TypeOK
    OwnAnswer
    InStep
PROPERTIES
    CallsEnd
    ImplementsRequestReply
CHECK_DEADLOCK FALSE
