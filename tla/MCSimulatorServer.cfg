SPECIFICATION FairSpec
CONSTANTS
    Clients = {k1, k2}
    Nobody = nobody
    MaxLines = 2
INVARIANTS
    OneAtATime
    ServesUntilStopped
    LinesOfCurrentClient
    GoneOnReturn
PROPERTIES
    DisconnectReturns
    StopReturnsOnceClientsLeave
CHECK_DEADLOCK FALSE
