SPECIFICATION LineSpec
CONSTANTS
    Clients <- BothClients
INVARIANTS
    DocumentedErrorsRead
