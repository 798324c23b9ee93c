SPECIFICATION LineSpec
CONSTANTS
    Clients <- BothClients
INVARIANTS
    FindsItsRow
    RelativeAsInFull
    FunctionsReadBack
    ErrorsAtOnceComplete
