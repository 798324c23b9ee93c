SPECIFICATION Spec
CONSTANTS
    Calls = {c1, c2}
    Nobody = nobody
    MaxOpens = 2
    ClosesBeforeReopen = FALSE
INVARIANT
    OwnAnswer
CHECK_DEADLOCK FALSE
