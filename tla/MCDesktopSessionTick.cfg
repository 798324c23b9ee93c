SPECIFICATION FairSpec
CONSTANTS
    Polls = {p1, p2}
    Functions = {f1, f2}
    None = None
    MaxClicks = 5
CHECK_DEADLOCK FALSE
PROPERTY TickSkipsRunningRead
