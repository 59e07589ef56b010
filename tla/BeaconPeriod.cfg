SPECIFICATION Spec
CONSTANTS
    Handle = {h1}
    ChainPeriod = 3
    Period = 1
    MaxAge = 2
    MaxLag = 0
    MaxStarts = 1
    MaxTime = 6
INVARIANT LatestIsRecent
CHECK_DEADLOCK FALSE
