SPECIFICATION FairSpec
CONSTANTS
    Handle = {h1, h2}
    ChainPeriod = 1
    Period = 1
    MaxAge = 1
    MaxLag = 0
    MaxStarts = 2
    MaxTime = 2
INVARIANTS
    NoPanic
    OnePoller
PROPERTIES
    RoundsInOrder
    ImplementsFeed
    PollersEnd
CHECK_DEADLOCK FALSE
