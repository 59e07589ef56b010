SPECIFICATION FairSpec
CONSTANTS
    NoID = NoID
    Caller = {c1, c2}
    Subscriber = {s1}
    Data = {0}
    Foreign = {x}
    QueueCap = 1
    SubBuf = 1
    ErrCap = 1
    MaxRecent = 1
    MaxSubEvents = 0
    MaxSubParents = 0
    AnchorInterval = 1
    ChainPeriod = 1
    Period = 1
    MaxAge = 0
    MaxLag = 0
    MaxParents = 2
    MaxRound = 0
    MaxCalls = 2
INVARIANTS
    NoPanic
    CloseComplete
PROPERTIES
    CloseReturns
    CallersReleased
    QueueDrains
CHECK_DEADLOCK FALSE
