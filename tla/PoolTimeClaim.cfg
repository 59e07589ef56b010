SPECIFICATION PoolSpec
ACTION_CONSTRAINT Sides
CONSTANTS
    NoID = NoID
    Caller = {c1}
    Subscriber = {}
    Data = {0}
    Foreign = {}
    QueueCap = 1
    SubBuf = 1
    ErrCap = 1
    MaxRecent = 2
    MaxSubEvents = 0
    MaxSubParents = 0
    AnchorInterval = 1
    ChainPeriod = 1
    Period = 1
    MaxAge = 1
    MaxLag = 0
    MaxParents = 1
    MaxRound = 2
    MaxCalls = 1
INVARIANT EventsPrecedeRound
CHECK_DEADLOCK FALSE
