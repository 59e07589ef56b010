SPECIFICATION PoolSpec
ACTION_CONSTRAINT Sides
CONSTANTS
    NoID = NoID
    Caller = {c1, c2}
    Subscriber = {s1}
    Data = {0}
    Foreign = {}
    QueueCap = 2
    SubBuf = 1
    ErrCap = 1
    MaxRecent = 2
    MaxSubEvents = 1
    MaxSubParents = 1
    AnchorInterval = 2
    ChainPeriod = 2
    Period = 1
    MaxAge = 1
    MaxLag = 1
    MaxParents = 2
    MaxRound = 2
    MaxCalls = 4
SYMMETRY CallerSymmetry
INVARIANTS
    TypeOK
    AnchorsFollowInsertion
    AnchorsSpaced
    DeliveredInOrder
    QueuedParentsReady
    SubEventsAccepted
    DagIntact
PROPERTY ImplementsTimeline
CHECK_DEADLOCK FALSE
