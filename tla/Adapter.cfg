SPECIFICATION NodeFairSpec
CONSTANTS
    Main = o1
    Owner = {o1, o2}
    Commitment = {c1, c2, c3}
    NoEventID = NoEventID
    ChainCommitments = TRUE
    QueueCap = 1
    ErrCap = 1
    MaxStarts = 1
INVARIANTS
    NoPanic
    ParentsQueuedFirst
    ForksOnlyByOverlap
    NothingLeftOpen
    TornDownInOrder
PROPERTIES
    QuietAfterStop
    StopReturns
    TearDownEnds
CHECK_DEADLOCK FALSE
