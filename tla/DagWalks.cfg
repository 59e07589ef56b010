SPECIFICATION Spec
CONSTANTS
    NoID = NoID
    a = a
    b = b
    c = c
    ID <- IDSet
    Stores <- MCStores
INVARIANTS
    VerdictExact
    RecursionBounded
    SubEventsExact
CHECK_DEADLOCK FALSE
