SPECIFICATION Spec
CONSTANTS
    NoID = NoID
    a = a
    b = b
    c = c
    ID <- IDSet
    Stores <- FaultyStores
INVARIANT VerifyAsPromised
CHECK_DEADLOCK FALSE
