SPECIFICATION FairSpec
CONSTANTS
    NoID = NoID
    Client = {c1, c2}
    ID = {a, b}
    Cid = {}
    MaxParents = 1
    MaxLinks = 1
CHECK_DEADLOCK FALSE
PROPERTY CloseReturns
