SPECIFICATION MCSpec
CONSTANTS
    NoID = NoID
    Writer = w
    Reader = r
    Client = {w, r}
    ID = {a, b}
    Cid = {x}
    MaxParents = 2
    MaxLinks = 2
SYMMETRY Symmetry
CHECK_DEADLOCK FALSE
INVARIANTS
    TypeOK
    AddedIsDAG
    LinksAccounted
    AddedParentsFound
    
PROPERTIES
    IndexAppendOnly
