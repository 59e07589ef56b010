SPECIFICATION Spec
CONSTANTS
    NoID = NoID
    ID = {a, b, c}
    MaxParents = 2
    MaxLinks = 3
    MaxSnapshots = 1
SYMMETRY IDSymmetry
INVARIANTS
    TypeOK
    AlwaysDAG
    ReferencesBackLinked
    LinksAccounted
PROPERTY ImplementsGraph
