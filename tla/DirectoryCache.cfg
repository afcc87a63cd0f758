SPECIFICATION Spec
CONSTANTS
    Digest <- Three
    Contents <- OneTree
    Client = {c1, c2}
    NearKind = "simple"
    FarKind = "object"
    None = None
SYMMETRY Symmetry
INVARIANTS
    RecursiveComplete
    NeverInconsistent
    NoFalseAbsent
PROPERTY NearKeepsClosedStore
