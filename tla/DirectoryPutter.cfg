SPECIFICATION Spec
CONSTANTS
    Digest <- Three
    Contents <- ContentsOfThree
    Putter = {p1, p2}
    Kinds <- OneStore
    CallerGivesUp = TRUE
    None = None
SYMMETRY Symmetry
INVARIANTS
    UploadReadable
PROPERTY KeepsClosedStore
CHECK_DEADLOCK FALSE
