SPECIFICATION Spec
CONSTANTS
    Roots <- FewRoots
    Dirs <- FewDirs
    Missing = {}
    Names = {"r", "a"}
    Thread = {t1, t2}
    Sizes = {1, 2}
    MaxHandles = 1
    MaxRequests = 5
SYMMETRY Symmetry
INVARIANTS InodesCoherent
PROPERTY InodesStable
CHECK_DEADLOCK FALSE
