SPECIFICATION Spec
CONSTANTS
    Digest <- Four
    Contents <- ContentsOfFour
    None = None
INVARIANTS
    FinalizedClosure
    FinalizeComplete
    OnlyConnectedYielded
    FinalizedComplete
CHECK_DEADLOCK FALSE
