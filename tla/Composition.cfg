SPECIFICATION FairSpec
CONSTANTS
    Configs <- ThreeServices
    Task = {t1, t2}
    Invalid = "?"
INVARIANTS
    SameInstance
    RecursionIsReal
    BuiltOnBuilt
    NoClosedChannel
PROPERTY BuildsEnd
CHECK_DEADLOCK FALSE
