SPECIFICATION FairSpec
CONSTANTS
    Digest <- Three
    Contents <- Chains
    Putter = {p1}
    Client = {c1}
    MaxSent = 3
    Failure = TRUE
    None = None
INVARIANTS
    AckedIsStored
    StreamWholeOrEmpty
PROPERTIES
    ServedStoreClosed
    CallsReturn
CHECK_DEADLOCK FALSE
