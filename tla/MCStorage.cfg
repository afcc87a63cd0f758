SPECIFICATION Spec
CONSTANTS
    t1 = t1
    t2 = t2
    OverflowChecks = TRUE
SYMMETRY Symmetry
INVARIANTS
    DirectoriesCanonical
    ReadersFaithful
    StoresAnswer
    BinaryCachesSound
    FormatsRoundTrip
