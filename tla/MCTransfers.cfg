SPECIFICATION Spec
CONSTANTS
    Block = 2
    NoInfo = NoInfo
INVARIANTS
    WireInStep
    NarsExact
    BuildsSound
    ImportsExact
    BlobsWhole
PROPERTIES
    CallsReturn
