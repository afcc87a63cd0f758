SPECIFICATION Spec
CONSTANTS
    Globals <- MCGlobals
    NameOrder <- MCNameOrder
INVARIANTS
    EvaluatesCorrectly
    DerivationsSound
    BuildsAsRequested
    ContextsTracked
PROPERTIES
    ThunksSettle
