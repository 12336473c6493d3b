SPECIFICATION Spec
CONSTANTS
    Ids <- MCIds
    DepLists <- Lists
INVARIANTS
    TypeOK
    VerdictExact
    WavesPromise
    WavesAreEarliest
CHECK_DEADLOCK FALSE
