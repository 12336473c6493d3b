SPECIFICATION Spec
CONSTANTS
    Writers = {"r1", "r2", "r3"}
    PipeOf <- MCPipeOf
    ReadsFrom <- MCReadsFrom
    WritesTo <- MCWritesTo
    Stores = {"file", "redis"}
    MaxTries = 2
    MaxFaults = 1
INVARIANTS
    TypeOK
    StoredGraphSound
    ReadableAtRest
PROPERTIES
    LossNeedsOverlap
CHECK_DEADLOCK FALSE
