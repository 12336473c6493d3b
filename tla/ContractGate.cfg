SPECIFICATION Spec
CONSTANTS
    Schemas <- MCSchemas
    Migrations <- MCMigrations
    Contracts <- MCContracts
    Batches <- MCBatches
    Incoming = {0, 1, 2, 3, 4, 5, 9}
    Suites = {"core"}
    Counts = {0, 1, 3}
    KeyField = "id"
    MinRows = 0
    MaxRows = 2
    MaxNullPct = 50
    Timeout = 1
    MaxRetries = 2
    Threshold = 2
    Recovery = 1
    MaxTime = 4
    MaxChecks = 3
INVARIANTS
    TypeOK
    GateKeepsItsWord
PROPERTIES
    BreakerSound
CHECK_DEADLOCK FALSE
