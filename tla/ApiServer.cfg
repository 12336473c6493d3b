SPECIFICATION Spec
CONSTANTS
    InitialRows = 1
    NumRows = 3
    Configs = {"postgres", "sqlserver"}
    MaxSecret = 2
    MaxRequests = 3
    MaxActive = 2
    HistoryMax = 1
    MaxFaults = 1
CONSTRAINT OneDisturbance
INVARIANTS
    TypeOK
    ConnectionsReleased
    NothingSkipped
PROPERTIES
    StartIsGuarded
    CreateIsAtomic
CHECK_DEADLOCK FALSE
