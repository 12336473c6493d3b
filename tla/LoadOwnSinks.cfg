SPECIFICATION FairSpec
CONSTANTS
    Keys = {1, 2, 3}
    MaxVersion = 2
    Jobs <- MCJobs
    Mode <- MCMode
    SinkOf <- OwnSink
    Query <- ScopeQuery
    Scope = {1, 2}
    Brokered = {"full"}
    Exclusive = FALSE
    BatchSize = 2
    MaxChanges = 2
    MaxFailures = 2
INVARIANTS
    TypeOK
PROPERTIES
    
    PartialIsExact
    
CHECK_DEADLOCK FALSE
