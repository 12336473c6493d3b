SPECIFICATION Spec
CONSTANTS
    Rows = {1, 2, 3, 4}
    Key <- Tied
    Kept <- KeepAll
    BatchSize = 2
    Columns = {"converted", "strict"}
    Ordered = FALSE
    SharedObject = FALSE
    SinkCommits = FALSE
    Runners = {"r1", "r2"}
    InitialRows = {1, 3}
    MaxFailures = 2
INVARIANTS
    TypeOK
    NothingSkipped
CHECK_DEADLOCK FALSE
