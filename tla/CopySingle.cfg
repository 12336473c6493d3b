SPECIFICATION FairSpec
CONSTANTS
    Rows = {1, 2, 3, 4, 5}
    Key <- Distinct
    Kept <- DropLast
    BatchSize = 2
    Columns = {"text", "converted"}
    Ordered = TRUE
    SharedObject = FALSE
    SinkCommits = TRUE
    Runners = {"r1"}
    InitialRows = {1, 3}
    MaxFailures = 2
INVARIANTS
    DuplicatesNeedFailure
PROPERTIES
    HighWaterMark
    EventuallyCopied
CHECK_DEADLOCK FALSE
