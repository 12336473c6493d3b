SPECIFICATION Spec
CONSTANTS
    Segments = {"a", "b", "c"}
    Deps <- JoinDeps
    Strategy <- AllWait
    Waves <- JoinWaves
    OnFailure = "CONTINUE_INDEPENDENT_BRANCHES"
    MaxRetries <- NoRetry
    HasStore = TRUE
    MaxRuns = 1
    MaxStoreFaults = 0
INVARIANTS
    FailedBranchSkipped
CHECK_DEADLOCK FALSE
