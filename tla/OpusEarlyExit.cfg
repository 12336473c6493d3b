SPECIFICATION FairSpec
CONSTANTS
    Segments = {"a", "b", "c", "d"}
    Deps <- RootsDeps
    Strategy <- MajorityWait
    Waves <- RootsWaves
    OnFailure = "CONTINUE_INDEPENDENT_BRANCHES"
    MaxRetries <- NoRetry
    HasStore = TRUE
    MaxRuns = 2
    MaxStoreFaults = 0
INVARIANTS
    UnrelatedBranchesContinue
PROPERTIES
    RunEnds
CHECK_DEADLOCK FALSE
