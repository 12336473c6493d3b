SPECIFICATION Spec
CONSTANTS
    Segments = {"a", "b", "c", "d"}
    Deps <- LadderDeps
    Strategy <- CAny
    Waves <- LadderWaves
    OnFailure = "FAIL_FAST"
    MaxRetries <- OneRetry
    HasStore = TRUE
    MaxRuns = 2
    MaxStoreFaults = 1
INVARIANTS
    TypeOK
    DependenciesFirst
    SuccessIsComplete
    NothingLeftToResume
    TasksDoNotOverlap
PROPERTIES
    SuccessNotRestarted
    LedgerSpec
CHECK_DEADLOCK FALSE
