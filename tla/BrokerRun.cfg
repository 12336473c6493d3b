SPECIFICATION Spec
CONSTANTS
    Records = {1, 2, 3}
    Rejected = {}
    BatchSize = 2
    Brokers = {"memory"}
    InProcess = TRUE
    Processors = {"p1"}
    Writers = {"w1"}
    MaxReads = 1
    MaxFaults = 0
    MaxStops = 0
    MaxRebalances = 0
INVARIANTS
    SuccessMeansDelivered
CHECK_DEADLOCK FALSE
