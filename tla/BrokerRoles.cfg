SPECIFICATION FairSpec
CONSTANTS
    Records = {1, 2, 3}
    Rejected = {3}
    BatchSize = 2
    Brokers = {"memory", "kafka", "rabbitmq"}
    InProcess = FALSE
    Processors = {"p1"}
    Writers = {"w1", "w2"}
    MaxReads = 1
    MaxFaults = 1
    MaxStops = 1
    MaxRebalances = 1
INVARIANTS
    TypeOK
    Accounted
    LossBounded
    RepeatsNeedRedelivery
PROPERTIES
    EventuallySettled
CHECK_DEADLOCK FALSE
