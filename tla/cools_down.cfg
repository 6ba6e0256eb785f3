\* A node that crashes just before the fifth check is recovered by it, in the same tick.
SPECIFICATION PastSpec
CONSTANTS
    MaxNodes = 1
    MaxPods = 1
    MaxRequest = 2
    InitNodes = 1
    InitCapacities <- Square
    NewCapacities <- Square
    PodSpecs <- JustHeavy
    UnusedSpec <- CpuHeavy
    UsedStrategies = {"first-fit"}
    InitStrategy = "first-fit"
    RRPeriod = 1
    RecoverAfter = 5
    NodeFailures = TRUE
    ContainerFailures = FALSE
    RepeatedDeletes = FALSE
PROPERTIES
    CoolsDown
