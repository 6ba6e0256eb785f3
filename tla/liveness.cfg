\* The simulation keeps ticking, with the cooldown of the code.
SPECIFICATION FairPastSpec
CONSTANTS
    MaxNodes = 2
    MaxPods = 2
    MaxRequest = 2
    InitNodes = 2
    InitCapacities <- Square
    NewCapacities <- Square
    PodSpecs <- JustHeavy
    UnusedSpec <- CpuHeavy
    UsedStrategies = {"best-fit"}
    InitStrategy = "best-fit"
    RRPeriod = 2
    RecoverAfter = 5
    NodeFailures = TRUE
    ContainerFailures = FALSE
    RepeatedDeletes = TRUE
INVARIANTS
    BackInTime
PROPERTIES
    FailedNodesReturn
    WaitingPodsAreTried
