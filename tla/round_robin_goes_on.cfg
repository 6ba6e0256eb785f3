\* Round-robin while the eligible nodes change: the same node twice in a row.
SPECIFICATION HistorySpec
CONSTANTS
    MaxNodes = 3
    MaxPods = 2
    MaxRequest = 2
    InitNodes = 3
    InitCapacities <- Shapes
    NewCapacities <- CpuNode
    PodSpecs <- CpuOnlyAndPair
    UnusedSpec <- CpuOnly
    UsedStrategies = {"first-fit", "best-fit", "round-robin", "least-loaded"}
    InitStrategy = "round-robin"
    RRPeriod = 6
    RecoverAfter = 1
    NodeFailures = FALSE
    ContainerFailures = FALSE
    RepeatedDeletes = FALSE
PROPERTY
    GoesOn
