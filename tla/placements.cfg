\* Every strategy and every kind of failure, on nodes with and without memory; clients delete a pod
\* once.
SPECIFICATION HistorySpec
CONSTANTS
    MaxNodes = 3
    MaxPods = 2
    MaxRequest = 2
    InitNodes = 1
    InitCapacities <- Square
    NewCapacities <- CpuNode
    PodSpecs <- CpuOnlyAndPair
    UnusedSpec <- Pair
    UsedStrategies = {"first-fit", "best-fit", "round-robin", "least-loaded"}
    InitStrategy = "round-robin"
    RRPeriod = 6
    RecoverAfter = 1
    NodeFailures = TRUE
    ContainerFailures = TRUE
    RepeatedDeletes = FALSE
INVARIANTS
    SelectsWhatTheScanFinds
    ExactLedger
    NoOvercommit
    UsageIsOwned
PROPERTIES
    TakesTurns
    ImplementsPodPlacement
