\* An evicted pod is placed again, its containers stay terminated.
SPECIFICATION Spec
CONSTANTS
    MaxNodes = 2
    MaxPods = 3
    MaxRequest = 2
    InitNodes = 1
    InitCapacities <- OneKind
    NewCapacities <- Narrow
    PodSpecs <- JustSmall
    UnusedSpec <- Small
    UsedStrategies = {"best-fit"}
    InitStrategy = "best-fit"
    RRPeriod = 2
    RecoverAfter = 5
    NodeFailures = TRUE
    ContainerFailures = TRUE
    RepeatedDeletes = TRUE
INVARIANT
    RunningPodsRun
