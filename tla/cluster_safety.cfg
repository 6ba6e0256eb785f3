\* Every operation, crashes of nodes and of containers, and pods deleted twice.
SPECIFICATION Spec
CONSTANTS
    MaxNodes = 2
    MaxPods = 3
    MaxRequest = 2
    InitNodes = 1
    InitCapacities <- OneKind
    NewCapacities <- Narrow
    PodSpecs <- BriefAndTwin
    UnusedSpec <- Brief
    UsedStrategies = {"best-fit"}
    InitStrategy = "best-fit"
    RRPeriod = 2
    RecoverAfter = 2
    NodeFailures = TRUE
    ContainerFailures = TRUE
    RepeatedDeletes = TRUE
INVARIANTS
    TypeOK
    QueueDiscipline
    PlacementAgrees
    NoPhantomAllocation
    NoneRunsOnFailedNode
    WorkConserving
    ContainersTogether
PROPERTIES
    EmptiedBeforeReturn
    TickEnds
    QueueKeepsOrder
    OnlyTheQueueRevives
