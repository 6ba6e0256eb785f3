\* A client's endpoint removes it from the list while a broadcast is about to do the same.
SPECIFICATION Spec
CONSTANTS
    MaxSockets = 2
    MaxTasks = 1
    MaxTicks = 2
    MaxInits = 1
    MaxHistory = 1
INVARIANTS
    SimulationGoesOn
