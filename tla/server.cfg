\* Clients connect, vanish and leave while the simulation is started, stopped and reset.
SPECIFICATION FairSpec
CONSTANTS
    MaxSockets = 3
    MaxTasks = 2
    MaxTicks = 2
    MaxInits = 1
    MaxHistory = 1
INVARIANTS
    TypeOK
    OneLoop
    RosterExact
    NewestKept
PROPERTIES
    ToldInOrder
    ReachesEveryone
    TasksMoveOn
