---------------------------- MODULE ClusterManager ----------------------------
(***************************************************************************)
(* src/cluster/cluster.py with the parts it drives: the node list and its  *)
(* resource pools (node.py, resources.py), the pods (pod.py, container.py),*)
(* the scheduler's pending queue (scheduler.py, strategies.py) and the     *)
(* health monitor (health.py).                                             *)
(*                                                                         *)
(* One tick() is cut into the steps its docstring numbers: crash nodes,    *)
(* run pods, check health, schedule the queue pod by pod, finish.  tick()  *)
(* never awaits, so an API operation runs only between ticks, when phase   *)
(* is "idle".                                                              *)
(*                                                                         *)
(* Nodes and pods are numbered in the order of their lists.  A pod is      *)
(* never taken off its list; a removed node leaves its number unused.      *)
(***************************************************************************)
EXTENDS Strategies, Workloads, Sequences, Functions

CONSTANTS
    MaxNodes,           \* bound: nodes ever created
    MaxPods,            \* bound: pods ever created
    MaxRequest,         \* bound: what one pod asks for of one resource
    InitNodes,          \* num_nodes
    InitCapacities,     \* what __init__ draws a node's capacity from
    NewCapacities,      \* the capacities add_node is called with
    PodSpecs,           \* the arguments create_pod is called with
    UnusedSpec,         \* the specification of a pod not created yet: any of PodSpecs
    UsedStrategies,     \* the names set_scheduler_strategy is called with
    InitStrategy,       \* scheduler_strategy
    RRPeriod,           \* round-robin's index is kept modulo this number
    RecoverAfter,       \* _recover_after_ticks, 5 in the code
    NodeFailures,       \* node_failure_rate > 0
    ContainerFailures,  \* container_failure_rate > 0
    RepeatedDeletes     \* clients delete pods that already are deleted

NodeId == 1 .. MaxNodes
PodId  == 1 .. MaxPods
NoNode == 0

BoundsAssumption ==
    /\ MaxNodes \in Nat /\ MaxPods \in Nat /\ MaxRequest \in Nat
    /\ InitNodes \in 0 .. MaxNodes

\* Requests and capacities are natural numbers; a request stays within the bound.
DataAssumption ==
    /\ InitCapacities \subseteq Amount
    /\ NewCapacities \subseteq Amount
    /\ PodSpecs \subseteq PodSpec
    /\ UnusedSpec \in PodSpecs
    /\ \A spec \in PodSpecs : \A r \in Resource : RequestOf(spec)[r] \in 0 .. MaxRequest

\* Every possible number of eligible nodes divides RRPeriod, so that the index modulo RRPeriod
\* selects what the unbounded index would.
SchedulerAssumption ==
    /\ UsedStrategies \subseteq StrategyName
    /\ InitStrategy \in StrategyName
    /\ RRPeriod \in Nat \ {0}
    /\ \A k \in NodeId : RRPeriod % k = 0

EnvironmentAssumption ==
    /\ RecoverAfter \in Nat \ {0}
    /\ NodeFailures \in BOOLEAN
    /\ ContainerFailures \in BOOLEAN
    /\ RepeatedDeletes \in BOOLEAN

ASSUME Assumptions ==
    BoundsAssumption /\ DataAssumption /\ SchedulerAssumption /\ EnvironmentAssumption

\* The units of resource r that the pods of S ask for, as pairs of a pod and a number.
UnitsOf(specs, S, r) == {u \in S \X (1 .. MaxRequest) : u[2] <= RequestOf(specs[u[1]])[r]}

\* What the pods of S ask for in total.
TotalRequest(specs, S) == [r \in Resource |-> Cardinality(UnitsOf(specs, S, r))]

VARIABLES
    nodeCount,   \* how many nodes were ever created
    nodeStatus,  \* Node.status; "Absent" before a node's creation, "Removed" after its removal
    capacity,    \* Node.resources: totals
    allocated,   \* Node.resources: allocated amounts
    podIds,      \* Node.pod_ids
    podCount,    \* len(cluster.pods)
    podStatus,   \* Pod.status; "Absent" before the creation
    podNode,     \* Pod.node_id
    podSpec,     \* Pod.containers' requests and Pod.restart_policy
    containers,  \* the statuses of Pod.containers
    queue,       \* Scheduler.pending_queue
    still,       \* schedule_pending's still_pending
    strategy,    \* the name of Scheduler._strategy
    rrIndex,     \* RoundRobinStrategy._index
    beat,        \* HealthMonitor._tick_count modulo RecoverAfter
    phase        \* how far the current tick is

nodeVars == <<nodeCount, nodeStatus, capacity, allocated, podIds>>
podVars == <<podCount, podStatus, podNode, podSpec, containers>>
schedulerVars == <<queue, still, strategy, rrIndex>>
vars == <<nodeVars, podVars, schedulerVars, beat, phase>>

\* NOT_READY is never assigned.
NodeStatus == {"Absent", "Ready", "Cordoned", "Failed", "Removed"}
Phase == {"idle", "pods", "health", "schedule"}

Nodes == {n \in NodeId : nodeStatus[n] \notin {"Absent", "Removed"}}
Pods  == 1 .. podCount
Running(p) == podStatus[p] = "Running"
Request(p) == RequestOf(podSpec[p])

Load(S) == TotalRequest(podSpec, S)

-----------------------------------------------------------------------------
(* ClusterManager.__init__ *)

Init ==
    /\ nodeCount = InitNodes
    /\ nodeStatus = [n \in NodeId |-> IF n <= InitNodes THEN "Ready" ELSE "Absent"]
    /\ capacity \in [NodeId -> InitCapacities \cup {Nothing}]
    /\ \A n \in NodeId : IF n <= InitNodes THEN capacity[n] \in InitCapacities ELSE capacity[n] = Nothing
    /\ allocated = [n \in NodeId |-> Nothing]
    /\ podIds = [n \in NodeId |-> {}]
    /\ podCount = 0
    /\ podStatus = [p \in PodId |-> "Absent"]
    /\ podNode = [p \in PodId |-> NoNode]
    /\ podSpec = [p \in PodId |-> UnusedSpec]
    /\ containers = [p \in PodId |-> NewContainers(UnusedSpec)]
    /\ queue = <<>>
    /\ still = <<>>
    /\ strategy = InitStrategy
    /\ rrIndex = 0
    /\ beat = 0
    /\ phase = "idle"

-----------------------------------------------------------------------------
(* Eviction, shared by remove_node and the health monitor *)

\* Fault: failed nodes lose only the pods of the first of them.
AffectedByFirst(failed) ==
    {p \in Pods : Running(p) /\ podNode[p] \in failed /\ \A n \in failed : podNode[p] <= n}

\* Fault: whatever was placed there is evicted, running or not.
AffectedWhateverStatus(failed) == {p \in Pods : podNode[p] \in failed}

\* The running pods of the given nodes.
Affected(failed) == {p \in Pods : Running(p) /\ podNode[p] \in failed}

\* Pods are evicted node by node, in the order of the two lists.
EvictedBefore(p, q) == podNode[p] < podNode[q] \/ (podNode[p] = podNode[q] /\ p < q)

EvictionOrders(evicted) ==
    {s \in [1 .. Cardinality(evicted) -> evicted] :
        /\ \A p \in evicted : \E i \in DOMAIN s : s[i] = p
        /\ \A i, j \in DOMAIN s : i < j => EvictedBefore(s[i], s[j])}

\* Fault: the pod still points at the node it was evicted from.
EvictKeepingNode(evicted) ==
    /\ podStatus' = [p \in PodId |-> IF p \in evicted THEN "Evicted" ELSE podStatus[p]]
    /\ containers' = [p \in PodId |-> IF p \in evicted THEN StopAll(containers[p]) ELSE containers[p]]
    /\ \E order \in EvictionOrders(evicted) : queue' = queue \o order
    /\ UNCHANGED <<podNode, podCount, podSpec>>

\* Pod.evict and Scheduler.enqueue of every evicted pod.
EvictAll(evicted) ==
    /\ podStatus' = [p \in PodId |-> IF p \in evicted THEN "Evicted" ELSE podStatus[p]]
    /\ podNode' = [p \in PodId |-> IF p \in evicted THEN NoNode ELSE podNode[p]]
    /\ containers' = [p \in PodId |-> IF p \in evicted THEN StopAll(containers[p]) ELSE containers[p]]
    /\ \E order \in EvictionOrders(evicted) : queue' = queue \o order
    /\ UNCHANGED <<podCount, podSpec>>

-----------------------------------------------------------------------------
(* The API operations *)

\* deploy_batch; create_pod is a batch of one.
DeployBatch(count, spec) ==
    LET created == podCount + 1 .. podCount + count
    IN  /\ phase = "idle"
        /\ podCount + count <= MaxPods
        /\ podCount' = podCount + count
        /\ podStatus' = [p \in PodId |-> IF p \in created THEN "Pending" ELSE podStatus[p]]
        /\ podSpec' = [p \in PodId |-> IF p \in created THEN spec ELSE podSpec[p]]
        /\ containers' = [p \in PodId |-> IF p \in created THEN NewContainers(spec) ELSE containers[p]]
        /\ queue' = queue \o [i \in 1 .. count |-> podCount + i]
        /\ UNCHANGED <<nodeVars, podNode, still, strategy, rrIndex, beat, phase>>

\* Fault: a pod that failed for good gives nothing back.
ReleasedByRunning(p) == IF Running(p) THEN {podNode[p]} \cap Nodes ELSE {}

\* The node delete_pod releases the pod's request on: where the pod was placed, if that node is
\* still on the list.
ReleasedBy(p) == {podNode[p]} \cap Nodes

\* The pending queue is not touched, and node_id keeps its value.
DeletePod(p) ==
    /\ phase = "idle"
    /\ podStatus[p] = "Succeeded" => RepeatedDeletes
    /\ allocated' = [n \in NodeId |->
            IF n \in ReleasedBy(p) THEN Release(allocated[n], Request(p)) ELSE allocated[n]]
    /\ podIds' = [n \in NodeId |-> IF n \in ReleasedBy(p) THEN podIds[n] \ {p} ELSE podIds[n]]
    /\ podStatus' = [podStatus EXCEPT ![p] = "Succeeded"]
    /\ containers' = [containers EXCEPT ![p] = StopAll(@)]
    /\ UNCHANGED <<nodeCount, nodeStatus, capacity, podCount, podNode, podSpec,
                   schedulerVars, beat, phase>>

AddNode(total) ==
    LET n == nodeCount + 1
    IN  /\ phase = "idle"
        /\ n \in NodeId
        /\ nodeCount' = n
        /\ nodeStatus' = [nodeStatus EXCEPT ![n] = "Ready"]
        /\ capacity' = [capacity EXCEPT ![n] = total]
        /\ UNCHANGED <<allocated, podIds, podVars, schedulerVars, beat, phase>>

\* Only running pods are evicted; a failed or deleted one keeps the id of the removed node.
RemoveNode(n) ==
    /\ phase = "idle"
    /\ EvictAll(Affected({n}))
    /\ nodeStatus' = [nodeStatus EXCEPT ![n] = "Removed"]
    /\ capacity' = [capacity EXCEPT ![n] = Nothing]
    /\ allocated' = [allocated EXCEPT ![n] = Nothing]
    /\ podIds' = [podIds EXCEPT ![n] = {}]
    /\ UNCHANGED <<nodeCount, still, strategy, rrIndex, beat, phase>>

\* Node.cordon and Node.uncordon look at no status.
SetNodeStatus(n, status) ==
    /\ phase = "idle"
    /\ nodeStatus' = [nodeStatus EXCEPT ![n] = status]
    /\ UNCHANGED <<nodeCount, capacity, allocated, podIds, podVars, schedulerVars, beat, phase>>

Cordon(n)   == SetNodeStatus(n, "Cordoned")
Uncordon(n) == SetNodeStatus(n, "Ready")

\* A new strategy object: round-robin starts over.
SetStrategy(name) ==
    /\ phase = "idle"
    /\ strategy' = name
    /\ rrIndex' = 0
    /\ UNCHANGED <<nodeVars, podVars, queue, still, beat, phase>>

Operation ==
    \/ \E count \in 1 .. MaxPods, spec \in PodSpecs : DeployBatch(count, spec)
    \/ \E p \in Pods : DeletePod(p)
    \/ \E total \in NewCapacities : AddNode(total)
    \/ \E n \in Nodes : RemoveNode(n) \/ Cordon(n) \/ Uncordon(n)
    \/ \E name \in UsedStrategies : SetStrategy(name)

-----------------------------------------------------------------------------
(* tick() *)

\* add_node passes no failure rate, so an added node has the default one, 0.02.
MayCrash(n) == nodeStatus[n] \in {"Ready", "Cordoned"} /\ (NodeFailures \/ n > InitNodes)

\* Node.simulate_tick of every node.
CrashNodes ==
    /\ phase = "idle"
    /\ \E crashed \in SUBSET {n \in NodeId : MayCrash(n)} :
           nodeStatus' = [n \in NodeId |-> IF n \in crashed THEN "Failed" ELSE nodeStatus[n]]
    /\ phase' = "pods"
    /\ UNCHANGED <<nodeCount, capacity, allocated, podIds, podVars, schedulerVars, beat>>

\* The containers that may crash in this tick.
Fragile(p) == IF ContainerFailures /\ Running(p) THEN RunningContainers(containers[p]) ELSE {}

\* Pod.simulate_tick of every pod.
RunPods ==
    /\ phase = "pods"
    /\ \E crashed \in [PodId -> SUBSET UNION {Fragile(p) : p \in PodId}] :
        /\ \A p \in PodId : crashed[p] \subseteq Fragile(p)
        /\ containers' = [p \in PodId |-> IF Running(p)
               THEN ContainersAfterTick(podSpec[p].policy, containers[p], crashed[p])
               ELSE containers[p]]
        /\ podStatus' = [p \in PodId |-> IF Running(p)
               THEN StatusAfterTick(podSpec[p].policy, crashed[p]) ELSE podStatus[p]]
    /\ phase' = "health"
    /\ UNCHANGED <<nodeVars, podCount, podNode, podSpec, schedulerVars, beat>>

\* Fault: the counter is compared before it wraps.
NeverRecover(b) == b = RecoverAfter

\* Every RecoverAfter-th check recovers all nodes that are down, however long they have been.
RecoverNow(b) == b = 0

\* Fault: nodes recover before anybody looks for the pods on them.
HealthCheckRecoveringFirst ==
    LET failed  == {n \in NodeId : nodeStatus[n] = "Failed" /\ ~ RecoverNow((beat + 1) % RecoverAfter)}
        evicted == Affected(failed)
        lost(n) == {p \in evicted : podNode[p] = n}
    IN  /\ phase = "health"
        /\ EvictAll(evicted)
        /\ allocated' = [n \in NodeId |-> Release(allocated[n], Load(lost(n)))]
        /\ podIds' = [n \in NodeId |-> podIds[n] \ evicted]
        /\ beat' = (beat + 1) % RecoverAfter
        /\ nodeStatus' = [n \in NodeId |->
               IF nodeStatus[n] = "Failed" /\ RecoverNow(beat') THEN "Ready" ELSE nodeStatus[n]]
        /\ phase' = "schedule"
        /\ UNCHANGED <<nodeCount, capacity, still, strategy, rrIndex>>

\* HealthMonitor.check: evict from the failed nodes, then recover them if it is time.
HealthCheck ==
    LET failed  == {n \in NodeId : nodeStatus[n] = "Failed"}
        evicted == Affected(failed)
        lost(n) == {p \in evicted : podNode[p] = n}
    IN  /\ phase = "health"
        /\ EvictAll(evicted)
        /\ allocated' = [n \in NodeId |-> Release(allocated[n], Load(lost(n)))]
        /\ podIds' = [n \in NodeId |-> podIds[n] \ evicted]
        /\ beat' = (beat + 1) % RecoverAfter
        /\ nodeStatus' = [n \in NodeId |->
               IF n \in failed /\ RecoverNow(beat') THEN "Ready" ELSE nodeStatus[n]]
        /\ phase' = "schedule"
        /\ UNCHANGED <<nodeCount, capacity, still, strategy, rrIndex>>

CanFit(n, req) == nodeStatus[n] = "Ready" /\ FitsWithin(req, capacity[n], allocated[n])
Eligible(p) == {n \in NodeId : CanFit(n, Request(p))}

\* Fault: the index never moves.
NeverAdvance(name, index) == index

\* Only round-robin has an index to advance.
Advance(name, index) == IF name = "round-robin" THEN (index + 1) % RRPeriod ELSE index

\* schedule_one finds a node: the pod is bound to it, whatever the pod's status is.
Bind(p, n) ==
    /\ allocated' = [allocated EXCEPT ![n] = Allocate(@, Request(p))]
    /\ podIds' = [podIds EXCEPT ![n] = @ \cup {p}]
    /\ podNode' = [podNode EXCEPT ![p] = n]
    /\ podStatus' = [podStatus EXCEPT ![p] = "Running"]
    /\ containers' = [containers EXCEPT ![p] = StartAll(@)]
    /\ rrIndex' = Advance(strategy, rrIndex)
    /\ still' = still
    /\ UNCHANGED <<nodeCount, nodeStatus, capacity, podCount, podSpec, strategy>>

\* Fault: an unschedulable pod is forgotten.
Forget(p) == still

\* Fault: an unschedulable pod goes to the front.
PutFirst(p) == <<p>> \o still

\* still_pending.append(pod)
Keep(p) == Append(still, p)

\* schedule_one finds none.
Defer(p) ==
    /\ Eligible(p) = {}
    /\ still' = Keep(p)
    /\ UNCHANGED <<nodeVars, podVars, strategy, rrIndex>>

\* Fault: a pod that cannot be placed is tried again in the same loop.
ScheduleRetrying ==
    LET p == Head(queue)
    IN  /\ phase = "schedule"
        /\ queue # <<>>
        /\ \/ /\ Eligible(p) = {}
              /\ queue' = Append(Tail(queue), p)
              /\ UNCHANGED <<nodeVars, podVars, strategy, still, rrIndex>>
           \/ /\ \E n \in SelectNode(strategy, Eligible(p), capacity, allocated, Request(p), rrIndex) :
                     Bind(p, n)
              /\ queue' = Tail(queue)
        /\ UNCHANGED <<beat, phase>>

\* One round of the loop of schedule_pending.
ScheduleOne ==
    LET p == Head(queue)
    IN  /\ phase = "schedule"
        /\ queue # <<>>
        /\ queue' = Tail(queue)
        /\ \/ Defer(p)
           \/ \E n \in SelectNode(strategy, Eligible(p), capacity, allocated, Request(p), rrIndex) :
                  Bind(p, n)
        /\ UNCHANGED <<beat, phase>>

\* self.pending_queue = still_pending
FinishTick ==
    /\ phase = "schedule"
    /\ queue = <<>>
    /\ queue' = still
    /\ still' = <<>>
    /\ phase' = "idle"
    /\ UNCHANGED <<nodeVars, podVars, strategy, rrIndex, beat>>

TickStep == CrashNodes \/ RunPods \/ HealthCheck \/ ScheduleOne \/ FinishTick

Next == Operation \/ TickStep

Spec == Init /\ [][Next]_vars

\* simulation_loop ticks as long as the simulation runs.
FairSpec == Spec /\ WF_vars(TickStep)

-----------------------------------------------------------------------------
(* Correctness *)

NodesOK ==
    /\ nodeCount \in 0 .. MaxNodes
    /\ nodeStatus \in [NodeId -> NodeStatus]
    /\ \A n \in NodeId : nodeStatus[n] = "Absent" <=> n > nodeCount
    /\ capacity \in [NodeId -> Amount]
    /\ allocated \in [NodeId -> Amount]
    /\ podIds \in [NodeId -> SUBSET PodId]

PodsOK ==
    /\ podCount \in 0 .. MaxPods
    /\ podStatus \in [PodId -> PodStatus \cup {"Absent"}]
    /\ podNode \in [PodId -> NodeId \cup {NoNode}]
    /\ podSpec \in [PodId -> PodSpecs]
    /\ \A p \in PodId \ Pods : podNode[p] = NoNode
    /\ \A p \in PodId : podStatus[p] = "Absent" <=> p \notin Pods

ContainersOK ==
    /\ DOMAIN containers = PodId
    /\ \A p \in PodId : containers[p] \in [1 .. podSpec[p].containers -> ContainerStatus]

SchedulerOK ==
    /\ queue \in Seq(Pods)
    /\ still \in Seq(Pods)
    /\ phase # "schedule" => still = <<>>
    /\ strategy \in StrategyName
    /\ rrIndex \in 0 .. RRPeriod - 1

\* Every variable has its type, allocated amounts never go below zero, and the numbers in use are
\* the first nodeCount and podCount ones.
TypeOK ==
    /\ NodesOK
    /\ PodsOK
    /\ ContainersOK
    /\ SchedulerOK
    /\ beat \in 0 .. RecoverAfter - 1
    /\ phase \in Phase

\* The pods the scheduler still has to place, in the order it tries them in.  In the middle of
\* schedule_pending these are the ones already put aside and the rest of the queue.
Waiting == still \o queue
WaitingPods == Range(Waiting)

\* A pod waits in one place only: no eviction or retry enqueues it a second time.
WaitsOnce == IsInjective(Waiting)

\* No pod that needs a node is lost, whatever sequence of crashes, removals, evictions and
\* failed attempts it has been through.
NoneLost == \A p \in Pods : podStatus[p] \in {"Pending", "Evicted"} => p \in WaitingPods

\* Only pods without a node wait; a deleted pod may still be among them (delete_pod leaves the
\* pending queue alone), a running or failed one never.
OnlyUnplacedWait ==
    \A p \in WaitingPods :
        p \in Pods /\ podStatus[p] \in {"Pending", "Evicted", "Succeeded"} /\ podNode[p] = NoNode

\* The pending queue against the pods' statuses: schedule_pending, enqueue, evict, delete_pod.
QueueDiscipline == WaitsOnce /\ NoneLost /\ OnlyUnplacedWait

Holds(p) == podStatus[p] \in {"Running", "Failed"}

\* Node.pod_ids and Pod.node_id agree: a listed node's pod_ids are exactly the pods that hold
\* resources there, a running pod is on a listed node, and no node_id names a node yet to come.
PlacementAgrees ==
    /\ \A n \in NodeId, p \in PodId :
           p \in podIds[n] <=> n \in Nodes /\ podNode[p] = n /\ Holds(p)
    /\ \A p \in PodId : Running(p) => podNode[p] \in Nodes
    /\ \A p \in PodId : podNode[p] <= nodeCount

\* What ResourcePool counts as allocated never exceeds the node's capacity nor what the pods in
\* pod_ids ask for: no sequence of evictions, deletions and bindings leaves a node with an
\* allocation that nobody owns.
NoPhantomAllocation ==
    \A n \in NodeId : \A r \in Resource :
        allocated[n][r] <= capacity[n][r] /\ allocated[n][r] <= Load(podIds[n])[r]

\* Once the health monitor has looked, no pod counts as running on a node that is down, until
\* the next crash.
NoneRunsOnFailedNode ==
    phase \in {"schedule", "idle"} =>
        \A p \in Pods : Running(p) => nodeStatus[podNode[p]] # "Failed"

\* A crash is never survived unnoticed: however a node leaves the failed state (recovery, which may
\* come in the tick of the crash, uncordon, cordon, removal), no pod runs on it that ran there when
\* it went down.
EmptiedBeforeReturn ==
    [][\A n \in NodeId :
           nodeStatus[n] = "Failed" /\ nodeStatus'[n] # "Failed" =>
               \A p \in Pods : podStatus'[p] = "Running" => podNode'[p] # n]_vars

\* A pod is put aside only if it fits nowhere, and that stays so while the rest of the queue is
\* placed: at the end of schedule_pending no waiting pod could have been placed.
WorkConserving ==
    \A i \in DOMAIN still, n \in NodeId :
        nodeStatus[n] = "Ready" =>
            \E r \in Resource : allocated[n][r] + Request(still[i])[r] > capacity[n][r]

WaitsBefore(p, q) ==
    \E i, j \in DOMAIN Waiting : i < j /\ Waiting[i] = p /\ Waiting[j] = q

\* Nobody jumps the queue: as long as two pods both wait, they are tried in the same order,
\* across attempts, ticks and evictions of others.
QueueKeepsOrder ==
    [][\A p, q \in PodId :
           WaitsBefore(p, q) /\ {p, q} \subseteq WaitingPods' => WaitsBefore(p, q)']_vars

\* Only a place in the queue brings a deleted pod back: one that is deleted while it runs or after
\* it failed stays deleted, and nothing enqueues it.
OnlyTheQueueRevives ==
    [][\A p \in Pods :
           podStatus[p] = "Succeeded" /\ p \notin WaitingPods =>
               podStatus'[p] = "Succeeded" /\ p \notin WaitingPods']_vars

\* The containers all have one status, one of the given ones.
Alike(cs, statuses) == \E status \in statuses : \A c \in DOMAIN cs : cs[c] = status

\* The containers of a running pod run together or are stopped together, through crashes,
\* restarts, evictions and new starts: a pod whose restart policy the code knows is never
\* half alive.
ContainersTogether ==
    \A p \in Pods :
        Running(p) /\ podSpec[p].policy \in {"Always", "Never"} =>
            Alike(containers[p], {"Running", "Terminated"})

\* At most how many steps the current tick still takes.
StepsLeft ==
    [idle |-> 0, schedule |-> Len(queue) + 1, health |-> MaxPods + 2, pods |-> MaxPods + 3][phase]

\* Every tick ends, and soon: schedule_pending tries no pod twice in one call, whatever the
\* attempts come to, so that each step brings the end of the tick nearer.
TickEnds == [][phase # "idle" => StepsLeft' < StepsLeft]_vars

\* What is allocated on a node is what the pods in its pod_ids ask for, to the unit.
ExactLedger == \A n \in NodeId : allocated[n] = Load(podIds[n])

\* The pods placed on a node fit in it together.
NoOvercommit ==
    \A n \in NodeId : \A r \in Resource : Load(podIds[n])[r] <= capacity[n][r]

\* A node that is down comes back or is taken off the list.
FailedNodesReturn == \A n \in NodeId : nodeStatus[n] = "Failed" ~> nodeStatus[n] # "Failed"

\* A pod that waits is placed, or deleted, or there comes a moment when no node could take it.
WaitingPodsAreTried ==
    \A p \in PodId :
        podStatus[p] \in {"Pending", "Evicted"} ~>
            podStatus[p] \notin {"Pending", "Evicted"} \/ Eligible(p) = {}

\* delete_pod is final: a stopped pod never runs again.
DeletedStaysDeleted ==
    [][\A p \in Pods : podStatus[p] = "Succeeded" => podStatus'[p] = "Succeeded"]_vars

\* A running pod whose containers are always restarted has all of them running.
RunningPodsRun ==
    \A p \in Pods : Running(p) /\ podSpec[p].policy = "Always" =>
        \A c \in DOMAIN containers[p] : containers[p][c] = "Running"

\* After the health check a node that is down holds no pods.
FailedNodesAreEmpty ==
    phase = "schedule" => \A n \in NodeId : nodeStatus[n] = "Failed" => podIds[n] = {}

=============================================================================
