# A TLA+ model of the Mini Container Orchestration Simulator

The simulator (`src/cluster`, `src/scheduler`, `src/pods`, `src/monitoring`, `src/api`) plays the
control plane of a container orchestrator. Clients create and delete pods and nodes. On every tick
nodes and containers crash at random, the health monitor evicts pods from failed nodes, and the
scheduler places what waits. A server runs those ticks in a task and broadcasts them to WebSocket
clients. These modules say what control plane and server do, the configurations check it with TLC
on small instances, and the proof modules prove the safety properties that hold on them for
instances of any size. Paths in this text are relative to the repository's root; those in `PROJECT.json` have one
more `src/` in front.

## Inventory

| Component | State | Operations | Correct when |
|---|---|---|---|
| `ResourcePool`, `ResourceRequest` (`cluster/resources.py`) | totals, allocated amounts, allocation log | `fits_within`, `allocate`, `release`, `overall_utilization` | counters are the sum of what is placed; never below 0, never above the total |
| `Node` (`cluster/node.py`) | status, pool, `pod_ids`, conditions | `can_fit`, `allocate`, `release`, `cordon`, `uncordon`, `simulate_tick`, `recover` | `pod_ids` are the pods that hold resources there; only a ready node takes pods |
| `Container` (`pods/container.py`) | status, counters, times | `start`, `stop`, `fail`, `restart`, `simulate_tick` | a container of a running pod runs, or its policy says why not |
| `Pod` (`pods/pod.py`) | status, `node_id`, containers, policy | `schedule_on`, `start`, `stop`, `evict`, `simulate_tick` | running exactly while it has a node; stopped for good once deleted |
| Strategies (`scheduler/strategies.py`) | round-robin's index | `select_node` of four strategies | the answer is eligible, and the one the strategy's rule names |
| `Scheduler` (`scheduler/scheduler.py`) | strategy, pending queue, history | `enqueue`, `set_strategy`, `schedule_one`, `schedule_pending` | nobody is lost, placed twice, or overtaken; nothing that fits is put aside |
| `HealthMonitor` (`monitoring/health.py`) | check counter | `check` | nothing runs on a failed node; failed nodes come back |
| `ClusterManager` (`cluster/cluster.py`) | node list, pod list, all of the above | `create_pod`, `deploy_batch`, `delete_pod`, `add_node`, `remove_node`, `set_scheduler_strategy`, `tick` | the parts agree after any sequence of calls |
| API server (`api/server.py`) | the cluster, `simulation_running`, `simulation_task`, `connected_clients`, the coroutines | REST endpoints, `/ws`, `simulation_loop`, `broadcast` | at most one loop ticks, and one does while the simulation runs; the list of clients is exact; broadcasts arrive in order, at everybody |
| `MetricsCollector` (`monitoring/metrics.py`) | a bounded history of samples | `collect`, `recent` | the newest ticks are kept, none missing; what counts as used is owned by placed pods |
| `EventLogger` (`monitoring/logger.py`) | a bounded list of events | `log`, `recent` | the newest entries are kept |
| Dashboard, `main.py`, `benchmarks.py` | none of the cluster's | scripts and rendering | not modelled |

Interaction is by direct calls in one thread: the server's endpoints call `ClusterManager`, whose
`tick` drives nodes, pods, monitor and scheduler in that order; the monitor and `remove_node` call
`Scheduler.enqueue`; the scheduler writes into nodes and pods. What is hard is not parallelism but
long sequences: a pod's request is copied into three places (the counters, `pod_ids`, `node_id`),
and evictions, deletions, failures, removals and recoveries each update some of them. Concurrency
exists only in the server, between coroutines, at `await`: the simulation task is suspended in each
send of a broadcast and in its sleep, and meanwhile endpoints edit `connected_clients`, stop and start
the simulation, tick by hand and replace the cluster.

## Modules

| Module | Models |
|---|---|
| `Resources` | `resources.py`: amounts, the test a request must pass, allocate, clamped release, utilization as an exact fraction |
| `Workloads` | `container.py` and the container loops of `pod.py`, as functions on the containers' statuses |
| `Strategies` | `strategies.py`: each strategy as the set of nodes it may return (always a singleton or empty) |
| `ClusterManager` | the state machine: nodes, pods, scheduler, monitor and `tick` |
| `PlacementHistory` | `ClusterManager` with a record of round-robin's recent placements, and the list scans of `strategies.py` as a reference |
| `NodeHistory` | `ClusterManager` with a record of how long each node has been down and whether the operator has withdrawn it |
| `Metrics` | `MetricsCollector.collect` as a function of the state of `ClusterManager` |
| `PodPlacement` | abstract: what the cluster promises about pods that wait and pods that are placed |
| `PlacementRefinement` | the mapping under which `ClusterManager` implements `PodPlacement` |
| `BoundedLog` | the lists of `logger.py` and `metrics.py`: push with a limit, and `recent` as Python slices |
| `Server` | `server.py`: simulation tasks, start, stop, init, tick, WebSocket endpoints, `broadcast` |
| `MCClusterManager`, `MCPlacementHistory`, `MCNodeHistory`, `MCServer` | values for the constants of the runs |
| `ClusterManagerProofs` | theorems about `ClusterManager`: the queue, the placement, the ledger |
| `SchedulingProofs` | theorems about its ticks: failed nodes, what is put aside, the order of the queue, the end of the tick; and about deleted pods and a pod's containers over many ticks |
| `ScanProofs` | theorems about `PlacementHistory`'s scan: what each strategy returns |
| `PlacementHistoryProofs` | the theorem that round-robin takes turns |
| `MetricsProofs` | the theorem about the utilization of a sample |
| `RefinementProofs` | the theorem that `ClusterManager` implements `PodPlacement` |
| `NodeHistoryProofs` | the theorem about how long a node is down at most |
| `ServerProofs` | theorems about `Server` |

`ClusterManager` composes `Resources`, `Workloads` and `Strategies`; `PlacementHistory`,
`NodeHistory`, `Metrics` and `PlacementRefinement` extend it. `Server` stands beside it: of the cluster
it keeps only which one it is, its tick count and the ticks in its metrics history, because the
server's own questions (which loop ticks, who hears of what) depend on nothing else, and because a
tick never awaits and so is one step for the server.

Definitions whose comment starts with "Fault:" are not part of the model: each is a plausible
mistake in the definition that follows it, and `PROJECT.json` ("mutants") says which property
notices when it takes that definition's place.

### How `ClusterManager` corresponds to the code

Nodes and pods are numbers in the order of their lists. The pod list only grows, so pods are
`1 .. podCount`. A node's number is never used again after `remove_node`.

| Variable | Code |
|---|---|
| `nodeStatus`, `capacity`, `allocated`, `podIds` | `Node.status`, `Node.resources`, `Node.pod_ids`; "Absent" and "Removed" say that the node is not on the list |
| `podStatus`, `podNode`, `podSpec`, `containers` | `Pod.status`, `Pod.node_id` (`NoNode` is None), the arguments of `create_pod`, the containers' statuses |
| `queue`, `still` | `Scheduler.pending_queue`, and `still_pending` of the `schedule_pending` that is under way |
| `strategy`, `rrIndex` | the strategy object, round-robin's `_index` modulo `RRPeriod` |
| `beat` | `HealthMonitor._tick_count` modulo `_recover_after_ticks` |
| `phase` | how far the current `tick` is |

| Action | Code |
|---|---|
| `DeployBatch` | `deploy_batch`; with a count of 1, `create_pod` |
| `DeletePod`, `AddNode`, `RemoveNode`, `SetStrategy` | the methods of those names |
| `Cordon`, `Uncordon` | the endpoints, which call `Node.cordon` and `Node.uncordon` on any node, a failed one included |
| `CrashNodes`, `RunPods`, `HealthCheck` | the first three steps of `tick` |
| `ScheduleOne` (`Defer` or `Bind`), `FinishTick` | one round of the loop of `schedule_pending`, and its end |

`tick` does not await, so API operations are only possible when `phase` is "idle". Cutting `tick`
into steps shows the states between them to the invariants; it adds no interleaving. In the batch,
all pods of one `deploy_batch` get the same arguments, as in the code.

Abstractions: requests and capacities are natural numbers (`pydantic` would also accept negative
ones); names, labels, times, log messages, reports and histories are left out, because no
decision of the code reads them. Random failures are nondeterministic, so every outcome of
`random.random()` is covered. Utilizations are compared as fractions where the code compares floats;
the two differ at most when two different fractions round to the same float. A restart policy
other than "Always" and "Never" is a third value, since the code accepts any string and then
neither restarts nor fails the pod. `Metrics` leaves out restart counts. The branch of `schedule_one` for a failed `allocate` cannot be
reached, since `select_node` has just filtered with the same test, and has no action.

### How `Server` corresponds to the code

Sockets are numbered as they connect. Each is "new", "open", "gone" (the connection is lost and the
endpoint has not noticed) or "closed" (the endpoint has ended). `task[t]` is a task that runs
`simulation_loop`: where it waits, and in a broadcast the message (cluster and tick), the position of
the list iterator, the socket of the present send, and the local list `dead`.

| Action | Code |
|---|---|
| `StartSimulation`, `StopSimulation`, `InitCluster`, `ManualTick` | the endpoints of those names; `cancel` takes effect when the task runs next (`Die`) |
| `RunLoop` | a round of `simulation_loop` from the test of `simulation_running` to the first suspended send, or to the sleep if nobody is connected |
| `EndSend` | a send returns or raises; `broadcast` goes on to the next entry, or removes the dead ones and the loop sleeps, or `remove` raises `ValueError` and the task ends |
| `Connect`, `SocketTick`, `EndEndpoint` | `websocket_endpoint`: accept and append; a "tick" message; the `finally` clause |
| `Vanish` | the environment: a connection is lost |

An action is the code between two awaits, so another coroutine can run at every await and nowhere
else. What the code takes from asyncio and Starlette is modelled from how it is used: a send to an
open connection arrives, a send to a lost one raises or returns; a cancelled task gets its
`CancelledError` where it waits, and `except Exception` in `broadcast` does not catch it; a list
iterator of Python counts positions, whatever is removed from or appended to the list under it.
`link`, `heard` and the flag `shifted` of a broadcast record what the properties speak of and no
action of the program reads (`link` stands for the connection itself).

### What `PodPlacement` promises

A pod that waits goes on waiting until it is given a place; a place is given only where the pod fits
beside what is there; who loses a place waits again (`Evict`) or gives it up (`Leave`, `Close`). There
is no queue, counter, status, tick or crash in it. `PlacementRefinement` maps a pod to the listed
node it holds resources of, and `waiting` to the pods in `pending_queue` or `still_pending`. The
refinement holds if clients delete a pod once only; the run `overcommit` shows why it does not hold
otherwise.

## What is checked

| Run | Question | States |
|---|---|---|
| `cluster_safety` | Do queue, statuses, placements and counters agree whatever happens, pods deleted again and again included? Is scheduling work conserving, does it keep the queue's order, and does every tick end? Does a node come back empty? What brings a deleted pod back, and do a pod's containers keep together? | 1.1 million |
| `placements` | If clients delete a pod once only, are the counters exact, is no node overcommitted, is the utilization in the metrics owned by placed pods, and does the cluster implement `PodPlacement`? Does each strategy select what a scan of the node list selects, and does round-robin take turns? Three nodes that may all fail, two of them without memory, all four strategies, recovery on every tick. | 1.9 million |
| `liveness` | Is a node down for no longer than the cooldown? Under fair ticks, do failed nodes return, and is every waiting pod tried? The cooldown of 5 of the code. | 0.15 million |
| `server` | Three connections, two tasks, two ticks, one new cluster: one loop, exact list, order and reach of broadcasts, and do broadcasts and cancelled tasks end? | 0.4 million |
| `overcommit` | counterexample, see below | |
| `deleted_stays_deleted` | counterexample | |
| `running_pods_run` | counterexample | |
| `failed_nodes_are_empty` | counterexample | |
| `round_robin_goes_on` | counterexample | |
| `simulation_goes_on` | counterexample | |
| `cordon_sticks` | counterexample | |
| `cools_down` | counterexample, with the cooldown of 5 of the code | |

The properties, in the order of `ClusterManager.tla`:

* `QueueDiscipline`: a pod that needs a node is in the queue, once; nobody else is, except deleted
  pods, which `delete_pod` leaves there.
* `PlacementAgrees`: `pod_ids` and `node_id` tell the same story on every listed node, and a running
  pod is on a listed node.
* `NoPhantomAllocation`: a node never counts more than its capacity, nor more than its pods ask for.
* `NoneRunsOnFailedNode`: after the health check nothing counts as running on a failed node.
* `EmptiedBeforeReturn`: however a node stops being failed, no pod runs on it after that step. The
  check that finds a node failed may be the one that recovers it, and clients may uncordon, cordon or
  remove it before; the pods of the time before the crash must be gone each time.
* `WorkConserving`: who was put aside in this tick still fits nowhere, whatever was placed since.
* `QueueKeepsOrder`: two pods that both wait keep their order over attempts, ticks and evictions.
* `OnlyTheQueueRevives`: a deleted pod that is not in the queue stays deleted and out of the queue.
  So the queue is the one way back, which finding 2 is about.
* `ContainersTogether`: the containers of a running pod that is always or never restarted are all
  running or all terminated. The second is finding 3; the property says that there is nothing in
  between, such as a pod of which half restarted.
* `TickEnds`: each step brings the end of the tick nearer, in a number (`StepsLeft`) that the length
  of the queue bounds. An attempt that fails is not repeated within the same `schedule_pending`.
* `ExactLedger`, `NoOvercommit`: counters are exact, and what is placed on a node fits in it.
* `FailedNodesReturn`, `WaitingPodsAreTried`: the liveness properties.
* `SelectsWhatTheScanFinds`, `TakesTurns` (in `PlacementHistory`): the strategies.
* `UsageIsOwned` (in `Metrics`): the used amounts of a sample are what placed pods ask for.
* `ImplementsPodPlacement` (in `PlacementRefinement`): the refinement.
* `BackInTime` (in `NodeHistory`): nobody is down for longer than the cooldown. This is the half of
  "after a cooldown" that holds; `CoolsDown`, the other half, is finding 8.
* `OneLoop` (in `Server`): a loop that may still tick is the one of `simulation_task`, and the
  simulation runs. A start right after a stop finds the old task still suspended.
* `RosterExact`: every open connection is in `connected_clients` once, and nobody whose endpoint has
  ended, although broadcasts and endpoints both remove entries.
* `NewestKept`: the metrics history is the newest ticks of the present cluster.
* `ToldInOrder`: what a client gets is of ever later ticks, over stops, restarts and new clusters.
* `ReachesEveryone`: a broadcast reaches whoever is open at its end, if no entry before the
  iterator's position was removed meanwhile. Without that condition it is false: the removal shifts
  the list and the iterator passes over one client, who misses that one message.
* `TasksMoveOn`: a broadcast that is suspended ends, and so does a cancelled task.

### Findings

1. `overcommit`: deleting a pod twice releases its request twice. `delete_pod` looks at no status
   and leaves `node_id` set; `release` looks at no owner. The node then counts less than it holds and
   the scheduler overcommits it.
2. `deleted_stays_deleted`: a pod deleted while pending stays in the queue and runs after the next
   tick.
3. `running_pods_run`: an evicted pod is placed again and is RUNNING, but its containers stay
   TERMINATED, because `Container.start` starts only created and restarting ones.
4. `failed_nodes_are_empty`: a pod that failed for good is not evicted from a crashed node and
   keeps its allocation there.
5. `round_robin_goes_on`: an index modulo the length of a changing list is not a cycle; a node can be
   chosen twice in a row while another is eligible.
6. `simulation_goes_on`: a client whose send failed and whose endpoint ends before the broadcast does
   is removed twice; the second `remove` raises `ValueError` and ends the simulation task, while
   `simulation_running` stays set, so that a further start answers "already running".
7. `cordon_sticks`: `Node.recover` sets READY whatever was wanted of the node, so a cordoned node
   that crashes comes back schedulable.
8. `cools_down`: a node has no cooldown of its own. Every fifth check recovers all failed nodes, also
   the one that has crashed in the same tick, which `monitoring/health.py:24` and `README.md:191` say recovers
   "after a cooldown".

### Bounds

One to three nodes of one to three units per resource and two or three pods of one or two units: two
pods fill a node, two pods compete for one, one waits while another is placed, a node runs out of
memory before it runs out of CPU, and a pod of two containers can lose one of them. Three nodes let
two fail in the same tick with one left. Nodes and pods are numbered for good, so the bounds also
limit how many can be created; evictions, failures, recoveries and repeated deletions are not
limited. `RRPeriod` is a multiple of every possible number of eligible nodes, so that the bounded
index selects what the unbounded one would (`SchedulerAssumption`). `RecoverAfter` is 1 or 2 where
the cooldown's length does not matter and 5, the code's value, where it does. `down` stops counting
at `RecoverAfter + 1`, which `BackInTime` says it never reaches. In `placements` one node has memory
and the two that may be added have none, so that a pod that needs no memory fits on all, nodes tie
in every ranking, and a utilization has a total of zero; the other pod needs the whole of the first
node and fails for good when one of its two containers does.

For `Server`: three connections (`MaxSockets`), so that one can leave before, at and behind the
iterator's position and one stays; two tasks (`MaxTasks`), so that a cancelled one is still there when
the next one starts; two ticks (`MaxTicks`) of a history of one entry (`MaxHistory`), so that an entry
is dropped; one replacement of the cluster (`MaxInits`). Starts, stops and losses of connections are
not limited. No symmetry is used: list positions matter.

### Fairness

`FairSpec` asks for weak fairness of `TickStep`: the simulation loop ticks as long as it runs
(`simulation_loop`), and every tick ends. Nothing is assumed about clients or about crashes.
Container crashes are left out of the liveness run: they do not change a node's or a waiting pod's
state. `WaitingPodsAreTried` promises an attempt and not a place, since other pods may take the room
each time.

`FairPastSpec` is the same for `NodeHistory`. `FairSpec` of `Server` asks that a task that can go on does
(asyncio runs every ready task) and that a suspended send ends: the web server closes a connection
whose pings stay unanswered. Nothing is assumed of clients, of operators, or of endpoints.

## What is proved

For all values of the constants that satisfy `Assumptions` (in `ClusterManager`) or
`ServerAssumption` (in `Server`):

| Theorem | Statement |
|---|---|
| `TypeCorrect` | `Spec => []TypeOK` |
| `QueueDisciplineHolds` | `Spec => []QueueDiscipline` |
| `PlacementHolds` | `Spec => []PlacementAgrees` |
| `NoPhantomAllocationHolds` | `Spec => []NoPhantomAllocation` |
| `ExactLedgerHolds` | without repeated deletes, `Spec => []ExactLedger` |
| `NoOvercommitHolds` | without repeated deletes, `Spec => []NoOvercommit` |
| `NoneRunsOnFailedNodeHolds` | `Spec => []NoneRunsOnFailedNode` |
| `EmptiedBeforeReturnHolds` | `Spec => EmptiedBeforeReturn` |
| `WorkConservingHolds` | `Spec => []WorkConserving` |
| `QueueKeepsOrderHolds` | `Spec => QueueKeepsOrder` |
| `OnlyTheQueueRevivesHolds` | `Spec => OnlyTheQueueRevives` |
| `ContainersTogetherHolds` | `Spec => []ContainersTogether` |
| `TicksEnd` | `Spec => TickEnds`, and `StepsLeft` is always in `0 .. MaxPods + 3` |
| `StrategiesScan` (`ScanProofs`) | `HistorySpec => []SelectsWhatTheScanFinds` |
| `SchedulingIsDetermined` | `Spec => []OneOutcome`: one answer if any node is eligible, none otherwise |
| `RoundRobinTakesTurns` (`PlacementHistoryProofs`) | `HistorySpec => TakesTurns` |
| `UsageIsOwnedHolds` (`MetricsProofs`) | without repeated deletes, `Spec => []UsageIsOwned` |
| `PlacementImplemented` (`RefinementProofs`) | without repeated deletes, `Spec => ImplementsPodPlacement` |
| `NodesReturnInTime` (`NodeHistoryProofs`) | `PastSpec => []BackInTime` |
| `ServerTypeCorrect` (`ServerProofs`) | `Spec => []TypeOK` |
| `AtMostOneLoop` | `Spec => []OneLoop` |
| `RosterIsExact` | `Spec => []RosterExact` |
| `HistoryIsNewest` | `Spec => []NewestKept` |
| `BroadcastsAreInOrder` | `Spec => ToldInOrder` |
| `BroadcastReachesEveryone` | `Spec => ReachesEveryone` |

The argument. `TypeOK` is inductive by itself. `QueueDiscipline` is inductive with it: evicted pods
are running, hence not waiting (`OnlyUnplacedWait`), so appending them keeps the queue free of
repetitions; a round of `schedule_pending` moves one pod from the queue's head to the end of `still`
or to a node. `PlacementAgrees` needs both: the pod that `Bind` places has no node yet, because it
waited, so it cannot be in another node's `pod_ids`. Its third part, that no `node_id` is beyond
`nodeCount`, is what keeps a new node from inheriting pods. Together they are the invariant
`Consistent`. The ledger rests on it: `TotalRequest` is additive over disjoint sets of pods
(`TotalOfUnion`, `TotalOfDifference`), so binding adds and evicting subtracts the same amounts on
both sides, and a release too many can only make the counters smaller. Without repeated deletes
every release is of a pod the node holds, and the inequality is an equality; with the capacity
bound that gives `NoOvercommit`. The request total is the cardinality of a set of units and not a
recursive sum, so that the library's theorems about finite sets apply.

`SchedulingProofs` strengthens `Consistent` with the property at hand. `NoneRunsOnFailedNode` is
inductive with it: `health_check` evicts from every failed node, `select_node` only sees ready ones,
and no operation between two ticks makes a node fail. `EmptiedBeforeReturn` follows from it: a node
leaves the failed state in the health check or by a removal, both of which evict first
(`EvictionEmpties`), or by a cordon or uncordon between ticks, when nothing runs on it.
`WorkConserving` is too: while the queue is
drained allocations only grow (`StillFitsNowhere`), so a pod that fitted nowhere still fits nowhere.
`QueueKeepsOrder` is an action property: each step appends to the queue (`EnqueueKeepsOrder`), takes
one pod out (`DropKeepsOrder`), or moves the head to the end of `still`, which leaves the
concatenation of both as it was. The same three kinds of steps, with what they add to or take from
`WaitingPods` (`EvictAllWaiting`, `DeployBatchWaiting`, `BindWaiting`, `DeferWaiting`), give
`OnlyTheQueueRevives`: evictions enqueue running pods, deployments new ones, and nothing else
enqueues. `ContainersTogether` is not inductive: what a start makes of a pod depends on how the
containers were left when the pod last lost its place. `AllKeptAlike` adds that a waiting pod's
containers are all as created or all terminated. For `TicksEnd`, the queue is no longer than there
are pods because it has no repetitions (`QueueBounded`), so `StepsLeft` falls in the health check too,
which appends to the queue.

`ScanProofs` compares `select_node` as `Strategies` has it, by what the chosen node is among all
eligible ones, with the loop over the node list. The list of a set of nodes is determined by ranks: the
`i`-th entry is the one with `i - 1` smaller ones (`ListOfAll`, `RankInList`). That `min` ends with the
first of the least entries speaks of a recursive function, and an induction over the list is out of
reach (below); `LeastNatural` replaces it: a set of natural numbers that is not empty has a least
element, so a round at which the claim first fails can be looked at, and the round before it, where
the claim holds, excludes it (`RoundsExist`, `OneRound`, `MinIsFirstLeast`). Utilizations are compared
crosswise in the model and in parts of a common multiple in the scan; `CancelFactor` and
`FractionsBetween` show that both order the nodes alike (`UtilizedOrder`). `SchedulingIsDetermined`
is a consequence: no strategy indexes beyond its list or takes the minimum of an empty one.

`RoundRobinTakesTurns` rests on an invariant about the index: the nodes of `round` are those of
`steady` that the index met in its latest `j` steps, for some `j` (`RecentRound`, with `Ago` for how
many steps ago). `RRPeriod` is a multiple of the number of eligible nodes, so a
wrapped index meets them in the same order, and the node it meets next is the one it met longest
ago.

`UsageIsOwnedHolds` counts units: the units allocated on the listed nodes correspond one to one to
the units that the pods placed there ask for (`UnitsCorrespond`). On each node there are equally many,
by `ExactLedger`; by `PlacementAgrees` no pod is on two nodes, and every pod that holds something is in
the `pod_ids` of its node.

`RefinementProofs` rests on `Consistent` and `ExactLedger`. By `PlacementAgrees` the abstract place of
a pod is the node whose `pod_ids` it is in, so each action need only say what it does to `pod_ids` and
to the queue. `DeployBatch` maps to `Submit`, `DeletePod` to `Leave`, `AddNode` to `Open`, `RemoveNode`
to `Close`, `HealthCheck` to `Evict`, `Bind` to `Place`, and all others to stuttering. For `Place` the
exact ledger is what counts: `can_fit` compares with the counters, the promise with the pods.

For `NodesReturnInTime` the invariant is that `down` is at most `beat` (`Counted`): in a check either
the counter wraps and every failed node recovers, or it grows by one as `down` does at most.

`ServerProofs` strengthens `TypeOK`, `OneLoop`, `RosterExact` and `NewestKept` with what is true while a
broadcast is suspended: the socket of the present send has connected and the sockets in `dead` are
lost (`SendsOK`), nothing that was heard is of the future and whoever is behind the iterator's position
has heard only older messages (`HeardOK`), and the open clients up to that position have the message
unless the list has shifted (`ServedOK`). `SendsOK` is why a broadcast never takes an open connection
off the list. `OneLoop` keeps a second broadcast from coming in between, `RosterExact` keeps a client
from being met twice, and a connection made during the broadcast is appended behind the position. The
order of stamps is by cluster and then by tick, and time only goes forward (`TimeStep`), so the first
message of a new loop is later than all that was heard.

Only model-checked: liveness (`FailedNodesReturn`, `WaitingPodsAreTried`, `TasksMoveOn`), which is out
of the prover's reach. Every other property of a passing run is a theorem above. The library's
induction theorems take an operator as a parameter, which the installed provers cannot instantiate;
where a proof needs induction over data it goes by a least counterexample instead, in a set of natural
numbers written out for the case.

## Plan

Done: all modules above and their theorems. Left, in this order:

1. What of `PodPlacement` survives when clients delete pods repeatedly: its safety without the promise
   that a placed pod fits, as a second, weaker abstract specification.
2. The composition of `Server` with `ClusterManager`'s operations, if a property is found that needs
   both; each of the properties above needs only one of them.

## Not modelled

The dashboard renders snapshots and calls the API; `main.py` and `benchmarks.py` are scripts that call
operations in a fixed order, print and measure. Their calls are behaviours of `ClusterManager`. Which
event is logged when, restart counts, the scheduler's result history, the allocation logs, heartbeats,
conditions, names and wall-clock time feed snapshots only; no decision reads them. The order between a
broadcast and the direct answer to a request is not stated as a property, because neither code nor
documents promise one. `recent(0)` returns the whole list, and a negative count drops the oldest
entries, which `LastOf` models and an assumption of `MCServer` compares with Python's slices; whether
that is wanted is not said anywhere.
