--------------------------- MODULE RefinementProofs ---------------------------
(***************************************************************************)
(* ClusterManager implements PodPlacement, for any number of nodes and     *)
(* pods and any capacities and requests, if clients delete a pod once.     *)
(***************************************************************************)
EXTENDS PlacementRefinement, ClusterManagerProofs


LEMMA SameData ==
    Promised!Resource = Resource /\ Promised!Amount = Amount /\ Promised!Nothing = Nothing
BY DEF Promised!Resource, Promised!Amount, Promised!Nothing, Resource, Amount, Nothing

LEMMA SameCardinality == \A S : Promised!Cardinality(S) = Cardinality(S)
BY DEF Promised!Cardinality, Cardinality

\* A pod is placed on the node whose pod_ids it is in.
LEMMA PlaceIsPodIds ==
    ASSUME Consistent, NEW p \in PodId
    PROVE  /\ PlaceOf(p) \in NodeId \cup {NoNode}
           /\ \A n \in NodeId : PlaceOf(p) = n <=> p \in podIds[n]
<1>1. \A n \in NodeId : p \in podIds[n] <=> n \in Nodes /\ podNode[p] = n /\ Holds(p)
    BY DEF Consistent, PlacementAgrees
<1>2. NoNode \notin NodeId /\ Nodes \subseteq NodeId
    BY DEF NoNode, NodeId, Nodes
<1> QED
    BY <1>1, <1>2 DEF PlaceOf

\* The same after a step.
LEMMA PlaceIsPodIdsNext ==
    ASSUME Consistent', NEW p \in PodId
    PROVE  /\ PlaceOf(p)' \in NodeId \cup {NoNode}
           /\ \A n \in NodeId : PlaceOf(p)' = n <=> p \in podIds'[n]
<1>1. \A n \in NodeId : p \in podIds'[n] <=> n \in Nodes' /\ podNode'[p] = n /\ Holds(p)'
    BY DEF Consistent, PlacementAgrees
<1>2. NoNode \notin NodeId /\ Nodes' \subseteq NodeId
    BY DEF NoNode, NodeId, Nodes
<1> QED
    BY <1>1, <1>2 DEF PlaceOf

LEMMA OnIsPodIds ==
    ASSUME Consistent, NEW n \in NodeId
    PROVE  Promised!On(n) = podIds[n] /\ podIds[n] \in SUBSET PodId
BY PlaceIsPodIds, PodIdsListed DEF Promised!On

\* Placed pods exist and do not wait.
LEMMA PlacedPods ==
    ASSUME Consistent
    PROVE  /\ Promised!Placed \subseteq Pods
           /\ \A n \in NodeId : podIds[n] \subseteq Promised!Placed
           /\ NoNode \notin NodeId
<1>1. NoNode \notin NodeId
    BY DEF NoNode, NodeId
<1>2. \A p \in PodId : PlaceOf(p) # NoNode => p \in Pods
    BY DEF PlaceOf, Holds, Consistent, TypeOK, PodsOK
<1>3. ASSUME NEW n \in NodeId, NEW p \in podIds[n]
      PROVE  p \in Promised!Placed
    BY <1>1, PlaceIsPodIds, PodIdsListed DEF Promised!Placed
<1> QED
    BY <1>1, <1>2, <1>3 DEF Promised!Placed

\* Pods that are in the same pod_ids as before are placed as before.
LEMMA SamePlace ==
    ASSUME Consistent, Consistent', NEW p \in PodId,
           \A n \in NodeId : p \in podIds'[n] <=> p \in podIds[n]
    PROVE  PlaceOf(p)' = PlaceOf(p)
<1>1. NoNode \notin NodeId
    BY DEF NoNode, NodeId
<1> QED
    BY <1>1, PlaceIsPodIds, PlaceIsPodIdsNext

\* What eviction does to the pods that wait.
LEMMA EvictionWaits ==
    ASSUME TypeOK, QueueDiscipline, NEW evicted \in SUBSET {p \in Pods : Running(p)},
           EvictAll(evicted), still' = still
    PROVE  WaitingPods' = WaitingPods \cup evicted
<1>0. evicted \in SUBSET PodId
    BY WaitingType
<1> PICK order \in EvictionOrders(evicted) : queue' = queue \o order
    BY DEF EvictAll
<1>1. order \in Seq(PodId) /\ Range(order) = evicted /\ IsInjective(order)
    BY <1>0, EvictionOrderType, EvictionOrderRange, SeqMonotonic DEF TypeOK
<1>2. WaitingPods \cap evicted = {}
    BY DEF QueueDiscipline, OnlyUnplacedWait, Running
<1> QED
    BY <1>1, <1>2, WaitingType, Enqueue DEF Waiting, WaitingPods, QueueDiscipline, WaitsOnce

-----------------------------------------------------------------------------
(* Steps that PodPlacement does not see *)

LEMMA UnseenStep ==
    ASSUME Consistent, Consistent', UNCHANGED <<podSpec, capacity, podIds, WaitingPods>>
    PROVE  UNCHANGED Promised!placementVars
<1>1. \A p \in PodId : PlaceOf(p)' = PlaceOf(p)
    BY SamePlace
<1>2. \A p \in PodId : Request(p)' = Request(p)
    BY DEF Request
<1> QED
    BY <1>1, <1>2 DEF Promised!placementVars

LEMMA UnseenSteps ==
    ASSUME Consistent, Consistent',
           \/ \E n \in Nodes : Cordon(n) \/ Uncordon(n)
           \/ \E name \in UsedStrategies : SetStrategy(name)
           \/ CrashNodes \/ RunPods \/ FinishTick \/ UNCHANGED vars
           \/ ScheduleOne /\ Defer(Head(queue))
    PROVE  UNCHANGED Promised!placementVars
<1>1. UNCHANGED <<podSpec, capacity, podIds>>
    BY DEF Cordon, Uncordon, SetNodeStatus, SetStrategy, CrashNodes, RunPods, FinishTick, vars,
           Defer, nodeVars, podVars
<1>2. UNCHANGED Waiting
    <2>1. CASE ScheduleOne /\ Defer(Head(queue))
        BY <2>1, WaitingType, PassHead DEF ScheduleOne, Defer, Keep, Waiting, Consistent
    <2>2. CASE FinishTick
        <3>1. queue = <<>> /\ queue' = still /\ still' = <<>>
            BY <2>2 DEF FinishTick
        <3> QED
            BY <3>1, WaitingType, ConcatEmptySeq DEF Waiting, Consistent
    <2>3. CASE UNCHANGED <<queue, still>>
        BY <2>3 DEF Waiting
    <2> QED
        BY <2>1, <2>2, <2>3 DEF Cordon, Uncordon, SetNodeStatus, SetStrategy, CrashNodes, RunPods,
                                vars, schedulerVars
<1> QED
    BY <1>1, <1>2, UnseenStep DEF WaitingPods

-----------------------------------------------------------------------------
(* Steps that it sees *)

LEMMA DeployBatchSubmits ==
    ASSUME Consistent, Consistent', NEW count \in 1 .. MaxPods, NEW spec \in PodSpecs,
           DeployBatch(count, spec)
    PROVE  Promised!PlacementNext
<1> DEFINE created == podCount + 1 .. podCount + count
           added == [i \in 1 .. count |-> podCount + i]
<1>0. /\ MaxPods \in Nat /\ podCount \in Nat /\ count \in Nat /\ podCount + count <= MaxPods
      /\ TypeOK /\ QueueDiscipline
    BY Assumptions
    DEF Assumptions, BoundsAssumption, Consistent, TypeOK, PodsOK, DeployBatch
<1>1. created \in SUBSET PodId /\ Pods \cap created = {}
    BY <1>0 DEF PodId, Pods
<1>2. added \in Seq(PodId) /\ Range(added) = created /\ IsInjective(added)
    <2>1. \A i \in 1 .. count : podCount + i \in PodId
        BY <1>0 DEF PodId
    <2>2. \A p \in created : p - podCount \in 1 .. count /\ added[p - podCount] = p
        BY <1>0
    <2>3. \A i \in 1 .. count : added[i] \in created
        BY <1>0
    <2>4. added \in Seq(PodId)
        BY <1>0, <2>1, IsASeq
    <2>5. Range(added) = created
        BY <2>2, <2>3 DEF Range
    <2>6. IsInjective(added)
        BY <1>0 DEF IsInjective
    <2> QED
        BY <2>4, <2>5, <2>6
<1>3. queue' = queue \o added /\ still' = still
    BY DEF DeployBatch
<1>4. /\ podIds' = podIds /\ capacity' = capacity
      /\ \A p \in PodId \ created : podSpec'[p] = podSpec[p]
    BY DEF DeployBatch, nodeVars
<1> HIDE DEF created, added
<1>5. WaitingPods' = WaitingPods \cup created
    BY <1>0, <1>1, <1>2, <1>3, WaitingType, Enqueue
    DEF Waiting, WaitingPods, QueueDiscipline, WaitsOnce
<1>6. \A p \in PodId : PlaceOf(p)' = PlaceOf(p)
    BY <1>4, SamePlace
<1>7. \A p \in PodId \ created : Request(p)' = Request(p)
    BY <1>4 DEF Request
<1>8. [p \in PodId |-> Request(p)]' \in [PodId -> Promised!Amount]
    BY SameData, RequestType DEF Request, Consistent, TypeOK, PodsOK
<1>9. created \cap (WaitingPods \cup Promised!Placed) = {}
    BY <1>0, <1>1, PlacedPods, WaitingType
<1>10. Promised!Submit(created)
    BY <1>1, <1>4, <1>5, <1>6, <1>7, <1>8, <1>9 DEF Promised!Submit
<1> QED
    BY <1>1, <1>10 DEF Promised!PlacementNext

LEMMA DeletePodLeaves ==
    ASSUME Consistent, Consistent', NEW p \in Pods, DeletePod(p)
    PROVE  Promised!PlacementNext
<1>1. p \in PodId
    BY WaitingType DEF Consistent
<1>2. UNCHANGED <<podSpec, capacity, WaitingPods>>
    BY DEF DeletePod, schedulerVars, WaitingPods, Waiting
<1>3. \A n \in NodeId : podIds'[n] = podIds[n] \ {p}
    <2>1. \A n \in NodeId : p \in podIds[n] => n \in ReleasedBy(p)
        BY <1>1 DEF Consistent, PlacementAgrees, ReleasedBy
    <2> QED
        BY <2>1 DEF DeletePod
<1>4. \A q \in PodId : q # p => PlaceOf(q)' = PlaceOf(q)
    BY <1>3, SamePlace
<1>5. PlaceOf(p)' = NoNode
    BY <1>1, <1>3, PlaceIsPodIdsNext
<1>6. \A q \in PodId : Request(q)' = Request(q)
    BY <1>2 DEF Request
<1>7. Promised!Leave(p)
    BY <1>1, <1>2, <1>4, <1>5, <1>6 DEF Promised!Leave
<1> QED
    BY <1>1, <1>7 DEF Promised!PlacementNext

LEMMA AddNodeOpens ==
    ASSUME Consistent, Consistent', NEW total \in NewCapacities, AddNode(total)
    PROVE  Promised!PlacementNext
<1> DEFINE n == nodeCount + 1
<1>1. /\ n \in NodeId /\ capacity' = [capacity EXCEPT ![n] = total]
      /\ UNCHANGED <<podSpec, podIds, WaitingPods>>
    BY DEF AddNode, podVars, schedulerVars, WaitingPods, Waiting
<1>2. n \notin Nodes
    BY <1>1 DEF Nodes, Consistent, TypeOK, NodesOK
<1> HIDE DEF n
<1>3. Promised!On(n) = {}
    BY <1>1, <1>2, OnIsPodIds, PodIdsListed
<1>4. capacity' \in [NodeId -> Promised!Amount]
    BY SameData DEF Consistent, TypeOK, NodesOK
<1>5. \A m \in NodeId \ {n} : capacity'[m] = capacity[m]
    BY <1>1 DEF Consistent, TypeOK, NodesOK
<1>6. \A p \in PodId : PlaceOf(p)' = PlaceOf(p) /\ Request(p)' = Request(p)
    BY <1>1, SamePlace DEF Request
<1>7. Promised!Open(n)
    BY <1>1, <1>3, <1>4, <1>5, <1>6 DEF Promised!Open
<1> QED
    BY <1>1, <1>7 DEF Promised!PlacementNext

LEMMA RemoveNodeCloses ==
    ASSUME Consistent, Consistent', NEW n \in Nodes, RemoveNode(n)
    PROVE  Promised!PlacementNext
<1> DEFINE evicted == Affected({n})
<1>0. n \in NodeId /\ TypeOK /\ QueueDiscipline
    BY DEF Nodes, Consistent
<1>1. evicted \in SUBSET {p \in Pods : Running(p)} /\ evicted \in SUBSET PodId
    BY <1>0, WaitingType DEF Affected
<1>2. WaitingPods' = WaitingPods \cup evicted
    BY <1>0, <1>1, EvictionWaits DEF RemoveNode
<1>3. /\ podSpec' = podSpec /\ capacity' = [capacity EXCEPT ![n] = Promised!Nothing]
      /\ \A m \in NodeId : podIds'[m] = IF m = n THEN {} ELSE podIds[m]
    BY <1>0, SameData DEF RemoveNode, EvictAll, TypeOK, NodesOK
<1>4. evicted \subseteq podIds[n]
    BY <1>0, <1>1 DEF Affected, Consistent, PlacementAgrees, Holds, Running
<1> HIDE DEF evicted
<1>5. Promised!On(n) = podIds[n]
    BY <1>0, OnIsPodIds
<1>6. ASSUME NEW p \in PodId, p \in podIds[n]
      PROVE  PlaceOf(p)' = NoNode
    <2>1. \A m \in NodeId : p \in podIds[m] => m = n
        BY <1>0, <1>6 DEF Consistent, PlacementAgrees
    <2> QED
        BY <1>3, <2>1, PlaceIsPodIdsNext
<1>7. \A p \in PodId : p \notin podIds[n] => PlaceOf(p)' = PlaceOf(p)
    BY <1>3, SamePlace
<1>8. \A p \in PodId : Request(p)' = Request(p)
    BY <1>3 DEF Request
<1>9. Promised!Close(n, evicted)
    BY <1>2, <1>3, <1>4, <1>5, <1>6, <1>7, <1>8 DEF Promised!Close
<1> QED
    BY <1>0, <1>1, <1>9 DEF Promised!PlacementNext

LEMMA HealthCheckEvicts ==
    ASSUME Consistent, Consistent', HealthCheck
    PROVE  Promised!PlacementNext
<1> DEFINE evicted == Affected({n \in NodeId : nodeStatus[n] = "Failed"})
<1>0. TypeOK /\ QueueDiscipline
    BY DEF Consistent
<1>1. evicted \in SUBSET {p \in Pods : Running(p)} /\ evicted \in SUBSET PodId
    BY <1>0, WaitingType DEF Affected
<1>2. WaitingPods' = WaitingPods \cup evicted
    BY <1>0, <1>1, EvictionWaits DEF HealthCheck
<1>3. /\ podSpec' = podSpec /\ capacity' = capacity
      /\ \A m \in NodeId : podIds'[m] = podIds[m] \ evicted
    BY DEF HealthCheck, EvictAll
<1>4. evicted \subseteq Promised!Placed
    <2>1. ASSUME NEW p \in evicted
          PROVE  \E n \in NodeId : p \in podIds[n]
        <3>1. Running(p) /\ podNode[p] \in NodeId /\ p \in PodId
            BY <1>1, <2>1 DEF Affected
        <3>2. podNode[p] \in Nodes
            BY <3>1 DEF Consistent, PlacementAgrees
        <3> QED
            BY <3>1, <3>2 DEF Consistent, PlacementAgrees, Holds, Running
    <2> QED
        BY <2>1, PlacedPods
<1> HIDE DEF evicted
<1>5. \A p \in PodId : p \in evicted => PlaceOf(p)' = NoNode
    BY <1>3, PlaceIsPodIdsNext
<1>6. \A p \in PodId : p \notin evicted => PlaceOf(p)' = PlaceOf(p)
    BY <1>3, SamePlace
<1>7. \A p \in PodId : Request(p)' = Request(p)
    BY <1>3 DEF Request
<1>8. Promised!Evict(evicted)
    BY <1>2, <1>3, <1>4, <1>5, <1>6, <1>7 DEF Promised!Evict
<1> QED
    BY <1>1, <1>8 DEF Promised!PlacementNext

\* A pod is bound only where it fits beside the pods that are there: the pool counts them all.
LEMMA BindPlaces ==
    ASSUME Consistent, Consistent', ExactLedger, ScheduleOne, NEW p, p = Head(queue),
           NEW n \in SelectNode(strategy, Eligible(p), capacity, allocated, Request(p), rrIndex),
           Bind(p, n)
    PROVE  Promised!PlacementNext
<1>0. queue # <<>> /\ queue' = Tail(queue) /\ TypeOK /\ QueueDiscipline
    BY DEF ScheduleOne, Consistent
<1>1. p \in PodId /\ n \in NodeId /\ p \notin podIds[n] /\ CanFit(n, Request(p))
      /\ \A m \in NodeId : p \notin podIds[m]
    BY <1>0, BoundPod DEF Consistent
<1>2. WaitingPods' = WaitingPods \ {p} /\ p \in WaitingPods
    <2>1. WaitingPods' = WaitingPods \ {p}
        BY <1>0, WaitingType, DropHead DEF Bind, Waiting, WaitingPods, QueueDiscipline, WaitsOnce
    <2>2. /\ queue \in Seq(PodId) /\ still \in Seq(PodId)
        BY <1>0, WaitingType
    <2>3. p \in Range(queue) /\ Range(Waiting) = Range(still) \cup Range(queue)
        <3>1. 1 \in DOMAIN queue /\ queue[1] = p
            BY <1>0, <2>2
        <3>2. Range(still \o queue) = Range(still) \cup Range(queue)
            BY <2>2, RangeConcatenation
        <3> QED
            BY <3>1, <3>2 DEF Waiting, Range
    <2> QED
        BY <2>1, <2>3 DEF WaitingPods
<1>3. /\ podSpec' = podSpec /\ capacity' = capacity
      /\ \A m \in NodeId : podIds'[m] = IF m = n THEN podIds[m] \cup {p} ELSE podIds[m]
    BY <1>1 DEF Bind, Consistent, TypeOK, NodesOK
<1>4. Promised!On(n) = podIds[n] /\ podIds[n] \in SUBSET PodId
    BY <1>1, OnIsPodIds
<1>5. Promised!FitTogether(podIds[n] \cup {p}, capacity[n])
    <2> DEFINE grown == podIds[n] \cup {p}
    <2>1. ASSUME NEW r \in Resource
          PROVE  /\ Promised!Units(grown, r) = UnitsOf(podSpec, grown, r)
                 /\ Cardinality(UnitsOf(podSpec, grown, r)) <= capacity[n][r]
        <3>1. \A q \in grown : [x \in PodId |-> Request(x)][q] = RequestOf(podSpec[q])
            BY <1>1, <1>4 DEF Request
        <3>2. Promised!Units(grown, r) = UnitsOf(podSpec, grown, r)
            BY <3>1 DEF Promised!Units, UnitsOf
        <3>3. Request(p) = TotalRequest(podSpec, {p}) /\ Request(p) \in Amount
            BY <1>1, TotalOfOne, RequestType DEF Request, Consistent, TypeOK, PodsOK
        <3>4. TotalRequest(podSpec, grown)[r]
                  = TotalRequest(podSpec, podIds[n])[r] + TotalRequest(podSpec, {p})[r]
            <4>1. {p} \in SUBSET PodId /\ podIds[n] \cap {p} = {}
                BY <1>1
            <4> QED
                BY <1>4, <4>1, TotalOfUnion
        <3>5. allocated[n] = TotalRequest(podSpec, podIds[n])
            BY <1>1 DEF ExactLedger, Load
        <3>6. Request(p)[r] <= capacity[n][r] - allocated[n][r]
            BY <1>1 DEF CanFit, FitsWithin, Available
        <3>7. allocated[n][r] \in Nat /\ capacity[n][r] \in Nat /\ Request(p)[r] \in Nat
            BY <1>1, <3>3 DEF Amount, Consistent, TypeOK, NodesOK
        <3>8. TotalRequest(podSpec, grown)[r] = Cardinality(UnitsOf(podSpec, grown, r))
            BY DEF TotalRequest
        <3>9. TotalRequest(podSpec, grown)[r] <= capacity[n][r]
            BY <3>3, <3>4, <3>5, <3>6, <3>7
        <3> QED
            BY <3>2, <3>8, <3>9
    <2> HIDE DEF grown
    <2>2. Promised!FitTogether(grown, capacity[n])
        BY <2>1, SameData, SameCardinality DEF Promised!FitTogether
    <2> QED
        BY <2>2 DEF grown
<1>6. PlaceOf(p)' = n
    BY <1>1, <1>3, PlaceIsPodIdsNext
<1>7. \A q \in PodId : q # p => PlaceOf(q)' = PlaceOf(q)
    BY <1>3, SamePlace
<1>8. \A q \in PodId : Request(q)' = Request(q)
    BY <1>3 DEF Request
<1>9. Promised!Place(p, n)
    BY <1>1, <1>2, <1>3, <1>4, <1>5, <1>6, <1>7, <1>8 DEF Promised!Place
<1> QED
    BY <1>1, <1>9 DEF Promised!PlacementNext

-----------------------------------------------------------------------------
(* The theorem *)

LEMMA InitRefines == Init => Promised!PlacementInit
<1> SUFFICES ASSUME Init PROVE Promised!PlacementInit
    OBVIOUS
<1>1. Consistent
    BY ConsistentInductive
<1>2. [p \in PodId |-> Request(p)] \in [PodId -> Promised!Amount]
    BY <1>1, SameData, RequestType DEF Request, Consistent, TypeOK, PodsOK
<1>3. capacity \in [NodeId -> Promised!Amount]
    BY <1>1, SameData DEF Consistent, TypeOK, NodesOK
<1>4. \A p \in PodId : PlaceOf(p) = NoNode
    BY DEF Init, PlaceOf, Holds
<1>5. WaitingPods = {}
    BY DEF Init, WaitingPods, Waiting, Range
<1> QED
    BY <1>2, <1>3, <1>4, <1>5 DEF Promised!PlacementInit

LEMMA NextRefines ==
    Consistent /\ Consistent' /\ ExactLedger /\ [Next]_vars =>
        [Promised!PlacementNext]_Promised!placementVars
<1> SUFFICES ASSUME Consistent, Consistent', ExactLedger, [Next]_vars
             PROVE  Promised!PlacementNext \/ UNCHANGED Promised!placementVars
    OBVIOUS
<1>1. ASSUME NEW count \in 1 .. MaxPods, NEW spec \in PodSpecs, DeployBatch(count, spec)
      PROVE  Promised!PlacementNext
    BY <1>1, DeployBatchSubmits
<1>2. ASSUME NEW p \in Pods, DeletePod(p) PROVE Promised!PlacementNext
    BY <1>2, DeletePodLeaves
<1>3. ASSUME NEW total \in NewCapacities, AddNode(total) PROVE Promised!PlacementNext
    BY <1>3, AddNodeOpens
<1>4. ASSUME NEW n \in Nodes, RemoveNode(n) PROVE Promised!PlacementNext
    BY <1>4, RemoveNodeCloses
<1>5. CASE HealthCheck
    BY <1>5, HealthCheckEvicts
<1>6. CASE ScheduleOne
    <2>1. CASE Defer(Head(queue))
        BY <1>6, <2>1, UnseenSteps
    <2>2. ASSUME NEW n \in SelectNode(strategy, Eligible(Head(queue)), capacity, allocated,
                                      Request(Head(queue)), rrIndex),
                 Bind(Head(queue), n)
          PROVE  Promised!PlacementNext
        <3>1. PICK p : p = Head(queue)
            OBVIOUS
        <3> QED
            BY <1>6, <2>2, <3>1, BindPlaces
    <2> QED
        BY <1>6, <2>1, <2>2 DEF ScheduleOne
<1>7. CASE \/ \E n \in Nodes : Cordon(n) \/ Uncordon(n)
           \/ \E name \in UsedStrategies : SetStrategy(name)
           \/ CrashNodes \/ RunPods \/ FinishTick \/ UNCHANGED vars
    BY <1>7, UnseenSteps
<1> QED
    BY <1>1, <1>2, <1>3, <1>4, <1>5, <1>6, <1>7 DEF Next, Operation, TickStep

\* If clients delete a pod only once, the cluster does with its pods what PodPlacement allows and
\* nothing else, whatever queue, counters, crashes and health checks do in between.
THEOREM PlacementImplemented ==
    ASSUME ~ RepeatedDeletes
    PROVE  Spec => ImplementsPodPlacement
<1> DEFINE Known == Consistent /\ NoPhantomAllocation /\ ExactLedger
<1>1. Init => Known /\ Promised!PlacementInit
    BY ConsistentInductive, InitLedger, InitRefines
<1>2. Known /\ [Next]_vars => Known'
    BY ConsistentInductive, NextLedger DEF LedgerKept
<1>3. Known /\ Known' /\ [Next]_vars => [Promised!PlacementNext]_Promised!placementVars
    BY NextRefines
<1> HIDE DEF Known
<1> QED
    BY <1>1, <1>2, <1>3, PTL DEF Spec, ImplementsPodPlacement, Promised!PlacementSpec

=============================================================================
