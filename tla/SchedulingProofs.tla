--------------------------- MODULE SchedulingProofs ---------------------------
(***************************************************************************)
(* What a tick achieves: after the health check nothing runs on a failed   *)
(* node, schedule_pending puts aside only what fits nowhere, nothing       *)
(* changes the order in which the waiting pods are tried, and the tick     *)
(* ends.  And what becomes of pods over many ticks: a deleted one comes    *)
(* back only from the queue, and containers run or stop together.          *)
(***************************************************************************)
EXTENDS ClusterManagerProofs

LEMMA NextPods ==
    ASSUME Consistent, [Next]_vars
    PROVE  Pods' \subseteq PodId
<1>1. Consistent'
    BY ConsistentInductive
<1>2. podCount' \in 0 .. MaxPods
    BY <1>1 DEF Consistent, TypeOK, PodsOK
<1> QED
    BY <1>2, Assumptions DEF Assumptions, BoundsAssumption, Pods, PodId

-----------------------------------------------------------------------------
(* Failed nodes *)

\* A step that makes no node fail, and no pod running elsewhere than before.
LEMMA FailedFrame ==
    ASSUME Consistent, NoneRunsOnFailedNode, phase \in {"schedule", "idle"},
           Pods' \subseteq PodId,
           \A n \in Nodes : nodeStatus'[n] = "Failed" => nodeStatus[n] = "Failed",
           \A p \in PodId : Running(p)' => Running(p) /\ podNode'[p] = podNode[p]
    PROVE  NoneRunsOnFailedNode'
<1> SUFFICES ASSUME NEW p \in Pods', Running(p)'
             PROVE  nodeStatus'[podNode'[p]] # "Failed"
    BY DEF NoneRunsOnFailedNode
<1>1. p \in PodId /\ Running(p) /\ podNode'[p] = podNode[p]
    OBVIOUS
<1>2. podNode[p] \in Nodes
    BY <1>1 DEF Consistent, PlacementAgrees
<1>3. p \in Pods
    BY <1>1 DEF Running, Consistent, TypeOK, PodsOK
<1> QED
    BY <1>1, <1>2, <1>3 DEF NoneRunsOnFailedNode

LEMMA HealthCheckLeavesNone ==
    ASSUME Consistent, HealthCheck, Pods' \subseteq PodId
    PROVE  NoneRunsOnFailedNode'
<1> DEFINE failed == {n \in NodeId : nodeStatus[n] = "Failed"}
<1> SUFFICES ASSUME NEW p \in Pods', Running(p)'
             PROVE  nodeStatus'[podNode'[p]] # "Failed"
    BY DEF NoneRunsOnFailedNode
<1>1. p \in PodId /\ p \in Pods
    BY DEF HealthCheck, EvictAll, Pods
<1>2. p \notin Affected(failed) /\ Running(p) /\ podNode'[p] = podNode[p]
    BY <1>1 DEF HealthCheck, EvictAll, Running
<1>3. podNode[p] \in NodeId \ failed
    BY <1>1, <1>2 DEF Affected, Consistent, PlacementAgrees, Nodes
<1>4. nodeStatus'[podNode[p]] = nodeStatus[podNode[p]]
    BY <1>3 DEF HealthCheck
<1> QED
    BY <1>2, <1>3, <1>4

LEMMA ScheduleOneLeavesNone ==
    ASSUME Consistent, NoneRunsOnFailedNode, ScheduleOne, Pods' \subseteq PodId
    PROVE  NoneRunsOnFailedNode'
<1> DEFINE p == Head(queue)
<1>0. phase = "schedule" /\ queue # <<>>
    BY DEF ScheduleOne
<1>1. CASE Defer(p)
    BY <1>0, <1>1, FailedFrame DEF Defer, nodeVars, podVars, Running
<1>2. ASSUME NEW n \in SelectNode(strategy, Eligible(p), capacity, allocated, Request(p), rrIndex),
             Bind(p, n)
      PROVE  NoneRunsOnFailedNode'
  <2>1. n \in NodeId /\ nodeStatus[n] = "Ready"
      BY <1>0, BoundPod DEF Consistent, CanFit
  <2> HIDE DEF p
  <2>2. UNCHANGED <<nodeStatus, Pods>>
      BY <1>2 DEF Bind, Pods
  <2>3. \A q \in PodId : /\ podStatus'[q] = IF q = p THEN "Running" ELSE podStatus[q]
                         /\ podNode'[q] = IF q = p THEN n ELSE podNode[q]
      BY <1>2, <2>1 DEF Bind, Consistent, TypeOK, PodsOK
  <2> QED
      BY <1>0, <2>1, <2>2, <2>3 DEF NoneRunsOnFailedNode, Running
<1> QED
    BY <1>1, <1>2 DEF ScheduleOne

LEMMA NextLeavesNone ==
    ASSUME Consistent, NoneRunsOnFailedNode, [Next]_vars
    PROVE  NoneRunsOnFailedNode'
<1>0. Pods' \subseteq PodId
    BY NextPods
<1>1. ASSUME NEW count \in 1 .. MaxPods, NEW spec \in PodSpecs, DeployBatch(count, spec)
      PROVE  NoneRunsOnFailedNode'
    BY <1>0, <1>1, FailedFrame DEF DeployBatch, nodeVars, Running
<1>2. ASSUME NEW p \in Pods, DeletePod(p) PROVE NoneRunsOnFailedNode'
    BY <1>0, <1>2, FailedFrame DEF DeletePod, Running, Consistent, TypeOK, PodsOK
<1>3. ASSUME NEW total \in NewCapacities, AddNode(total) PROVE NoneRunsOnFailedNode'
    BY <1>0, <1>3, FailedFrame DEF AddNode, podVars, Running, Nodes, Consistent, TypeOK, NodesOK
<1>4. ASSUME NEW n \in Nodes, RemoveNode(n) PROVE NoneRunsOnFailedNode'
    BY <1>0, <1>4, FailedFrame
    DEF RemoveNode, EvictAll, Running, Nodes, Consistent, TypeOK, NodesOK
<1>5. ASSUME NEW n \in Nodes, Cordon(n) \/ Uncordon(n) PROVE NoneRunsOnFailedNode'
    BY <1>0, <1>5, FailedFrame
    DEF Cordon, Uncordon, SetNodeStatus, podVars, Running, Nodes, Consistent, TypeOK, NodesOK
<1>6. ASSUME NEW name \in UsedStrategies, SetStrategy(name) PROVE NoneRunsOnFailedNode'
    BY <1>0, <1>6, FailedFrame DEF SetStrategy, nodeVars, podVars, Running
<1>7. CASE CrashNodes
    BY <1>7 DEF CrashNodes, NoneRunsOnFailedNode
<1>8. CASE RunPods
    BY <1>8 DEF RunPods, NoneRunsOnFailedNode
<1>9. CASE HealthCheck
    BY <1>0, <1>9, HealthCheckLeavesNone
<1>10. CASE ScheduleOne
    BY <1>0, <1>10, ScheduleOneLeavesNone
<1>11. CASE FinishTick
    BY <1>0, <1>11, FailedFrame DEF FinishTick, nodeVars, podVars, Running
<1>12. CASE UNCHANGED vars
  <2>1. UNCHANGED <<nodeStatus, podStatus, podNode, phase, Pods>>
      BY <1>12 DEF vars, nodeVars, podVars, Pods
  <2> QED
      BY <2>1 DEF NoneRunsOnFailedNode, Running
<1> QED
    BY <1>1, <1>2, <1>3, <1>4, <1>5, <1>6, <1>7, <1>8, <1>9, <1>10, <1>11, <1>12
    DEF Next, Operation, TickStep

\* Between the health check and the next crash no pod counts as running on a failed node, however
\* many nodes failed at once and whatever clients did in between.
THEOREM NoneRunsOnFailedNodeHolds == Spec => []NoneRunsOnFailedNode
<1>1. Init => Consistent /\ NoneRunsOnFailedNode
  <2>1. Init => NoneRunsOnFailedNode
      BY DEF Init, NoneRunsOnFailedNode, Pods
  <2> QED
      BY <2>1, ConsistentInductive
<1>2. Consistent /\ NoneRunsOnFailedNode /\ [Next]_vars => (Consistent /\ NoneRunsOnFailedNode)'
    BY ConsistentInductive, NextLeavesNone
<1> QED
    BY <1>1, <1>2, PTL DEF Spec

\* After an eviction from failed nodes no pod runs on one of them.
LEMMA EvictionEmpties ==
    ASSUME Consistent, NEW failed \in SUBSET NodeId, EvictAll(Affected(failed)),
           NEW n \in failed, NEW p \in Pods, podStatus'[p] = "Running"
    PROVE  podNode'[p] # n
<1>1. p \in PodId /\ p \notin Affected(failed)
    BY WaitingType DEF EvictAll, Consistent
<1>2. Running(p) /\ podNode'[p] = podNode[p]
    BY <1>1 DEF EvictAll, Running
<1> QED
    BY <1>1, <1>2 DEF Affected

LEMMA StepEmptiesBeforeReturn ==
    ASSUME Consistent, NoneRunsOnFailedNode, [Next]_vars,
           NEW n \in NodeId, nodeStatus[n] = "Failed", nodeStatus'[n] # "Failed",
           NEW p \in Pods, podStatus'[p] = "Running"
    PROVE  podNode'[p] # n
<1>1. ASSUME NEW count \in 1 .. MaxPods, NEW spec \in PodSpecs, DeployBatch(count, spec)
      PROVE  FALSE
    BY <1>1 DEF DeployBatch, nodeVars
<1>2. ASSUME NEW q \in Pods, DeletePod(q) PROVE FALSE
    BY <1>2 DEF DeletePod
<1>3. ASSUME NEW total \in NewCapacities, AddNode(total) PROVE FALSE
  <2>1. nodeStatus' = [nodeStatus EXCEPT ![nodeCount + 1] = "Ready"] /\ n # nodeCount + 1
      BY <1>3 DEF AddNode, Consistent, TypeOK, NodesOK
  <2> QED
      BY <2>1 DEF Consistent, TypeOK, NodesOK
<1>4. ASSUME NEW m \in Nodes, RemoveNode(m) PROVE podNode'[p] # n
  <2>1. n = m
      BY <1>4 DEF RemoveNode, Consistent, TypeOK, NodesOK
  <2> QED
      BY <1>4, <2>1, EvictionEmpties DEF RemoveNode
<1>5. ASSUME NEW m \in Nodes, Cordon(m) \/ Uncordon(m) PROVE podNode'[p] # n
  <2>1. phase = "idle" /\ UNCHANGED <<podStatus, podNode>>
      BY <1>5 DEF Cordon, Uncordon, SetNodeStatus, podVars
  <2> QED
      BY <2>1 DEF NoneRunsOnFailedNode, Running
<1>6. ASSUME NEW name \in UsedStrategies, SetStrategy(name) PROVE FALSE
    BY <1>6 DEF SetStrategy, nodeVars
<1>7. CASE CrashNodes
    BY <1>7 DEF CrashNodes
<1>8. CASE RunPods
    BY <1>8 DEF RunPods, nodeVars
<1>9. CASE HealthCheck
  <2> DEFINE failed == {m \in NodeId : nodeStatus[m] = "Failed"}
  <2>1. EvictAll(Affected(failed)) /\ n \in failed
      BY <1>9 DEF HealthCheck
  <2> QED
      BY <2>1, EvictionEmpties
<1>10. CASE ScheduleOne
    BY <1>10 DEF ScheduleOne, Defer, Bind, nodeVars
<1>11. CASE FinishTick \/ UNCHANGED vars
    BY <1>11 DEF FinishTick, vars, nodeVars
<1> QED
    BY <1>1, <1>2, <1>3, <1>4, <1>5, <1>6, <1>7, <1>8, <1>9, <1>10, <1>11
    DEF Next, Operation, TickStep

\* However and whenever a node stops being failed (recovered, perhaps by the check that found it
\* so, uncordoned, cordoned or removed), no pod runs on it after that step: for any number of
\* nodes, pods and checks between a crash and the recovery.
THEOREM EmptiedBeforeReturnHolds == Spec => EmptiedBeforeReturn
<1>1. Consistent /\ NoneRunsOnFailedNode /\ [Next]_vars =>
          \A n \in NodeId :
              nodeStatus[n] = "Failed" /\ nodeStatus'[n] # "Failed" =>
                  \A p \in Pods : podStatus'[p] = "Running" => podNode'[p] # n
    BY StepEmptiesBeforeReturn
<1> QED
    BY <1>1, ConsistentInductive, NoneRunsOnFailedNodeHolds, PTL DEF Spec, EmptiedBeforeReturn

-----------------------------------------------------------------------------
(* What is put aside *)

\* No node has room for p.
FitsNowhere(p) ==
    \A n \in NodeId : nodeStatus[n] = "Ready" =>
        \E r \in Resource : allocated[n][r] + Request(p)[r] > capacity[n][r]

LEMMA PutAside == WorkConserving <=> \A i \in DOMAIN still : FitsNowhere(still[i])
BY DEF WorkConserving, FitsNowhere

LEMMA PutAsideNext ==
    ASSUME \A i \in DOMAIN still' : \E q \in PodId : still'[i] = q /\ FitsNowhere(q)'
    PROVE  WorkConserving'
<1> SUFFICES ASSUME NEW i \in DOMAIN still', NEW n \in NodeId, nodeStatus'[n] = "Ready"
             PROVE  \E r \in Resource : allocated'[n][r] + (Request(still[i])')[r] > capacity'[n][r]
    BY DEF WorkConserving
<1> PICK q \in PodId : still'[i] = q /\ FitsNowhere(q)'
    OBVIOUS
<1>1. \E r \in Resource : allocated'[n][r] + RequestOf(podSpec'[q])[r] > capacity'[n][r]
    BY DEF FitsNowhere, Request
<1> QED
    BY <1>1 DEF Request

\* A pod without an eligible node fits nowhere.
LEMMA NotEligible ==
    ASSUME Consistent, NEW p \in PodId, Eligible(p) = {}
    PROVE  FitsNowhere(p)
<1> SUFFICES ASSUME NEW n \in NodeId, nodeStatus[n] = "Ready"
             PROVE  \E r \in Resource : allocated[n][r] + Request(p)[r] > capacity[n][r]
    BY DEF FitsNowhere
<1>1. PICK r \in Resource : ~ (Request(p)[r] <= capacity[n][r] - allocated[n][r])
    BY DEF Eligible, CanFit, FitsWithin, Available
<1>2. Request(p)[r] \in Nat /\ capacity[n][r] \in Nat /\ allocated[n][r] \in Nat
    BY RequestType DEF Request, Consistent, TypeOK, NodesOK, PodsOK, Amount
<1> QED
    BY <1>1, <1>2

\* Placing another pod makes no room.
LEMMA StillFitsNowhere ==
    ASSUME Consistent, NEW p \in PodId, FitsNowhere(p), NEW q \in PodId, NEW m \in NodeId, Bind(q, m)
    PROVE  FitsNowhere(p)'
<1>1. /\ UNCHANGED <<nodeStatus, capacity, podSpec>>
      /\ allocated' = [allocated EXCEPT ![m] = Allocate(@, Request(q))]
    BY DEF Bind
<1>2. /\ allocated \in [NodeId -> Amount] /\ capacity \in [NodeId -> Amount]
      /\ Request(p) \in Amount /\ Request(q) \in Amount
    BY RequestType DEF Request, Consistent, TypeOK, NodesOK, PodsOK
<1>3. Request(p)' = Request(p)
    BY <1>1 DEF Request
<1> SUFFICES ASSUME NEW n \in NodeId, nodeStatus[n] = "Ready"
             PROVE  \E r \in Resource : allocated'[n][r] + Request(p)[r] > capacity[n][r]
    BY <1>1, <1>3 DEF FitsNowhere
<1>4. PICK r \in Resource : allocated[n][r] + Request(p)[r] > capacity[n][r]
    BY DEF FitsNowhere
<1>5. /\ allocated[n][r] \in Nat /\ capacity[n][r] \in Nat
      /\ Request(p)[r] \in Nat /\ Request(q)[r] \in Nat
    BY <1>2 DEF Amount
<1>6. allocated'[n][r] = IF n = m THEN allocated[n][r] + Request(q)[r] ELSE allocated[n][r]
    BY <1>1, <1>2 DEF Allocate
<1> QED
    BY <1>4, <1>5, <1>6

LEMMA ScheduleOneConserves ==
    ASSUME Consistent, WorkConserving, ScheduleOne
    PROVE  WorkConserving'
<1> DEFINE p == Head(queue)
<1>0. p \in PodId /\ still \in Seq(PodId)
    BY WaitingType, HeadTailProperties DEF ScheduleOne, Consistent
<1>1. CASE Defer(p)
  <2>1. still' = Append(still, p)
      BY <1>1 DEF Defer, Keep
  <2>2. \A q \in PodId : FitsNowhere(q) => FitsNowhere(q)'
      BY <1>1 DEF Defer, nodeVars, podVars, FitsNowhere, Request
  <2>3. FitsNowhere(p)
      BY <1>0, <1>1, NotEligible DEF Defer
  <2> HIDE DEF p
  <2>4. ASSUME NEW i \in DOMAIN still'
        PROVE  still'[i] \in PodId /\ FitsNowhere(still'[i])
      BY <1>0, <2>1, <2>3, PutAside, AppendProperties
  <2> QED
      BY <2>2, <2>4, PutAsideNext
<1>2. ASSUME NEW m \in SelectNode(strategy, Eligible(p), capacity, allocated, Request(p), rrIndex),
             Bind(p, m)
      PROVE  WorkConserving'
  <2>1. m \in NodeId
      BY SelectNodeEligible DEF Eligible
  <2>2. still' = still
      BY <1>2 DEF Bind
  <2>3. \A i \in DOMAIN still : still[i] \in PodId /\ FitsNowhere(still[i])
      BY <1>0, PutAside
  <2>4. \A q \in PodId : FitsNowhere(q) => FitsNowhere(q)'
      BY <1>0, <1>2, <2>1, StillFitsNowhere
  <2> QED
      BY <2>2, <2>3, <2>4, PutAsideNext
<1> QED
    BY <1>1, <1>2 DEF ScheduleOne

LEMMA NextConserves ==
    ASSUME Consistent, WorkConserving, [Next]_vars
    PROVE  WorkConserving'
<1>0. TypeOK'
    BY ConsistentInductive DEF Consistent
<1>1. CASE ScheduleOne
    BY <1>1, ScheduleOneConserves
<1>2. CASE HealthCheck
    BY <1>2 DEF HealthCheck, WorkConserving, Consistent, TypeOK, SchedulerOK
<1>3. CASE UNCHANGED vars
    BY <1>3 DEF vars, nodeVars, podVars, schedulerVars, WorkConserving, Request
<1>4. CASE phase' # "schedule"
    BY <1>0, <1>4 DEF TypeOK, SchedulerOK, WorkConserving
<1>5. CASE Operation \/ CrashNodes \/ RunPods \/ FinishTick
  <2>1. phase' # "schedule"
      BY <1>5 DEF Operation, DeployBatch, DeletePod, AddNode, RemoveNode, Cordon, Uncordon,
                  SetNodeStatus, SetStrategy, CrashNodes, RunPods, FinishTick
  <2> QED
      BY <1>4, <2>1
<1> QED
    BY <1>1, <1>2, <1>3, <1>5 DEF Next, TickStep

\* A pod that schedule_pending puts aside fits on no ready node, and still fits on none when the
\* queue is drained: the pods bound after it only took room away.
THEOREM WorkConservingHolds == Spec => []WorkConserving
<1>1. Init => Consistent /\ WorkConserving
  <2>1. Init => WorkConserving
      BY DEF Init, WorkConserving
  <2> QED
      BY <2>1, ConsistentInductive
<1>2. Consistent /\ WorkConserving /\ [Next]_vars => (Consistent /\ WorkConserving)'
    BY ConsistentInductive, NextConserves
<1> QED
    BY <1>1, <1>2, PTL DEF Spec

-----------------------------------------------------------------------------
(* The order of the queue *)

\* a comes before b in w.
Before(w, a, b) == \E i, j \in DOMAIN w : i < j /\ w[i] = a /\ w[j] = b

LEMMA EnqueueKeepsOrder ==
    ASSUME NEW S, NEW s \in Seq(S), NEW t \in Seq(S), NEW added \in Seq(S), NEW a, NEW b,
           Before(s \o t, a, b)
    PROVE  Before(s \o (t \o added), a, b)
<1> DEFINE w == s \o t
<1>1. w \in Seq(S)
    BY ConcatProperties
<1>2. s \o (t \o added) = w \o added
    BY ConcatAssociative, SMTT(60)
<1> PICK i \in DOMAIN w, j \in DOMAIN w : i < j /\ w[i] = a /\ w[j] = b
    BY DEF Before
<1> HIDE DEF w
<1>3. Before(w \o added, a, b)
  <2>1. i \in DOMAIN (w \o added) /\ j \in DOMAIN (w \o added)
      BY <1>1, ConcatProperties, LenProperties
  <2>2. (w \o added)[i] = w[i] /\ (w \o added)[j] = w[j]
      BY <1>1, ConcatProperties, LenProperties
  <2> QED
      BY <2>1, <2>2 DEF Before
<1> QED
    BY <1>2, <1>3, Zenon

\* Taking one element out leaves the others in their order.
LEMMA DropKeepsOrder ==
    ASSUME NEW S, NEW s \in Seq(S), NEW t \in Seq(S), t # <<>>, NEW a, NEW b,
           a # Head(t), b # Head(t), Before(s \o t, a, b)
    PROVE  Before(s \o Tail(t), a, b)
<1>1. /\ Tail(t) \in Seq(S) /\ Len(Tail(t)) = Len(t) - 1
      /\ \A i \in 1 .. Len(Tail(t)) : Tail(t)[i] = t[i + 1]
    BY HeadTailProperties
<1>2. Len(s) \in Nat /\ Len(t) \in Nat \ {0}
    BY LenProperties, EmptySeq
<1> DEFINE u == s \o t
           v == s \o Tail(t)
           rank(k) == IF k <= Len(s) THEN k ELSE k - 1
<1>3. /\ DOMAIN u = 1 .. Len(s) + Len(t)
      /\ \A i \in 1 .. Len(s) + Len(t) : u[i] = IF i <= Len(s) THEN s[i] ELSE t[i - Len(s)]
    BY ConcatProperties, LenProperties
<1>4. /\ DOMAIN v = 1 .. Len(s) + Len(t) - 1
      /\ \A i \in 1 .. Len(s) + Len(t) - 1 :
             v[i] = IF i <= Len(s) THEN s[i] ELSE Tail(t)[i - Len(s)]
    BY <1>1, <1>2, ConcatProperties, LenProperties
<1>5. u[Len(s) + 1] = Head(t)
    BY <1>2, <1>3
<1> HIDE DEF u, v
<1>6. ASSUME NEW k \in 1 .. Len(s) + Len(t), k # Len(s) + 1
      PROVE  rank(k) \in DOMAIN v /\ v[rank(k)] = u[k]
  <2>1. CASE k <= Len(s)
    <3>1. rank(k) = k /\ k \in 1 .. Len(s) + Len(t) - 1
        BY <1>2, <2>1
    <3>2. v[k] = s[k] /\ u[k] = s[k]
        BY <1>3, <1>4, <2>1, <3>1
    <3> QED
        BY <1>4, <3>1, <3>2
  <2>2. CASE k > Len(s)
    <3>1. /\ rank(k) = k - 1 /\ k - 1 \in 1 .. Len(s) + Len(t) - 1
          /\ ~ (k - 1 <= Len(s)) /\ ~ (k <= Len(s))
        BY <1>2, <1>6, <2>2
    <3>2. /\ (k - 1) - Len(s) \in 1 .. Len(Tail(t))
          /\ ((k - 1) - Len(s)) + 1 = k - Len(s)
        BY <1>1, <1>2, <1>6, <2>2
    <3>3. v[k - 1] = Tail(t)[(k - 1) - Len(s)]
        BY <1>4, <3>1
    <3>4. Tail(t)[(k - 1) - Len(s)] = t[k - Len(s)]
        BY <1>1, <3>2
    <3>5. u[k] = t[k - Len(s)]
        BY <1>3, <3>1
    <3> QED
        BY <1>4, <3>1, <3>3, <3>4, <3>5
  <2> QED
      BY <1>2, <2>1, <2>2
<1> PICK i \in DOMAIN u, j \in DOMAIN u : i < j /\ u[i] = a /\ u[j] = b
    BY DEF Before, u
<1>7. i # Len(s) + 1 /\ j # Len(s) + 1
    BY <1>5
<1>8. rank(i) < rank(j)
    BY <1>2, <1>3, <1>7
<1>9. Before(v, a, b)
  <2>1. /\ rank(i) \in DOMAIN v /\ v[rank(i)] = a
        /\ rank(j) \in DOMAIN v /\ v[rank(j)] = b
      BY <1>3, <1>6, <1>7
  <2> QED
      BY <1>8, <2>1 DEF Before
<1> QED
    BY <1>9 DEF v

LEMMA StepKeepsOrder ==
    ASSUME Consistent, [Next]_vars, NEW p \in PodId, NEW q \in PodId,
           Before(Waiting, p, q), {p, q} \subseteq WaitingPods'
    PROVE  Before(Waiting', p, q)
<1>0. still \in Seq(PodId) /\ queue \in Seq(PodId)
    BY WaitingType DEF Consistent
<1>1. ASSUME still' = still, NEW added \in Seq(PodId), queue' = queue \o added
      PROVE  Before(Waiting', p, q)
    BY <1>0, <1>1, EnqueueKeepsOrder DEF Waiting
<1>2. ASSUME NEW evicted \in SUBSET PodId, EvictAll(evicted), still' = still
      PROVE  Before(Waiting', p, q)
  <2> PICK order \in EvictionOrders(evicted) : queue' = queue \o order
      BY <1>2 DEF EvictAll
  <2>1. order \in Seq(PodId)
      BY EvictionOrderType, SeqMonotonic
  <2> QED
      BY <1>1, <1>2, <2>1
<1>3. CASE UNCHANGED <<queue, still>>
    BY <1>3 DEF Waiting
<1>4. ASSUME NEW count \in 1 .. MaxPods, NEW spec \in PodSpecs, DeployBatch(count, spec)
      PROVE  Before(Waiting', p, q)
  <2>1. podCount \in Nat /\ count \in Nat /\ MaxPods \in Nat /\ podCount + count <= MaxPods
      BY <1>4, Assumptions
      DEF Assumptions, BoundsAssumption, Consistent, TypeOK, PodsOK, DeployBatch
  <2>2. \A i \in 1 .. count : podCount + i \in PodId
      BY <2>1 DEF PodId
  <2>3. [i \in 1 .. count |-> podCount + i] \in Seq(PodId)
      BY <2>1, <2>2, IsASeq
  <2> QED
      BY <1>1, <1>4, <2>3 DEF DeployBatch
<1>5. ASSUME NEW n \in Nodes, RemoveNode(n) PROVE Before(Waiting', p, q)
  <2>1. Affected({n}) \in SUBSET PodId
      BY WaitingType DEF Affected, Consistent
  <2> QED
      BY <1>2, <1>5, <2>1 DEF RemoveNode
<1>6. CASE HealthCheck
  <2>1. \A failed : Affected(failed) \in SUBSET PodId
      BY WaitingType DEF Affected, Consistent
  <2> QED
      BY <1>2, <1>6, <2>1 DEF HealthCheck
<1>7. CASE ScheduleOne
  <2> DEFINE h == Head(queue)
  <2>0. queue # <<>> /\ queue' = Tail(queue)
      BY <1>7 DEF ScheduleOne
  <2>1. CASE Defer(h)
    <3>1. Waiting' = Waiting
        BY <1>0, <2>0, <2>1, PassHead DEF Defer, Keep, Waiting
    <3> QED
        BY <3>1
  <2>2. CASE still' = still
    <3>1. h \notin WaitingPods'
        BY <1>0, <2>0, <2>2, DropHead
        DEF WaitingPods, Waiting, Consistent, QueueDiscipline, WaitsOnce
    <3> QED
        BY <1>0, <2>0, <2>2, <3>1, DropKeepsOrder DEF Waiting
  <2> QED
      BY <1>7, <2>1, <2>2 DEF ScheduleOne, Bind
<1>8. CASE FinishTick
  <2>1. Waiting = still /\ Waiting' = still
      BY <1>0, <1>8, ConcatEmptySeq DEF FinishTick, Waiting
  <2> QED
      BY <2>1
<1>9. ASSUME NEW n \in Nodes, Cordon(n) \/ Uncordon(n) PROVE UNCHANGED <<queue, still>>
    BY <1>9 DEF Cordon, Uncordon, SetNodeStatus, schedulerVars
<1>10. ASSUME NEW r \in Pods, DeletePod(r) PROVE UNCHANGED <<queue, still>>
    BY <1>10 DEF DeletePod, schedulerVars
<1>11. ASSUME NEW total \in NewCapacities, AddNode(total) PROVE UNCHANGED <<queue, still>>
    BY <1>11 DEF AddNode, schedulerVars
<1>12. ASSUME NEW name \in UsedStrategies, SetStrategy(name) PROVE UNCHANGED <<queue, still>>
    BY <1>12 DEF SetStrategy
<1>13. CASE CrashNodes \/ RunPods \/ UNCHANGED vars
    BY <1>3, <1>13 DEF CrashNodes, RunPods, vars, schedulerVars
<1> QED
    BY <1>3, <1>4, <1>5, <1>6, <1>7, <1>8, <1>9, <1>10, <1>11, <1>12, <1>13
    DEF Next, Operation, TickStep

\* As long as two pods both wait, nothing changes which of them the scheduler tries first: not a
\* round of schedule_pending, which rebuilds the queue, nor an enqueue or an eviction.
THEOREM QueueKeepsOrderHolds == Spec => QueueKeepsOrder
<1>1. Consistent /\ [Next]_vars =>
          \A p, q \in PodId :
              WaitsBefore(p, q) /\ {p, q} \subseteq WaitingPods' => WaitsBefore(p, q)'
    BY StepKeepsOrder DEF WaitsBefore, Before
<1> QED
    BY <1>1, ConsistentInductive, PTL DEF Spec, QueueKeepsOrder

-----------------------------------------------------------------------------
(* Deleted pods *)

LEMMA StepRevivesNone ==
    ASSUME Consistent, [Next]_vars, NEW p \in Pods, podStatus[p] = "Succeeded", p \notin WaitingPods
    PROVE  podStatus'[p] = "Succeeded" /\ p \notin WaitingPods'
<1>0. TypeOK /\ QueueDiscipline /\ p \in PodId /\ ~ Running(p)
    BY WaitingType DEF Consistent, Running
<1>1. ASSUME UNCHANGED Waiting, podStatus'[p] = "Succeeded"
      PROVE  podStatus'[p] = "Succeeded" /\ p \notin WaitingPods'
    BY <1>1 DEF WaitingPods
<1>2. ASSUME NEW evicted \in SUBSET {q \in Pods : Running(q)}, EvictAll(evicted), still' = still
      PROVE  podStatus'[p] = "Succeeded" /\ p \notin WaitingPods'
  <2>1. p \notin evicted
      BY <1>0
  <2>2. podStatus'[p] = podStatus[p]
      BY <1>0, <1>2, <2>1 DEF EvictAll
  <2>3. WaitingPods' = WaitingPods \cup evicted
      BY <1>0, <1>2, EvictAllWaiting
  <2> QED
      BY <2>1, <2>2, <2>3
<1>3. ASSUME NEW count \in 1 .. MaxPods, NEW spec \in PodSpecs, DeployBatch(count, spec)
      PROVE  podStatus'[p] = "Succeeded" /\ p \notin WaitingPods'
  <2>1. p \notin podCount + 1 .. podCount + count
      BY <1>0, <1>3, DeployBatchWaiting
  <2>2. podStatus'[p] = podStatus[p]
      BY <1>0, <1>3, <2>1 DEF DeployBatch
  <2>3. WaitingPods' = WaitingPods \cup (podCount + 1 .. podCount + count)
      BY <1>0, <1>3, DeployBatchWaiting
  <2> QED
      BY <2>1, <2>2, <2>3
<1>4. ASSUME NEW q \in Pods, DeletePod(q)
      PROVE  podStatus'[p] = "Succeeded" /\ p \notin WaitingPods'
    BY <1>0, <1>1, <1>4 DEF DeletePod, schedulerVars, Waiting, TypeOK, PodsOK
<1>5. ASSUME NEW n \in Nodes, RemoveNode(n)
      PROVE  podStatus'[p] = "Succeeded" /\ p \notin WaitingPods'
    BY <1>2, <1>5 DEF RemoveNode, Affected
<1>6. CASE RunPods
    BY <1>0, <1>1, <1>6 DEF RunPods, schedulerVars, Waiting
<1>7. CASE HealthCheck
    BY <1>2, <1>7 DEF HealthCheck, Affected
<1>8. CASE ScheduleOne
  <2>0. queue # <<>> /\ queue' = Tail(queue)
      BY <1>8 DEF ScheduleOne
  <2>1. CASE Defer(Head(queue))
    <3>1. UNCHANGED Waiting
        BY <1>0, <2>0, <2>1, DeferWaiting
    <3> QED
        BY <1>1, <2>1, <3>1 DEF Defer, podVars
  <2>2. ASSUME NEW n, Bind(Head(queue), n)
        PROVE  podStatus'[p] = "Succeeded" /\ p \notin WaitingPods'
    <3>1. p # Head(queue)
        BY <1>0, <2>0, HeadWaits
    <3>2. podStatus'[p] = podStatus[p]
        BY <1>0, <2>2, <3>1 DEF Bind, TypeOK, PodsOK
    <3>3. WaitingPods' \subseteq WaitingPods
        BY <1>0, <2>0, <2>2, BindWaiting DEF Bind
    <3> QED
        BY <3>2, <3>3
  <2> QED
      BY <1>8, <2>1, <2>2 DEF ScheduleOne
<1>9. CASE FinishTick
  <2>1. queue = <<>> /\ queue' = still /\ still' = <<>>
      BY <1>9 DEF FinishTick
  <2>2. UNCHANGED Waiting
      BY <1>0, <2>1, WaitingType, ConcatEmptySeq DEF Waiting
  <2> QED
      BY <1>1, <1>9, <2>2 DEF FinishTick, podVars
<1>10. CASE UNCHANGED <<podVars, queue, still>>
    BY <1>1, <1>10 DEF podVars, Waiting
<1>11. ASSUME NEW total \in NewCapacities, AddNode(total) PROVE UNCHANGED <<podVars, queue, still>>
    BY <1>11 DEF AddNode, schedulerVars
<1>12. ASSUME NEW n \in Nodes, Cordon(n) \/ Uncordon(n) PROVE UNCHANGED <<podVars, queue, still>>
    BY <1>12 DEF Cordon, Uncordon, SetNodeStatus, schedulerVars
<1>13. ASSUME NEW name \in UsedStrategies, SetStrategy(name) PROVE UNCHANGED <<podVars, queue, still>>
    BY <1>13 DEF SetStrategy
<1>14. CASE CrashNodes \/ UNCHANGED vars
    BY <1>10, <1>14 DEF CrashNodes, vars, schedulerVars
<1> QED
    BY <1>3, <1>4, <1>5, <1>6, <1>7, <1>8, <1>9, <1>10, <1>11, <1>12, <1>13, <1>14
    DEF Next, Operation, TickStep

\* A deleted pod comes back only from the pending queue: if it is not in there, no later sequence
\* of deployments, evictions, deletions and ticks changes its status or enqueues it.
THEOREM OnlyTheQueueRevivesHolds == Spec => OnlyTheQueueRevives
<1>1. Consistent /\ [Next]_vars =>
          \A p \in Pods :
              podStatus[p] = "Succeeded" /\ p \notin WaitingPods =>
                  podStatus'[p] = "Succeeded" /\ p \notin WaitingPods'
    BY StepRevivesNone
<1> QED
    BY <1>1, ConsistentInductive, PTL DEF Spec, OnlyTheQueueRevives

-----------------------------------------------------------------------------
(* The length of a tick *)

\* A queue whose pods wait once each is no longer than there are pods.
LEMMA QueueBounded ==
    ASSUME NEW s \in Seq(PodId), NEW q \in Seq(PodId), IsInjective(s \o q)
    PROVE  Len(q) <= MaxPods
<1>0. MaxPods \in Nat /\ Len(q) \in Nat /\ Len(s) \in Nat
    BY LenProperties, Assumptions DEF Assumptions, BoundsAssumption
<1> DEFINE f == [i \in 1 .. Len(q) |-> q[i]]
<1>1. f \in [1 .. Len(q) -> PodId]
    BY ElementOfSeq
<1>2. ASSUME NEW i \in 1 .. Len(q), NEW j \in 1 .. Len(q), f[i] = f[j]
      PROVE  i = j
  <2>1. (s \o q)[Len(s) + i] = q[i] /\ (s \o q)[Len(s) + j] = q[j]
      BY <1>0, ConcatProperties
  <2>2. Len(s) + i \in DOMAIN (s \o q) /\ Len(s) + j \in DOMAIN (s \o q)
      BY <1>0, ConcatProperties, LenProperties
  <2>3. Len(s) + i = Len(s) + j
      BY <1>2, <2>1, <2>2 DEF IsInjective
  <2> QED
      BY <1>0, <2>3
<1>3. \A k \in Nat : IsFiniteSet(1 .. k) /\ Cardinality(1 .. k) = k
    BY FS_Interval
<1>4. /\ IsFiniteSet(PodId) /\ Cardinality(PodId) = MaxPods
      /\ Cardinality(1 .. Len(q)) = Len(q)
    BY <1>0, <1>3 DEF PodId
<1>5. f \in Injection(1 .. Len(q), PodId)
    BY <1>1, <1>2 DEF Injection, IsInjective
<1>6. Cardinality(1 .. Len(q)) <= Cardinality(PodId)
    BY <1>4, <1>5, FS_Injection
<1> QED
    BY <1>4, <1>6

LEMMA StepEndsTick ==
    ASSUME Consistent, Consistent', [Next]_vars, ~ (UNCHANGED vars), phase # "idle"
    PROVE  StepsLeft' < StepsLeft
<1>0. MaxPods \in Nat /\ queue \in Seq(PodId) /\ Len(queue) \in Nat
    BY WaitingType, LenProperties, Assumptions DEF Assumptions, BoundsAssumption, Consistent
<1>1. CASE RunPods
    BY <1>0, <1>1 DEF RunPods, StepsLeft
<1>2. CASE HealthCheck
  <2>1. PodsOK' /\ SchedulerOK' /\ IsInjective(still' \o queue')
      BY DEF Consistent, TypeOK, QueueDiscipline, WaitsOnce, Waiting
  <2>2. still' \in Seq(PodId) /\ queue' \in Seq(PodId)
      BY <2>1, NextPods, SeqMonotonic DEF SchedulerOK
  <2>3. Len(queue') <= MaxPods /\ Len(queue') \in Nat
      BY <2>1, <2>2, QueueBounded, LenProperties
  <2> QED
      BY <1>0, <1>2, <2>3 DEF HealthCheck, StepsLeft
<1>3. CASE ScheduleOne
  <2>1. Len(Tail(queue)) = Len(queue) - 1
      BY <1>0, <1>3, HeadTailProperties DEF ScheduleOne
  <2> QED
      BY <1>0, <1>3, <2>1 DEF ScheduleOne, StepsLeft
<1>4. CASE FinishTick
    BY <1>0, <1>4 DEF FinishTick, StepsLeft
<1>5. ~ (Operation \/ CrashNodes)
    BY DEF Operation, DeployBatch, DeletePod, AddNode, RemoveNode, Cordon, Uncordon,
           SetNodeStatus, SetStrategy, CrashNodes
<1> QED
    BY <1>1, <1>2, <1>3, <1>4, <1>5 DEF Next, TickStep

\* The number that falls is a natural one.
LEMMA StepsLeftType ==
    ASSUME Consistent
    PROVE  StepsLeft \in 0 .. MaxPods + 3
<1>1. MaxPods \in Nat /\ queue \in Seq(PodId) /\ still \in Seq(PodId) /\ Len(queue) \in Nat
    BY WaitingType, LenProperties, Assumptions DEF Assumptions, BoundsAssumption, Consistent
<1>2. Len(queue) <= MaxPods
    BY <1>1, QueueBounded DEF Consistent, QueueDiscipline, WaitsOnce, Waiting
<1> QED
    BY <1>1, <1>2 DEF StepsLeft, Consistent, TypeOK, Phase

\* A tick takes at most MaxPods + 4 steps, whatever crashes and however many pods wait: a natural
\* number that is at most MaxPods + 3 after CrashNodes falls with each further step.
THEOREM TicksEnd == Spec => TickEnds /\ [](StepsLeft \in 0 .. MaxPods + 3)
<1>1. Consistent /\ Consistent' /\ [Next]_vars /\ ~ (UNCHANGED vars) =>
          (phase # "idle" => StepsLeft' < StepsLeft)
    BY StepEndsTick
<1>2. Consistent => StepsLeft \in 0 .. MaxPods + 3
    BY StepsLeftType
<1> QED
    BY <1>1, <1>2, ConsistentInductive, PTL DEF Spec, TickEnds

-----------------------------------------------------------------------------
(* The containers of a pod *)

\* What starting, stopping and a tick make of containers with one status.
LEMMA StoppedAlike ==
    ASSUME NEW cs
    PROVE  /\ Alike(cs, {"Running", "Terminated"}) => Alike(StopAll(cs), {"Created", "Terminated"})
           /\ Alike(cs, {"Created", "Terminated"}) => Alike(StopAll(cs), {"Created", "Terminated"})
BY DEF Alike, StopAll

LEMMA StartedAlike ==
    ASSUME NEW cs, Alike(cs, {"Created", "Terminated"})
    PROVE  Alike(StartAll(cs), {"Running", "Terminated"})
BY DEF Alike, StartAll, Start

LEMMA TickedAlike ==
    ASSUME NEW cs, NEW policy \in {"Always", "Never"}, NEW crashed \in SUBSET RunningContainers(cs),
           Alike(cs, {"Running", "Terminated"}), StatusAfterTick(policy, crashed) = "Running"
    PROVE  Alike(ContainersAfterTick(policy, cs, crashed), {"Running", "Terminated"})
<1>1. CASE crashed = {}
    BY <1>1 DEF Alike, ContainersAfterTick, FailContainers
<1>2. CASE crashed # {}
  <2>1. policy = "Always"
      BY <1>2 DEF StatusAfterTick
  <2>2. \A c \in DOMAIN cs : cs[c] = "Running"
      BY <1>2 DEF Alike, RunningContainers
  <2>3. /\ DOMAIN ContainersAfterTick(policy, cs, crashed) = DOMAIN cs
        /\ \A c \in DOMAIN cs : ContainersAfterTick(policy, cs, crashed)[c] = "Running"
      BY <1>2, <2>1, <2>2 DEF ContainersAfterTick, FailContainers, RestartFailed, Start
  <2> QED
      BY <2>3 DEF Alike
<1> QED
    BY <1>1, <1>2

\* A pod's containers over its life: a waiting pod's are as new or stopped, so that the next start
\* starts all of them or none.
KeptAlike(p) ==
    podSpec[p].policy \in {"Always", "Never"} =>
        /\ Running(p) => Alike(containers[p], {"Running", "Terminated"})
        /\ p \in WaitingPods => Alike(containers[p], {"Created", "Terminated"})

AllKeptAlike == \A p \in Pods : KeptAlike(p)

LEMMA AlikeFrame ==
    ASSUME NEW p, KeptAlike(p), podSpec'[p] = podSpec[p], containers'[p] = containers[p],
           Running(p)' => Running(p), p \in WaitingPods' => p \in WaitingPods
    PROVE  KeptAlike(p)'
BY DEF KeptAlike

LEMMA EvictAllAlike ==
    ASSUME Consistent, AllKeptAlike, NEW evicted \in SUBSET {p \in Pods : Running(p)},
           EvictAll(evicted), still' = still
    PROVE  AllKeptAlike'
<1>0. TypeOK /\ QueueDiscipline /\ Pods \subseteq PodId /\ Pods' = Pods /\ podSpec' = podSpec
    BY WaitingType DEF Consistent, EvictAll, Pods
<1>1. WaitingPods' = WaitingPods \cup evicted
    BY <1>0, EvictAllWaiting
<1> SUFFICES ASSUME NEW p \in Pods PROVE KeptAlike(p)'
    BY <1>0 DEF AllKeptAlike
<1>2. CASE p \in evicted
  <2>1. containers'[p] = StopAll(containers[p]) /\ podStatus'[p] = "Evicted" /\ Running(p)
      BY <1>0, <1>2 DEF EvictAll
  <2> QED
      BY <1>0, <2>1, StoppedAlike DEF KeptAlike, AllKeptAlike, Running
<1>3. CASE p \notin evicted
    BY <1>0, <1>1, <1>3, AlikeFrame DEF EvictAll, AllKeptAlike, Running
<1> QED
    BY <1>2, <1>3

LEMMA DeployBatchAlike ==
    ASSUME Consistent, AllKeptAlike, NEW count \in 1 .. MaxPods, NEW spec \in PodSpecs,
           DeployBatch(count, spec)
    PROVE  AllKeptAlike'
<1> DEFINE created == podCount + 1 .. podCount + count
<1>0. TypeOK /\ QueueDiscipline
    BY DEF Consistent
<1>1. WaitingPods' = WaitingPods \cup created /\ Pods' = Pods \cup created /\ Pods \cap created = {}
    BY <1>0, DeployBatchWaiting
<1> SUFFICES ASSUME NEW p \in Pods' PROVE KeptAlike(p)'
    BY DEF AllKeptAlike
<1>2. p \in PodId
    BY NextPods DEF Next, Operation
<1>3. /\ podStatus'[p] = IF p \in created THEN "Pending" ELSE podStatus[p]
      /\ podSpec'[p] = IF p \in created THEN spec ELSE podSpec[p]
      /\ containers'[p] = IF p \in created THEN NewContainers(spec) ELSE containers[p]
    BY <1>2 DEF DeployBatch
<1> HIDE DEF created
<1>4. CASE p \in created
  <2>1. Alike(NewContainers(spec), {"Created", "Terminated"})
      BY DEF Alike, NewContainers
  <2> QED
      BY <1>3, <1>4, <2>1 DEF KeptAlike, Running
<1>5. CASE p \notin created
    BY <1>1, <1>3, <1>5, AlikeFrame DEF AllKeptAlike, Running
<1> QED
    BY <1>4, <1>5

LEMMA DeletePodAlike ==
    ASSUME Consistent, AllKeptAlike, NEW q \in Pods, DeletePod(q)
    PROVE  AllKeptAlike'
<1>0. Pods' = Pods /\ Pods \subseteq PodId /\ podSpec' = podSpec /\ WaitingPods' = WaitingPods
    BY WaitingType DEF Consistent, DeletePod, Pods, schedulerVars, WaitingPods, Waiting
<1> SUFFICES ASSUME NEW p \in Pods PROVE KeptAlike(p)'
    BY <1>0 DEF AllKeptAlike
<1>1. /\ podStatus'[p] = IF p = q THEN "Succeeded" ELSE podStatus[p]
      /\ containers'[p] = IF p = q THEN StopAll(containers[p]) ELSE containers[p]
    BY <1>0 DEF DeletePod, Consistent, TypeOK, PodsOK, ContainersOK
<1>2. CASE p = q
    BY <1>0, <1>1, <1>2, StoppedAlike DEF KeptAlike, AllKeptAlike, Running
<1>3. CASE p # q
    BY <1>0, <1>1, <1>3, AlikeFrame DEF AllKeptAlike, Running
<1> QED
    BY <1>2, <1>3

LEMMA RunPodsAlike ==
    ASSUME Consistent, AllKeptAlike, RunPods
    PROVE  AllKeptAlike'
<1> PICK crashed \in [PodId -> SUBSET UNION {Fragile(p) : p \in PodId}] :
        /\ \A p \in PodId : crashed[p] \subseteq Fragile(p)
        /\ containers' = [p \in PodId |-> IF Running(p)
               THEN ContainersAfterTick(podSpec[p].policy, containers[p], crashed[p])
               ELSE containers[p]]
        /\ podStatus' = [p \in PodId |-> IF Running(p)
               THEN StatusAfterTick(podSpec[p].policy, crashed[p]) ELSE podStatus[p]]
    BY DEF RunPods
<1>0. Pods' = Pods /\ Pods \subseteq PodId /\ podSpec' = podSpec /\ WaitingPods' = WaitingPods
    BY WaitingType DEF Consistent, RunPods, Pods, schedulerVars, WaitingPods, Waiting
<1> SUFFICES ASSUME NEW p \in Pods PROVE KeptAlike(p)'
    BY <1>0 DEF AllKeptAlike
<1>1. CASE Running(p)
  <2>1. p \notin WaitingPods
      BY <1>1 DEF Consistent, QueueDiscipline, OnlyUnplacedWait, Running
  <2>2. crashed[p] \in SUBSET RunningContainers(containers[p])
      BY <1>0, <1>1 DEF Fragile
  <2>3. /\ containers'[p] = ContainersAfterTick(podSpec[p].policy, containers[p], crashed[p])
        /\ podStatus'[p] = StatusAfterTick(podSpec[p].policy, crashed[p])
      BY <1>0, <1>1
  <2> QED
      BY <1>0, <1>1, <2>1, <2>2, <2>3, TickedAlike DEF KeptAlike, AllKeptAlike, Running
<1>2. CASE ~ Running(p)
    BY <1>0, <1>2, AlikeFrame DEF AllKeptAlike, Running
<1> QED
    BY <1>1, <1>2

LEMMA ScheduleOneAlike ==
    ASSUME Consistent, AllKeptAlike, ScheduleOne
    PROVE  AllKeptAlike'
<1>0. TypeOK /\ QueueDiscipline /\ queue # <<>> /\ queue' = Tail(queue)
    BY DEF Consistent, ScheduleOne
<1>1. CASE Defer(Head(queue))
  <2>1. UNCHANGED <<Pods, podStatus, podSpec, containers, WaitingPods>>
      BY <1>0, <1>1, DeferWaiting DEF Defer, podVars, Pods, WaitingPods
  <2> QED
      BY <2>1, AlikeFrame DEF AllKeptAlike, Running
<1>2. ASSUME NEW n, Bind(Head(queue), n)
      PROVE  AllKeptAlike'
  <2>1. Pods' = Pods /\ Pods \subseteq PodId /\ podSpec' = podSpec
      BY <1>0, <1>2, WaitingType DEF Bind, Pods
  <2>2. WaitingPods' = WaitingPods \ {Head(queue)}
      BY <1>0, <1>2, BindWaiting DEF Bind
  <2> SUFFICES ASSUME NEW p \in Pods PROVE KeptAlike(p)'
      BY <2>1 DEF AllKeptAlike
  <2>3. CASE p = Head(queue)
    <3>1. p \in WaitingPods
        BY <1>0, <2>3, HeadWaits
    <3>2. containers'[p] = StartAll(containers[p])
        BY <1>0, <1>2, <2>1, <2>3 DEF Bind, TypeOK, ContainersOK
    <3> QED
        BY <2>1, <2>2, <2>3, <3>1, <3>2, StartedAlike DEF KeptAlike, AllKeptAlike
  <2>4. CASE p # Head(queue)
    <3>1. podStatus'[p] = podStatus[p] /\ containers'[p] = containers[p]
        BY <1>0, <1>2, <2>1, <2>4 DEF Bind, TypeOK, PodsOK, ContainersOK
    <3> QED
        BY <2>1, <2>2, <3>1, AlikeFrame DEF AllKeptAlike, Running
  <2> QED
      BY <2>3, <2>4
<1> QED
    BY <1>1, <1>2 DEF ScheduleOne

LEMMA NextAlike ==
    ASSUME Consistent, AllKeptAlike, [Next]_vars
    PROVE  AllKeptAlike'
<1>1. ASSUME NEW count \in 1 .. MaxPods, NEW spec \in PodSpecs, DeployBatch(count, spec)
      PROVE  AllKeptAlike'
    BY <1>1, DeployBatchAlike
<1>2. ASSUME NEW p \in Pods, DeletePod(p) PROVE AllKeptAlike'
    BY <1>2, DeletePodAlike
<1>3. ASSUME NEW n \in Nodes, RemoveNode(n) PROVE AllKeptAlike'
    BY <1>3, EvictAllAlike DEF RemoveNode, Affected
<1>4. CASE RunPods
    BY <1>4, RunPodsAlike
<1>5. CASE HealthCheck
    BY <1>5, EvictAllAlike DEF HealthCheck, Affected
<1>6. CASE ScheduleOne
    BY <1>6, ScheduleOneAlike
<1>7. CASE UNCHANGED <<podVars, Waiting>>
  <2>1. UNCHANGED <<Pods, podStatus, podSpec, containers, WaitingPods>>
      BY <1>7 DEF podVars, Pods, WaitingPods
  <2> QED
      BY <2>1, AlikeFrame DEF AllKeptAlike, Running
<1>8. CASE FinishTick
  <2>1. queue = <<>> /\ queue' = still /\ still' = <<>>
      BY <1>8 DEF FinishTick
  <2>2. UNCHANGED Waiting
      BY <2>1, WaitingType, ConcatEmptySeq DEF Waiting, Consistent
  <2> QED
      BY <1>7, <1>8, <2>2 DEF FinishTick
<1>9. ASSUME NEW total \in NewCapacities, AddNode(total) PROVE UNCHANGED <<podVars, Waiting>>
    BY <1>9 DEF AddNode, schedulerVars, Waiting
<1>10. ASSUME NEW n \in Nodes, Cordon(n) \/ Uncordon(n) PROVE UNCHANGED <<podVars, Waiting>>
    BY <1>10 DEF Cordon, Uncordon, SetNodeStatus, schedulerVars, Waiting
<1>11. ASSUME NEW name \in UsedStrategies, SetStrategy(name) PROVE UNCHANGED <<podVars, Waiting>>
    BY <1>11 DEF SetStrategy, Waiting
<1>12. CASE CrashNodes \/ UNCHANGED vars
    BY <1>7, <1>12 DEF CrashNodes, vars, schedulerVars, Waiting
<1> QED
    BY <1>1, <1>2, <1>3, <1>4, <1>5, <1>6, <1>7, <1>8, <1>9, <1>10, <1>11, <1>12
    DEF Next, Operation, TickStep

\* A running pod whose policy is Always or Never has all its containers running or all of them
\* terminated, through any number of crashes, restarts, evictions and new starts.
THEOREM ContainersTogetherHolds == Spec => []ContainersTogether
<1>1. Init => Consistent /\ AllKeptAlike
  <2>1. Init => AllKeptAlike
      BY DEF Init, AllKeptAlike, Pods
  <2> QED
      BY <2>1, ConsistentInductive
<1>2. Consistent /\ AllKeptAlike /\ [Next]_vars => (Consistent /\ AllKeptAlike)'
    BY ConsistentInductive, NextAlike
<1>3. AllKeptAlike => ContainersTogether
    BY DEF AllKeptAlike, KeptAlike, ContainersTogether
<1> QED
    BY <1>1, <1>2, <1>3, PTL DEF Spec

=============================================================================
