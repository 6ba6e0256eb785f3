------------------------- MODULE ClusterManagerProofs -------------------------
(***************************************************************************)
(* What holds of ClusterManager for every number of nodes and pods, every  *)
(* set of capacities, requests and strategies.                             *)
(***************************************************************************)
EXTENDS ClusterManager, FiniteSetTheorems, SequenceTheorems, TLAPS

-----------------------------------------------------------------------------
(* The data operators *)

LEMMA NothingType == Nothing \in Amount
BY DEF Nothing, Amount

\* A pod's request is an amount within the bound.
LEMMA RequestType ==
    ASSUME NEW spec \in PodSpecs
    PROVE  /\ RequestOf(spec) \in Amount
           /\ \A r \in Resource : RequestOf(spec)[r] \in 0 .. MaxRequest
<1>1. \A r \in Resource : RequestOf(spec)[r] \in 0 .. MaxRequest
    BY Assumptions DEF Assumptions, DataAssumption
<1>2. MaxRequest \in Nat
    BY Assumptions DEF Assumptions, BoundsAssumption
<1>3. RequestOf(spec) = [r \in Resource |-> RequestOf(spec)[r]]
    BY DEF RequestOf
<1> QED
    BY <1>1, <1>2, <1>3 DEF Amount

\* Releasing never takes an amount below zero, nor above what it was.
LEMMA ReleaseType ==
    ASSUME NEW used \in Amount, NEW req \in Amount
    PROVE  /\ Release(used, req) \in Amount
           /\ \A r \in Resource : Release(used, req)[r] <= used[r]
BY DEF Amount, Release

LEMMA AllocateType ==
    ASSUME NEW used \in Amount, NEW req \in Amount
    PROVE  Allocate(used, req) \in Amount
BY DEF Amount, Allocate

LEMMA PodIdFinite == IsFiniteSet(PodId) /\ \A S \in SUBSET PodId : IsFiniteSet(S) /\ Cardinality(S) \in Nat
<1>1. MaxPods \in Nat
    BY Assumptions DEF Assumptions, BoundsAssumption
<1>2. IsFiniteSet(PodId)
    BY <1>1, FS_Interval DEF PodId
<1> QED
    BY <1>2, FS_Subset, FS_CardinalityType

-----------------------------------------------------------------------------
(* Totals: TotalRequest is additive *)

LEMMA UnitsFinite ==
    ASSUME NEW specs, NEW S \in SUBSET PodId, NEW r
    PROVE  /\ IsFiniteSet(UnitsOf(specs, S, r))
           /\ Cardinality(UnitsOf(specs, S, r)) \in Nat
<1>1. IsFiniteSet(S)
    BY PodIdFinite
<1>2. IsFiniteSet(1 .. MaxRequest)
    BY Assumptions, FS_Interval DEF Assumptions, BoundsAssumption
<1>3. IsFiniteSet(S \X (1 .. MaxRequest))
    BY <1>1, <1>2, FS_Product
<1>4. UnitsOf(specs, S, r) \in SUBSET (S \X (1 .. MaxRequest))
    BY DEF UnitsOf
<1> QED
    BY <1>3, <1>4, FS_Subset, FS_CardinalityType

LEMMA TotalRequestType ==
    ASSUME NEW specs, NEW S \in SUBSET PodId
    PROVE  TotalRequest(specs, S) \in Amount
BY UnitsFinite DEF TotalRequest, Amount

LEMMA TotalOfNone ==
    ASSUME NEW specs
    PROVE  TotalRequest(specs, {}) = Nothing
<1>1. \A r : UnitsOf(specs, {}, r) = {}
    BY DEF UnitsOf
<1> QED
    BY <1>1, FS_EmptySet DEF TotalRequest, Nothing

\* One pod's total is its request.
LEMMA TotalOfOne ==
    ASSUME NEW specs \in [PodId -> PodSpecs], NEW p \in PodId
    PROVE  TotalRequest(specs, {p}) = RequestOf(specs[p])
<1>1. ASSUME NEW r \in Resource
      PROVE  Cardinality(UnitsOf(specs, {p}, r)) = RequestOf(specs[p])[r]
  <2> DEFINE k == RequestOf(specs[p])[r]
  <2>1. k \in 0 .. MaxRequest /\ k \in Nat /\ MaxRequest \in Nat
      BY RequestType, Assumptions DEF Assumptions, BoundsAssumption
  <2>2. UnitsOf(specs, {p}, r) = {p} \X (1 .. k)
      BY <2>1 DEF UnitsOf
  <2> HIDE DEF k
  <2>3. IsFiniteSet({p}) /\ Cardinality({p}) = 1
      BY FS_Singleton
  <2>4. IsFiniteSet(1 .. k) /\ Cardinality(1 .. k) = k
      BY <2>1, FS_Interval
  <2>5. Cardinality({p} \X (1 .. k)) = Cardinality({p}) * Cardinality(1 .. k)
      BY <2>3, <2>4, FS_Product, Zenon
  <2>6. 1 * k = k
      BY <2>1
  <2>7. Cardinality(UnitsOf(specs, {p}, r)) = k
      BY <2>2, <2>3, <2>4, <2>5, <2>6, Zenon
  <2> QED
      BY <2>7 DEF k
<1>2. RequestOf(specs[p]) = [r \in Resource |-> RequestOf(specs[p])[r]]
    BY DEF RequestOf
<1> QED
    BY <1>1, <1>2 DEF TotalRequest

\* The total of two disjoint sets of pods is the sum of their totals.
LEMMA TotalOfUnion ==
    ASSUME NEW specs, NEW S \in SUBSET PodId, NEW T \in SUBSET PodId, S \cap T = {},
           NEW r \in Resource
    PROVE  TotalRequest(specs, S \cup T)[r] = TotalRequest(specs, S)[r] + TotalRequest(specs, T)[r]
<1> DEFINE A == UnitsOf(specs, S, r)
           B == UnitsOf(specs, T, r)
<1>1. UnitsOf(specs, S \cup T, r) = A \cup B
    BY DEF UnitsOf
<1>2. A \cap B = {}
    BY DEF UnitsOf
<1>3. /\ IsFiniteSet(A) /\ Cardinality(A) \in Nat
      /\ IsFiniteSet(B) /\ Cardinality(B) \in Nat
    BY UnitsFinite
<1> HIDE DEF A, B
<1>4. Cardinality(A \cup B) = Cardinality(A) + Cardinality(B) - Cardinality(A \cap B)
    BY <1>3, FS_Union
<1>5. Cardinality(A \cap B) = 0
    BY <1>2, FS_EmptySet, Zenon
<1>6. Cardinality(A \cup B) = Cardinality(A) + Cardinality(B)
    BY <1>3, <1>4, <1>5
<1> QED
    BY <1>1, <1>6 DEF TotalRequest, A, B

\* Taking pods away takes their total away.
LEMMA TotalOfDifference ==
    ASSUME NEW specs, NEW S \in SUBSET PodId, NEW T \in SUBSET S, NEW r \in Resource
    PROVE  TotalRequest(specs, S \ T)[r] = TotalRequest(specs, S)[r] - TotalRequest(specs, T)[r]
<1>1. S = (S \ T) \cup T /\ (S \ T) \cap T = {}
    OBVIOUS
<1>2. TotalRequest(specs, S)[r]
        = TotalRequest(specs, S \ T)[r] + TotalRequest(specs, T)[r]
    BY <1>1, TotalOfUnion
<1>3. TotalRequest(specs, S \ T)[r] \in Nat /\ TotalRequest(specs, T)[r] \in Nat
    BY TotalRequestType DEF Amount
<1> QED
    BY <1>2, <1>3

\* Totals depend on the specifications of the pods summed, not on those of others.
LEMMA TotalFrame ==
    ASSUME NEW specs, NEW other, NEW S, \A p \in S : specs[p] = other[p]
    PROVE  TotalRequest(specs, S) = TotalRequest(other, S)
<1>1. \A r : UnitsOf(specs, S, r) = UnitsOf(other, S, r)
    BY DEF UnitsOf
<1> QED
    BY <1>1 DEF TotalRequest

\* What a strategy answers is one of the eligible nodes.
LEMMA SelectNodeEligible ==
    ASSUME NEW name, NEW eligible, NEW total, NEW used, NEW req, NEW index,
           NEW n \in SelectNode(name, eligible, total, used, req, index)
    PROVE  n \in eligible
BY DEF SelectNode

-----------------------------------------------------------------------------
(* Types *)

LEMMA InitTypeOK == Init => TypeOK
<1> SUFFICES ASSUME Init PROVE TypeOK
    OBVIOUS
<1> USE Assumptions DEF Assumptions, Init
<1>1. NodesOK
    BY NothingType DEF NodesOK, BoundsAssumption, DataAssumption, NodeId, NodeStatus
<1>2. PodsOK
    BY DEF PodsOK, BoundsAssumption, DataAssumption, PodId, Pods, NoNode
<1>3. ContainersOK
    BY DEF ContainersOK, NewContainers, ContainerStatus
<1>4. SchedulerOK
    BY DEF SchedulerOK, SchedulerAssumption
<1>5. beat \in 0 .. RecoverAfter - 1
    BY DEF EnvironmentAssumption
<1> QED
    BY <1>1, <1>2, <1>3, <1>4, <1>5 DEF TypeOK, Phase

\* Stopping, starting and crashing containers keeps a pod's containers a list of statuses.
LEMMA ContainersType ==
    ASSUME NEW k \in Nat, NEW cs \in [1 .. k -> ContainerStatus]
    PROVE  /\ StopAll(cs) \in [1 .. k -> ContainerStatus]
           /\ StartAll(cs) \in [1 .. k -> ContainerStatus]
           /\ \A policy, crashed :
                  ContainersAfterTick(policy, cs, crashed) \in [1 .. k -> ContainerStatus]
BY DEF StopAll, StartAll, Start, ContainersAfterTick, FailContainers, RestartFailed, ContainerStatus

\* The evicted pods follow the queue, in some order.
LEMMA EvictionOrderType ==
    ASSUME NEW evicted \in SUBSET PodId, NEW s \in EvictionOrders(evicted)
    PROVE  s \in Seq(evicted)
<1>1. Cardinality(evicted) \in Nat
    BY PodIdFinite
<1>2. s \in [1 .. Cardinality(evicted) -> evicted]
    BY DEF EvictionOrders
<1> QED
    BY <1>1, <1>2, SeqDef

LEMMA EvictAllType ==
    ASSUME PodsOK, ContainersOK, SchedulerOK, NEW evicted \in SUBSET Pods, EvictAll(evicted)
    PROVE  PodsOK' /\ ContainersOK' /\ queue' \in Seq(Pods)
<1>0. evicted \in SUBSET PodId
    BY Assumptions DEF Assumptions, BoundsAssumption, PodsOK, Pods, PodId
<1>1. PodsOK'
    BY <1>0 DEF PodsOK, EvictAll, Pods, PodStatus, NoNode
<1>2. ContainersOK'
  <2>1. DOMAIN containers' = PodId
    BY DEF EvictAll
  <2>2. ASSUME NEW p \in PodId
        PROVE  containers'[p] \in [1 .. podSpec[p].containers -> ContainerStatus]
    <3>1. podSpec[p].containers \in Nat
        BY Assumptions DEF Assumptions, DataAssumption, PodsOK, PodSpec
    <3> QED
        BY <3>1, ContainersType DEF EvictAll, ContainersOK
  <2> QED
    BY <2>1, <2>2 DEF ContainersOK, EvictAll
<1>3. queue' \in Seq(Pods)
  <2> PICK order \in EvictionOrders(evicted) : queue' = queue \o order
    BY DEF EvictAll
  <2> QED
    BY <1>0, EvictionOrderType, SeqMonotonic, ConcatProperties DEF SchedulerOK
<1> QED
    BY <1>1, <1>2, <1>3

LEMMA PodsInPodId == PodsOK => Pods \subseteq PodId
BY Assumptions DEF Assumptions, BoundsAssumption, PodsOK, Pods, PodId

\* What a step leaves alone keeps its type.
LEMMA TypeFrame ==
    /\ NodesOK /\ UNCHANGED nodeVars => NodesOK'
    /\ PodsOK /\ UNCHANGED <<podCount, podStatus, podNode, podSpec>> => PodsOK'
    /\ ContainersOK /\ UNCHANGED <<podSpec, containers>> => ContainersOK'
    /\ SchedulerOK /\ UNCHANGED <<schedulerVars, podCount, phase>> => SchedulerOK'
    /\ UNCHANGED podCount => UNCHANGED Pods
<1>1. NodesOK /\ UNCHANGED nodeVars => NodesOK'
    BY DEF NodesOK, nodeVars
<1>2. PodsOK /\ UNCHANGED <<podCount, podStatus, podNode, podSpec>> => PodsOK'
    BY DEF PodsOK, Pods
<1>3. ContainersOK /\ UNCHANGED <<podSpec, containers>> => ContainersOK'
    BY DEF ContainersOK
<1>4. SchedulerOK /\ UNCHANGED <<schedulerVars, podCount, phase>> => SchedulerOK'
    BY DEF SchedulerOK, schedulerVars, Pods
<1> QED
    BY <1>1, <1>2, <1>3, <1>4 DEF Pods

LEMMA DeployBatchType ==
    ASSUME TypeOK, NEW count \in 1 .. MaxPods, NEW spec \in PodSpecs, DeployBatch(count, spec)
    PROVE  TypeOK'
<1> DEFINE created == podCount + 1 .. podCount + count
<1>0. MaxPods \in Nat /\ podCount \in Nat /\ count \in Nat
    BY Assumptions DEF Assumptions, BoundsAssumption, TypeOK, PodsOK
<1>1. NodesOK'
    BY TypeFrame DEF TypeOK, DeployBatch
<1>2. PodsOK'
    BY <1>0 DEF TypeOK, PodsOK, DeployBatch, Pods, PodId, PodStatus
<1>3. ContainersOK'
    BY <1>0 DEF TypeOK, ContainersOK, DeployBatch, NewContainers, ContainerStatus
<1>4. SchedulerOK'
  <2>1. [i \in 1 .. count |-> podCount + i] \in Seq(Pods')
    <3>1. \A i \in 1 .. count : podCount + i \in Pods'
        BY <1>0 DEF DeployBatch, Pods
    <3> QED
        BY <1>0, <3>1, IsASeq
  <2>2. queue \in Seq(Pods') /\ still \in Seq(Pods')
    <3>1. Pods \subseteq Pods'
        BY <1>0 DEF DeployBatch, Pods
    <3> QED
        BY <3>1, SeqMonotonic DEF TypeOK, SchedulerOK
  <2>3. queue' \in Seq(Pods')
      BY <2>1, <2>2, ConcatProperties DEF DeployBatch
  <2> QED
      BY <2>2, <2>3 DEF TypeOK, SchedulerOK, DeployBatch
<1> QED
    BY <1>1, <1>2, <1>3, <1>4 DEF TypeOK, DeployBatch

LEMMA DeletePodType ==
    ASSUME TypeOK, NEW p \in Pods, DeletePod(p)
    PROVE  TypeOK'
<1>0. p \in PodId
    BY Assumptions DEF Assumptions, BoundsAssumption, TypeOK, PodsOK, Pods, PodId
<1>1. NodesOK'
  <2>1. Request(p) \in Amount
      BY <1>0, RequestType DEF TypeOK, PodsOK, Request
  <2>2. allocated' \in [NodeId -> Amount]
      BY <2>1, ReleaseType DEF TypeOK, NodesOK, DeletePod
  <2> QED
      BY <2>2 DEF TypeOK, NodesOK, DeletePod
<1>2. PodsOK'
    BY <1>0 DEF TypeOK, PodsOK, DeletePod, PodStatus, Pods
<1>3. ContainersOK'
  <2>1. \A q \in PodId : podSpec[q].containers \in Nat
      BY Assumptions DEF Assumptions, DataAssumption, TypeOK, PodsOK, PodSpec
  <2> QED
      BY <1>0, <2>1, ContainersType DEF TypeOK, ContainersOK, DeletePod
<1>4. SchedulerOK'
    BY TypeFrame DEF TypeOK, DeletePod, podVars
<1> QED
    BY <1>1, <1>2, <1>3, <1>4 DEF TypeOK, DeletePod

LEMMA AddNodeType ==
    ASSUME TypeOK, NEW total \in NewCapacities, AddNode(total)
    PROVE  TypeOK'
<1>1. NodesOK'
  <2>1. total \in Amount
      BY Assumptions DEF Assumptions, DataAssumption
  <2>2. nodeCount \in Nat /\ MaxNodes \in Nat
      BY Assumptions DEF Assumptions, BoundsAssumption, TypeOK, NodesOK
  <2> QED
      BY <2>1, <2>2 DEF TypeOK, NodesOK, AddNode, NodeId, NodeStatus
<1>2. PodsOK' /\ ContainersOK' /\ SchedulerOK'
    BY TypeFrame DEF TypeOK, AddNode, podVars
<1> QED
    BY <1>1, <1>2 DEF TypeOK, AddNode

LEMMA RemoveNodeType ==
    ASSUME TypeOK, NEW n \in Nodes, RemoveNode(n)
    PROVE  TypeOK'
<1>1. NodesOK'
    BY NothingType DEF TypeOK, NodesOK, RemoveNode, NodeStatus, Nodes, NodeId
<1>2. PodsOK' /\ ContainersOK' /\ queue' \in Seq(Pods)
    BY EvictAllType DEF TypeOK, RemoveNode, Affected
<1>3. SchedulerOK'
    BY <1>2 DEF TypeOK, SchedulerOK, RemoveNode, EvictAll, Pods
<1> QED
    BY <1>1, <1>2, <1>3 DEF TypeOK, RemoveNode

LEMMA SetNodeStatusType ==
    ASSUME TypeOK, NEW n \in Nodes, NEW status \in {"Ready", "Cordoned"}, SetNodeStatus(n, status)
    PROVE  TypeOK'
<1>1. NodesOK'
    BY DEF TypeOK, NodesOK, SetNodeStatus, NodeStatus, Nodes, NodeId
<1>2. PodsOK' /\ ContainersOK' /\ SchedulerOK'
    BY TypeFrame DEF TypeOK, SetNodeStatus, podVars
<1> QED
    BY <1>1, <1>2 DEF TypeOK, SetNodeStatus

LEMMA SetStrategyType ==
    ASSUME TypeOK, NEW name \in UsedStrategies, SetStrategy(name)
    PROVE  TypeOK'
<1>1. NodesOK' /\ PodsOK' /\ ContainersOK'
    BY TypeFrame DEF TypeOK, SetStrategy, podVars
<1>2. SchedulerOK'
    BY Assumptions DEF Assumptions, SchedulerAssumption, TypeOK, SchedulerOK, SetStrategy, podVars, Pods
<1> QED
    BY <1>1, <1>2 DEF TypeOK, SetStrategy

LEMMA CrashNodesType ==
    ASSUME TypeOK, CrashNodes
    PROVE  TypeOK'
<1>1. NodesOK'
    BY DEF TypeOK, NodesOK, CrashNodes, MayCrash, NodeStatus
<1>2. PodsOK' /\ ContainersOK'
    BY TypeFrame DEF TypeOK, CrashNodes, podVars
<1>3. SchedulerOK'
    BY DEF TypeOK, SchedulerOK, CrashNodes, schedulerVars, podVars, Pods
<1> QED
    BY <1>1, <1>2, <1>3 DEF TypeOK, CrashNodes, Phase

LEMMA RunPodsType ==
    ASSUME TypeOK, RunPods
    PROVE  TypeOK'
<1> PICK crashed \in [PodId -> SUBSET UNION {Fragile(p) : p \in PodId}] :
        /\ containers' = [p \in PodId |-> IF Running(p)
               THEN ContainersAfterTick(podSpec[p].policy, containers[p], crashed[p])
               ELSE containers[p]]
        /\ podStatus' = [p \in PodId |-> IF Running(p)
               THEN StatusAfterTick(podSpec[p].policy, crashed[p]) ELSE podStatus[p]]
    BY DEF RunPods
<1>1. NodesOK'
    BY TypeFrame DEF TypeOK, RunPods
<1>2. PodsOK'
    BY DEF TypeOK, PodsOK, RunPods, PodStatus, StatusAfterTick, Running, Pods
<1>3. ContainersOK'
  <2>1. \A p \in PodId : podSpec[p].containers \in Nat
      BY Assumptions DEF Assumptions, DataAssumption, TypeOK, PodsOK, PodSpec
  <2> QED
      BY <2>1, ContainersType DEF TypeOK, ContainersOK, RunPods
<1>4. SchedulerOK'
    BY DEF TypeOK, SchedulerOK, RunPods, schedulerVars, Pods
<1> QED
    BY <1>1, <1>2, <1>3, <1>4 DEF TypeOK, RunPods, Phase

LEMMA HealthCheckType ==
    ASSUME TypeOK, HealthCheck
    PROVE  TypeOK'
<1> DEFINE failed == {n \in NodeId : nodeStatus[n] = "Failed"}
           evicted == Affected(failed)
<1>1. NodesOK'
  <2>1. \A n \in NodeId : Load({p \in evicted : podNode[p] = n}) \in Amount
    <3>1. evicted \in SUBSET PodId
        BY Assumptions DEF Assumptions, BoundsAssumption, TypeOK, PodsOK, Pods, PodId, Affected
    <3> QED
        BY <3>1, TotalRequestType DEF Load
  <2>2. allocated' \in [NodeId -> Amount]
      BY <2>1, ReleaseType DEF TypeOK, NodesOK, HealthCheck
  <2> QED
      BY <2>2 DEF TypeOK, NodesOK, HealthCheck, NodeStatus
<1>2. PodsOK' /\ ContainersOK' /\ queue' \in Seq(Pods)
    BY EvictAllType DEF TypeOK, HealthCheck, Affected
<1>3. SchedulerOK'
    BY <1>2 DEF TypeOK, SchedulerOK, HealthCheck, EvictAll, Pods
<1>4. beat' \in 0 .. RecoverAfter - 1
    BY Assumptions DEF Assumptions, EnvironmentAssumption, TypeOK, HealthCheck
<1> QED
    BY <1>1, <1>2, <1>3, <1>4 DEF TypeOK, HealthCheck, Phase

LEMMA ScheduleOneType ==
    ASSUME TypeOK, ScheduleOne
    PROVE  TypeOK'
<1> DEFINE p == Head(queue)
<1>0. p \in Pods /\ p \in PodId /\ Tail(queue) \in Seq(Pods)
  <2>1. p \in Pods /\ Tail(queue) \in Seq(Pods)
      BY HeadTailProperties DEF TypeOK, SchedulerOK, ScheduleOne
  <2> QED
      BY <2>1, PodsInPodId DEF TypeOK
<1>1. CASE Defer(p)
  <2>1. NodesOK' /\ PodsOK' /\ ContainersOK'
      BY <1>1, TypeFrame DEF TypeOK, Defer, podVars
  <2>2. Append(still, p) \in Seq(Pods)
      BY <1>0 DEF TypeOK, SchedulerOK
  <2>3. SchedulerOK'
      BY <1>0, <1>1, <2>2 DEF TypeOK, SchedulerOK, ScheduleOne, Defer, Keep, podVars, Pods
  <2> QED
      BY <2>1, <2>3 DEF TypeOK, ScheduleOne
<1>2. ASSUME NEW n \in SelectNode(strategy, Eligible(p), capacity, allocated, Request(p), rrIndex),
             Bind(p, n)
      PROVE  TypeOK'
  <2>0. n \in NodeId
      BY SelectNodeEligible DEF Eligible
  <2>1. NodesOK'
    <3>1. Request(p) \in Amount
        BY <1>0, RequestType DEF TypeOK, PodsOK, Request
    <3>2. allocated' \in [NodeId -> Amount]
        BY <1>2, <2>0, <3>1, AllocateType DEF TypeOK, NodesOK, Bind
    <3> QED
        BY <1>0, <1>2, <2>0, <3>2 DEF TypeOK, NodesOK, Bind
  <2>2. PodsOK'
      BY <1>0, <1>2, <2>0 DEF TypeOK, PodsOK, Bind, PodStatus, Pods
  <2>3. ContainersOK'
    <3>1. \A q \in PodId : podSpec[q].containers \in Nat
        BY Assumptions DEF Assumptions, DataAssumption, TypeOK, PodsOK, PodSpec
    <3> QED
        BY <1>0, <1>2, <3>1, ContainersType DEF TypeOK, ContainersOK, Bind
  <2>4. SchedulerOK'
    <3>1. rrIndex' \in 0 .. RRPeriod - 1
        BY <1>2, Assumptions DEF Assumptions, SchedulerAssumption, TypeOK, SchedulerOK, Bind, Advance
    <3> QED
        BY <1>0, <1>2, <3>1 DEF TypeOK, SchedulerOK, ScheduleOne, Bind, Pods
  <2> QED
      BY <2>1, <2>2, <2>3, <2>4 DEF TypeOK, ScheduleOne
<1> QED
    BY <1>1, <1>2 DEF ScheduleOne

LEMMA FinishTickType ==
    ASSUME TypeOK, FinishTick
    PROVE  TypeOK'
<1>1. NodesOK' /\ PodsOK' /\ ContainersOK'
    BY TypeFrame DEF TypeOK, FinishTick, podVars
<1>2. SchedulerOK'
    BY EmptySeq DEF TypeOK, SchedulerOK, FinishTick, podVars, Pods
<1> QED
    BY <1>1, <1>2 DEF TypeOK, FinishTick, Phase

LEMMA NextTypeOK == TypeOK /\ [Next]_vars => TypeOK'
<1> SUFFICES ASSUME TypeOK, [Next]_vars PROVE TypeOK'
    OBVIOUS
<1>1. CASE Operation
  <2>1. ASSUME NEW count \in 1 .. MaxPods, NEW spec \in PodSpecs, DeployBatch(count, spec)
        PROVE  TypeOK'
      BY <2>1, DeployBatchType
  <2>2. ASSUME NEW p \in Pods, DeletePod(p) PROVE TypeOK'
      BY <2>2, DeletePodType
  <2>3. ASSUME NEW total \in NewCapacities, AddNode(total) PROVE TypeOK'
      BY <2>3, AddNodeType
  <2>4. ASSUME NEW n \in Nodes, RemoveNode(n) \/ Cordon(n) \/ Uncordon(n) PROVE TypeOK'
      BY <2>4, RemoveNodeType, SetNodeStatusType DEF Cordon, Uncordon
  <2>5. ASSUME NEW name \in UsedStrategies, SetStrategy(name) PROVE TypeOK'
      BY <2>5, SetStrategyType
  <2> QED
      BY <1>1, <2>1, <2>2, <2>3, <2>4, <2>5 DEF Operation
<1>2. CASE TickStep
    BY <1>2, CrashNodesType, RunPodsType, HealthCheckType, ScheduleOneType, FinishTickType
    DEF TickStep
<1>3. CASE UNCHANGED vars
  <2>1. UNCHANGED <<nodeVars, podVars, schedulerVars, beat, phase>>
      BY <1>3 DEF vars
  <2> QED
      BY <2>1, TypeFrame DEF TypeOK, podVars
<1> QED
    BY <1>1, <1>2, <1>3 DEF Next

\* In every reachable state the variables have their types.
THEOREM TypeCorrect == Spec => []TypeOK
<1> QED
    BY InitTypeOK, NextTypeOK, PTL DEF Spec

-----------------------------------------------------------------------------
(* Sequences without repetitions *)

LEMMA InjectiveConcat ==
    ASSUME NEW S, NEW s \in Seq(S), NEW t \in Seq(S),
           IsInjective(s), IsInjective(t), Range(s) \cap Range(t) = {}
    PROVE  IsInjective(s \o t)
<1> SUFFICES ASSUME NEW i \in 1 .. Len(s) + Len(t), NEW j \in 1 .. Len(s) + Len(t),
                    (s \o t)[i] = (s \o t)[j]
             PROVE  i = j
    BY ConcatProperties, LenProperties DEF IsInjective
<1>0. /\ Len(s) \in Nat /\ Len(t) \in Nat
      /\ DOMAIN s = 1 .. Len(s) /\ DOMAIN t = 1 .. Len(t)
    BY LenProperties
<1>1. \A k \in 1 .. Len(s) + Len(t) :
          (s \o t)[k] = IF k <= Len(s) THEN s[k] ELSE t[k - Len(s)]
    BY ConcatProperties
<1>2. \A a \in 1 .. Len(s), b \in 1 .. Len(t) : s[a] # t[b]
    BY <1>0 DEF Range
<1>3. CASE i <= Len(s) /\ j <= Len(s)
    BY <1>0, <1>1, <1>3 DEF IsInjective
<1>4. CASE i > Len(s) /\ j > Len(s)
  <2>1. i - Len(s) \in 1 .. Len(t) /\ j - Len(s) \in 1 .. Len(t)
      BY <1>0, <1>4
  <2>2. t[i - Len(s)] = t[j - Len(s)]
      BY <1>0, <1>1, <1>4
  <2>3. i - Len(s) = j - Len(s)
      BY <1>0, <2>1, <2>2 DEF IsInjective
  <2> QED
      BY <1>0, <2>3
<1>5. CASE i <= Len(s) /\ j > Len(s)
  <2>1. j - Len(s) \in 1 .. Len(t)
      BY <1>0, <1>5
  <2> QED
      BY <1>0, <1>1, <1>2, <1>5, <2>1
<1>6. CASE i > Len(s) /\ j <= Len(s)
  <2>1. i - Len(s) \in 1 .. Len(t)
      BY <1>0, <1>6
  <2> QED
      BY <1>0, <1>1, <1>2, <1>6, <2>1
<1> QED
    BY <1>0, <1>3, <1>4, <1>5, <1>6

\* Putting the head of t at the end of s changes nothing in their concatenation.
LEMMA PassHead ==
    ASSUME NEW S, NEW s \in Seq(S), NEW t \in Seq(S), t # <<>>
    PROVE  Append(s, Head(t)) \o Tail(t) = s \o t
<1> DEFINE u == Append(s, Head(t)) \o Tail(t)
<1>1. /\ Head(t) \in S /\ Tail(t) \in Seq(S) /\ Len(Tail(t)) = Len(t) - 1
      /\ \A i \in 1 .. Len(Tail(t)) : Tail(t)[i] = t[i + 1]
    BY HeadTailProperties
<1>2. /\ Append(s, Head(t)) \in Seq(S) /\ Len(Append(s, Head(t))) = Len(s) + 1
      /\ \A i \in 1 .. Len(s) + 1 :
             Append(s, Head(t))[i] = IF i <= Len(s) THEN s[i] ELSE t[1]
    BY <1>1, AppendProperties
<1>3. Len(s) \in Nat /\ Len(t) \in Nat \ {0}
    BY LenProperties, EmptySeq
<1>4. /\ u \in Seq(S) /\ Len(u) = Len(s) + Len(t)
      /\ \A i \in 1 .. Len(s) + Len(t) : u[i] =
             IF i <= Len(s) + 1 THEN Append(s, Head(t))[i] ELSE Tail(t)[i - (Len(s) + 1)]
    BY <1>1, <1>2, <1>3, ConcatProperties
<1>5. /\ s \o t \in Seq(S) /\ Len(s \o t) = Len(s) + Len(t)
      /\ \A i \in 1 .. Len(s) + Len(t) : (s \o t)[i] =
             IF i <= Len(s) THEN s[i] ELSE t[i - Len(s)]
    BY ConcatProperties
<1> HIDE DEF u
<1>6. ASSUME NEW i \in 1 .. Len(s) + Len(t)
      PROVE  u[i] = (s \o t)[i]
  <2>1. CASE i <= Len(s)
      BY <1>2, <1>3, <1>4, <1>5, <2>1
  <2>2. CASE i = Len(s) + 1
      BY <1>2, <1>3, <1>4, <1>5, <2>2
  <2>3. CASE i > Len(s) + 1
    <3>1. /\ i - (Len(s) + 1) \in 1 .. Len(Tail(t))
          /\ i - (Len(s) + 1) + 1 = i - Len(s)
        BY <1>1, <1>3, <2>3
    <3> QED
        BY <1>1, <1>3, <1>4, <1>5, <2>3, <3>1
  <2> QED
      BY <1>3, <2>1, <2>2, <2>3
<1>7. u = s \o t
    BY <1>4, <1>5, <1>6, SeqEqual
<1> QED
    BY <1>7 DEF u

\* Taking the head of t out of a repetition-free s \o t takes that one element out.
LEMMA DropHead ==
    ASSUME NEW S, NEW s \in Seq(S), NEW t \in Seq(S), t # <<>>, IsInjective(s \o t)
    PROVE  /\ IsInjective(s \o Tail(t))
           /\ Range(s \o Tail(t)) = Range(s \o t) \ {Head(t)}
<1>1. /\ Head(t) \in S /\ Tail(t) \in Seq(S) /\ Len(Tail(t)) = Len(t) - 1
      /\ \A i \in 1 .. Len(Tail(t)) : Tail(t)[i] = t[i + 1]
    BY HeadTailProperties
<1>2. Len(s) \in Nat /\ Len(t) \in Nat \ {0}
    BY LenProperties, EmptySeq
<1> DEFINE u == s \o t
           v == s \o Tail(t)
           rank(i) == IF i <= Len(s) THEN i ELSE i + 1
<1>3. /\ DOMAIN u = 1 .. Len(s) + Len(t)
      /\ \A i \in 1 .. Len(s) + Len(t) : u[i] = IF i <= Len(s) THEN s[i] ELSE t[i - Len(s)]
    BY ConcatProperties, LenProperties
<1>4. /\ DOMAIN v = 1 .. Len(s) + Len(t) - 1
      /\ \A i \in 1 .. Len(s) + Len(t) - 1 :
             v[i] = IF i <= Len(s) THEN s[i] ELSE Tail(t)[i - Len(s)]
    BY <1>1, <1>2, ConcatProperties, LenProperties
<1>5. u[Len(s) + 1] = Head(t)
    BY <1>2, <1>3
<1> HIDE DEF u, v
<1>6. \A i \in DOMAIN v : rank(i) \in DOMAIN u /\ rank(i) # Len(s) + 1
    BY <1>2, <1>3, <1>4
<1>7. ASSUME NEW i \in DOMAIN v
      PROVE  v[i] = u[rank(i)]
  <2>1. CASE i <= Len(s)
      BY <1>2, <1>3, <1>4, <2>1
  <2>2. CASE i > Len(s)
    <3>1. /\ i - Len(s) \in 1 .. Len(Tail(t)) /\ i + 1 \in 1 .. Len(s) + Len(t)
          /\ (i + 1) - Len(s) = (i - Len(s)) + 1
        BY <1>1, <1>2, <1>4, <2>2
    <3> QED
        BY <1>1, <1>2, <1>3, <1>4, <2>2, <3>1
  <2> QED
      BY <1>2, <1>4, <2>1, <2>2
<1>8. IsInjective(v)
  <2> SUFFICES ASSUME NEW i \in DOMAIN v, NEW j \in DOMAIN v, v[i] = v[j]
               PROVE  i = j
      BY DEF IsInjective
  <2>1. rank(i) = rank(j)
      BY <1>6, <1>7 DEF IsInjective, u
  <2> QED
      BY <1>2, <1>4, <2>1
<1>9. Range(v) = Range(u) \ {Head(t)}
  <2>1. ASSUME NEW i \in DOMAIN v
        PROVE  v[i] \in Range(u) \ {Head(t)}
    <3>1. Len(s) + 1 \in DOMAIN u
        BY <1>2, <1>3
    <3>2. u[rank(i)] # u[Len(s) + 1]
        BY <1>6, <3>1 DEF IsInjective, u
    <3> QED
        BY <1>5, <1>6, <1>7, <3>2 DEF Range
  <2>2. ASSUME NEW k \in DOMAIN u, u[k] # Head(t)
        PROVE  u[k] \in Range(v)
    <3> DEFINE i == IF k <= Len(s) THEN k ELSE k - 1
    <3>1. i \in DOMAIN v /\ rank(i) = k
        BY <1>2, <1>3, <1>4, <1>5, <2>2
    <3> QED
        BY <1>7, <3>1 DEF Range
  <2> QED
      BY <2>1, <2>2 DEF Range
<1> QED
    BY <1>8, <1>9 DEF u, v

-----------------------------------------------------------------------------
(* The queue *)

\* Appending new pods to the queue appends them to what waits.
LEMMA Enqueue ==
    ASSUME NEW S, NEW s \in Seq(S), NEW q \in Seq(S), NEW added \in Seq(S),
           IsInjective(s \o q), IsInjective(added), Range(s \o q) \cap Range(added) = {}
    PROVE  /\ IsInjective(s \o (q \o added))
           /\ Range(s \o (q \o added)) = Range(s \o q) \cup Range(added)
<1>1. s \o (q \o added) = (s \o q) \o added
    BY ConcatAssociative, SMTT(60)
<1>2. s \o q \in Seq(S)
    BY ConcatProperties
<1>3. IsInjective((s \o q) \o added)
    BY <1>2, InjectiveConcat
<1>4. Range((s \o q) \o added) = Range(s \o q) \cup Range(added)
  <2> DEFINE w == s \o q
  <2>1. w \in Seq(S)
      BY <1>2
  <2> HIDE DEF w
  <2>2. Range(w \o added) = Range(w) \cup Range(added)
      BY <2>1, RangeConcatenation
  <2> QED
      BY <2>2 DEF w
<1> QED
    BY <1>1, <1>3, <1>4, Zenon

LEMMA WaitingType ==
    ASSUME TypeOK
    PROVE  /\ queue \in Seq(PodId) /\ still \in Seq(PodId)
           /\ Waiting \in Seq(Pods) /\ WaitingPods \subseteq Pods /\ Pods \subseteq PodId
<1>1. Pods \subseteq PodId
    BY PodsInPodId DEF TypeOK
<1>2. queue \in Seq(Pods) /\ still \in Seq(Pods)
    BY DEF TypeOK, SchedulerOK
<1>3. Waiting \in Seq(Pods)
    BY <1>2, ConcatProperties DEF Waiting
<1> QED
    BY <1>1, <1>2, <1>3, SeqMonotonic, RangeOfSeq DEF WaitingPods

\* The evicted pods are appended once each.
LEMMA EvictionOrderRange ==
    ASSUME PodsOK, NEW evicted \in SUBSET PodId, NEW s \in EvictionOrders(evicted)
    PROVE  Range(s) = evicted /\ IsInjective(s)
<1>1. /\ s \in [1 .. Cardinality(evicted) -> evicted]
      /\ \A p \in evicted : \E i \in DOMAIN s : s[i] = p
      /\ \A i, j \in DOMAIN s : i < j => EvictedBefore(s[i], s[j])
    BY DEF EvictionOrders
<1>2. Range(s) = evicted
    BY <1>1 DEF Range
<1>3. \A p \in PodId : ~ EvictedBefore(p, p)
    BY Assumptions DEF Assumptions, BoundsAssumption, EvictedBefore, PodsOK, NodeId, PodId, NoNode
<1>4. Cardinality(evicted) \in Nat
    BY PodIdFinite
<1>5. ASSUME NEW i \in DOMAIN s, NEW j \in DOMAIN s, s[i] = s[j]
      PROVE  i = j
    BY <1>1, <1>3, <1>4, <1>5
<1> QED
    BY <1>2, <1>5 DEF IsInjective

\* Evicting running pods puts exactly them into the queue.
LEMMA EvictAllWaiting ==
    ASSUME TypeOK, QueueDiscipline, NEW evicted \in SUBSET {p \in Pods : Running(p)},
           EvictAll(evicted), still' = still
    PROVE  IsInjective(Waiting') /\ WaitingPods' = WaitingPods \cup evicted
<1>0. evicted \in SUBSET PodId
    BY WaitingType
<1> PICK order \in EvictionOrders(evicted) : queue' = queue \o order
    BY DEF EvictAll
<1>1. order \in Seq(PodId) /\ Range(order) = evicted /\ IsInjective(order)
    BY <1>0, EvictionOrderType, EvictionOrderRange, SeqMonotonic DEF TypeOK
<1>2. WaitingPods \cap evicted = {}
    BY DEF QueueDiscipline, OnlyUnplacedWait, Running
<1> QED
    BY <1>1, <1>2, WaitingType, Enqueue DEF Waiting, WaitingPods, QueueDiscipline, WaitsOnce

LEMMA EvictAllQueue ==
    ASSUME TypeOK, QueueDiscipline, NEW evicted \in SUBSET {p \in Pods : Running(p)},
           EvictAll(evicted), still' = still
    PROVE  QueueDiscipline'
<1>0. evicted \in SUBSET PodId /\ UNCHANGED Pods
    BY WaitingType DEF EvictAll, Pods
<1>1. IsInjective(Waiting') /\ WaitingPods' = WaitingPods \cup evicted
    BY EvictAllWaiting
<1>2. NoneLost'
    BY <1>0, <1>1, WaitingType DEF NoneLost, QueueDiscipline, EvictAll
<1>3. OnlyUnplacedWait'
    BY <1>0, <1>1, WaitingType DEF OnlyUnplacedWait, QueueDiscipline, EvictAll
<1> QED
    BY <1>1, <1>2, <1>3 DEF QueueDiscipline, WaitsOnce

\* A step that neither touches the queue nor makes a waiting pod anything but deleted, nor leaves a
\* pod pending or evicted that was not.
LEMMA QueueFrame ==
    ASSUME TypeOK, QueueDiscipline, UNCHANGED <<podCount, Waiting>>,
           \A p \in Pods :
               /\ podStatus'[p] \in {"Pending", "Evicted"} => podStatus[p] \in {"Pending", "Evicted"}
               /\ p \in WaitingPods => /\ podStatus'[p] \in {"Pending", "Evicted", "Succeeded"}
                                       /\ podNode'[p] = podNode[p]
    PROVE  QueueDiscipline'
<1>1. UNCHANGED Pods
    BY DEF Pods
<1>2. UNCHANGED WaitingPods
    BY DEF WaitingPods
<1> QED
    BY <1>1, <1>2, WaitingType DEF QueueDiscipline, WaitsOnce, NoneLost, OnlyUnplacedWait

\* Deploying pods puts exactly the new ones into the queue.
LEMMA DeployBatchWaiting ==
    ASSUME TypeOK, QueueDiscipline, NEW count \in 1 .. MaxPods, NEW spec \in PodSpecs,
           DeployBatch(count, spec)
    PROVE  /\ IsInjective(Waiting')
           /\ WaitingPods' = WaitingPods \cup (podCount + 1 .. podCount + count)
           /\ Pods' = Pods \cup (podCount + 1 .. podCount + count)
           /\ Pods \cap (podCount + 1 .. podCount + count) = {}
<1> DEFINE created == podCount + 1 .. podCount + count
           added == [i \in 1 .. count |-> podCount + i]
<1>0. MaxPods \in Nat /\ podCount \in Nat /\ count \in Nat /\ podCount + count <= MaxPods
    BY Assumptions DEF Assumptions, BoundsAssumption, TypeOK, PodsOK, DeployBatch
<1>1. added \in Seq(PodId)
  <2>1. \A i \in 1 .. count : podCount + i \in PodId
      BY <1>0 DEF PodId
  <2> QED
      BY <1>0, <2>1, IsASeq
<1>2. IsInjective(added)
    BY <1>0 DEF IsInjective
<1>3. Range(added) = created
  <2>1. \A p \in created : p - podCount \in 1 .. count /\ added[p - podCount] = p
      BY <1>0
  <2>2. \A i \in 1 .. count : added[i] \in created
      BY <1>0
  <2> QED
      BY <2>1, <2>2 DEF Range
<1>4. Pods' = Pods \cup created /\ Pods \cap created = {}
    BY <1>0 DEF DeployBatch, Pods
<1>5. queue' = queue \o added /\ still' = still
    BY DEF DeployBatch
<1> HIDE DEF created, added
<1>6. IsInjective(Waiting') /\ WaitingPods' = WaitingPods \cup created
    BY <1>1, <1>2, <1>3, <1>4, <1>5, WaitingType, Enqueue
    DEF Waiting, WaitingPods, QueueDiscipline, WaitsOnce
<1> QED
    BY <1>4, <1>6 DEF created

LEMMA DeployBatchQueue ==
    ASSUME TypeOK, QueueDiscipline, NEW count \in 1 .. MaxPods, NEW spec \in PodSpecs,
           DeployBatch(count, spec)
    PROVE  QueueDiscipline'
<1> DEFINE created == podCount + 1 .. podCount + count
<1>0. MaxPods \in Nat /\ podCount \in Nat /\ count \in Nat /\ podCount + count <= MaxPods
    BY Assumptions DEF Assumptions, BoundsAssumption, TypeOK, PodsOK, DeployBatch
<1>1. /\ IsInjective(Waiting') /\ WaitingPods' = WaitingPods \cup created
      /\ Pods' = Pods \cup created /\ Pods \cap created = {}
    BY DeployBatchWaiting
<1> HIDE DEF created
<1>2. \A p \in PodId : podStatus'[p] = IF p \in created THEN "Pending" ELSE podStatus[p]
    BY DEF DeployBatch, created
<1>3. podNode' = podNode /\ \A p \in created \cap PodId : podNode[p] = NoNode
    BY <1>1 DEF DeployBatch, TypeOK, PodsOK
<1>4. Pods' \subseteq PodId
    BY <1>0 DEF DeployBatch, Pods, PodId
<1>5. NoneLost'
    BY <1>1, <1>2, <1>4, WaitingType DEF NoneLost, QueueDiscipline
<1>6. OnlyUnplacedWait'
    BY <1>1, <1>2, <1>3, <1>4, WaitingType DEF OnlyUnplacedWait, QueueDiscipline
<1> QED
    BY <1>1, <1>5, <1>6 DEF QueueDiscipline, WaitsOnce

LEMMA RunPodsQueue ==
    ASSUME TypeOK, QueueDiscipline, RunPods
    PROVE  QueueDiscipline'
<1> PICK crashed \in [PodId -> SUBSET UNION {Fragile(p) : p \in PodId}] :
        podStatus' = [p \in PodId |-> IF Running(p)
            THEN StatusAfterTick(podSpec[p].policy, crashed[p]) ELSE podStatus[p]]
    BY DEF RunPods
<1>1. UNCHANGED <<podCount, podNode, Waiting>>
    BY DEF RunPods, schedulerVars, Waiting
<1>2. \A p \in WaitingPods : ~ Running(p)
    BY DEF QueueDiscipline, OnlyUnplacedWait, Running
<1>3. \A p \in Pods : IF Running(p) THEN podStatus'[p] \in {"Running", "Failed"}
                      ELSE podStatus'[p] = podStatus[p]
    BY WaitingType DEF StatusAfterTick
<1>4. \A p \in WaitingPods : podStatus[p] \in {"Pending", "Evicted", "Succeeded"}
    BY DEF QueueDiscipline, OnlyUnplacedWait
<1> QED
    BY <1>1, <1>2, <1>3, <1>4, QueueFrame

\* A bound pod leaves the queue, the others stay.
LEMMA BindWaiting ==
    ASSUME TypeOK, QueueDiscipline, queue # <<>>, queue' = Tail(queue), still' = still
    PROVE  IsInjective(Waiting') /\ WaitingPods' = WaitingPods \ {Head(queue)}
BY WaitingType, DropHead DEF Waiting, WaitingPods, QueueDiscipline, WaitsOnce

\* A pod put aside keeps its turn.
LEMMA DeferWaiting ==
    ASSUME TypeOK, queue # <<>>, queue' = Tail(queue), Defer(Head(queue))
    PROVE  UNCHANGED Waiting
BY WaitingType, PassHead DEF Defer, Keep, Waiting

LEMMA ScheduleOneQueue ==
    ASSUME TypeOK, QueueDiscipline, ScheduleOne
    PROVE  QueueDiscipline'
<1> DEFINE p == Head(queue)
<1>0. queue # <<>> /\ queue' = Tail(queue)
    BY DEF ScheduleOne
<1>1. CASE Defer(p)
  <2>1. UNCHANGED Waiting
      BY <1>0, <1>1, DeferWaiting
  <2> QED
      BY <1>1, <2>1, QueueFrame DEF Defer, podVars, QueueDiscipline, OnlyUnplacedWait
<1>2. ASSUME NEW n \in SelectNode(strategy, Eligible(p), capacity, allocated, Request(p), rrIndex),
             Bind(p, n)
      PROVE  QueueDiscipline'
  <2>1. IsInjective(Waiting') /\ WaitingPods' = WaitingPods \ {p}
      BY <1>0, <1>2, BindWaiting DEF Bind
  <2>2. UNCHANGED Pods
      BY <1>2 DEF Bind, Pods
  <2>3. p \in PodId
      BY <1>0, WaitingType, HeadTailProperties
  <2>4. /\ podStatus' = [podStatus EXCEPT ![p] = "Running"]
        /\ \A q \in PodId : q # p => podNode'[q] = podNode[q]
      BY <1>2 DEF Bind, TypeOK, PodsOK
  <2>5. NoneLost'
      BY <2>1, <2>2, <2>3, <2>4, WaitingType DEF NoneLost, QueueDiscipline, TypeOK, PodsOK
  <2>6. OnlyUnplacedWait'
      BY <2>1, <2>2, <2>3, <2>4, WaitingType DEF OnlyUnplacedWait, QueueDiscipline, TypeOK, PodsOK
  <2> QED
      BY <2>1, <2>5, <2>6 DEF QueueDiscipline, WaitsOnce
<1> QED
    BY <1>1, <1>2 DEF ScheduleOne

LEMMA FinishTickQueue ==
    ASSUME TypeOK, QueueDiscipline, FinishTick
    PROVE  QueueDiscipline'
<1>1. queue = <<>> /\ queue' = still /\ still' = <<>>
    BY DEF FinishTick
<1>2. Waiting = still /\ Waiting' = still
    BY <1>1, WaitingType, ConcatEmptySeq DEF Waiting
<1> QED
    BY <1>2, QueueFrame DEF FinishTick, podVars, QueueDiscipline, OnlyUnplacedWait

\* Steps that leave the queue and the pods alone.
LEMMA UntouchedQueue ==
    ASSUME TypeOK, QueueDiscipline, UNCHANGED <<podVars, queue, still>>
    PROVE  QueueDiscipline'
<1>1. UNCHANGED <<podCount, podStatus, podNode, Waiting>>
    BY DEF podVars, Waiting
<1> QED
    BY <1>1, QueueFrame DEF QueueDiscipline, OnlyUnplacedWait

LEMMA InitQueue == Init => QueueDiscipline
<1> SUFFICES ASSUME Init PROVE QueueDiscipline
    OBVIOUS
<1>1. Waiting = <<>> /\ Pods = {}
    BY ConcatEmptySeq DEF Init, Waiting, Pods
<1>2. WaitingPods = {} /\ IsInjective(Waiting)
    BY <1>1 DEF WaitingPods, Range, IsInjective
<1> QED
    BY <1>1, <1>2 DEF QueueDiscipline, WaitsOnce, NoneLost, OnlyUnplacedWait

LEMMA NextQueue == TypeOK /\ QueueDiscipline /\ [Next]_vars => QueueDiscipline'
<1> SUFFICES ASSUME TypeOK, QueueDiscipline, [Next]_vars PROVE QueueDiscipline'
    OBVIOUS
<1>1. ASSUME NEW count \in 1 .. MaxPods, NEW spec \in PodSpecs, DeployBatch(count, spec)
      PROVE  QueueDiscipline'
    BY <1>1, DeployBatchQueue
<1>2. ASSUME NEW p \in Pods, DeletePod(p) PROVE QueueDiscipline'
  <2>1. UNCHANGED <<podCount, podNode, Waiting>>
      BY <1>2 DEF DeletePod, schedulerVars, Waiting
  <2>2. \A q \in PodId : podStatus'[q] = IF q = p THEN "Succeeded" ELSE podStatus[q]
      BY <1>2 DEF DeletePod, TypeOK, PodsOK
  <2> QED
      BY <2>1, <2>2, WaitingType, QueueFrame DEF QueueDiscipline, OnlyUnplacedWait
<1>3. ASSUME NEW total \in NewCapacities, AddNode(total) PROVE QueueDiscipline'
    BY <1>3, UntouchedQueue DEF AddNode, schedulerVars
<1>4. ASSUME NEW n \in Nodes, RemoveNode(n) PROVE QueueDiscipline'
    BY <1>4, EvictAllQueue DEF RemoveNode, Affected
<1>5. ASSUME NEW n \in Nodes, Cordon(n) \/ Uncordon(n) PROVE QueueDiscipline'
    BY <1>5, UntouchedQueue DEF Cordon, Uncordon, SetNodeStatus, schedulerVars
<1>6. ASSUME NEW name \in UsedStrategies, SetStrategy(name) PROVE QueueDiscipline'
    BY <1>6, UntouchedQueue DEF SetStrategy
<1>7. CASE CrashNodes
    BY <1>7, UntouchedQueue DEF CrashNodes, schedulerVars
<1>8. CASE RunPods
    BY <1>8, RunPodsQueue
<1>9. CASE HealthCheck
    BY <1>9, EvictAllQueue DEF HealthCheck, Affected
<1>10. CASE ScheduleOne
    BY <1>10, ScheduleOneQueue
<1>11. CASE FinishTick
    BY <1>11, FinishTickQueue
<1>12. CASE UNCHANGED vars
    BY <1>12, UntouchedQueue DEF vars, schedulerVars
<1> QED
    BY <1>1, <1>2, <1>3, <1>4, <1>5, <1>6, <1>7, <1>8, <1>9, <1>10, <1>11, <1>12
    DEF Next, Operation, TickStep

\* Every pod that needs a node waits exactly once, whatever happened to it, and no pod that has
\* one waits.
THEOREM QueueDisciplineHolds == Spec => []QueueDiscipline
<1>1. Init => TypeOK /\ QueueDiscipline
    BY InitTypeOK, InitQueue
<1>2. TypeOK /\ QueueDiscipline /\ [Next]_vars => (TypeOK /\ QueueDiscipline)'
    BY NextTypeOK, NextQueue
<1> QED
    BY <1>1, <1>2, PTL DEF Spec

-----------------------------------------------------------------------------
(* Placement *)

\* A step that changes neither the list of nodes, nor pod_ids, nor where the pods are that hold
\* resources.
LEMMA PlacementFrame ==
    ASSUME PlacementAgrees, UNCHANGED <<nodeCount, podIds, podNode, Nodes>>,
           \A p \in PodId : /\ Holds(p)' <=> Holds(p)
                            /\ Running(p)' => Running(p)
    PROVE  PlacementAgrees'
BY DEF PlacementAgrees

LEMMA DeployBatchPlacement ==
    ASSUME TypeOK, PlacementAgrees, NEW count \in 1 .. MaxPods, NEW spec \in PodSpecs,
           DeployBatch(count, spec)
    PROVE  PlacementAgrees'
<1>1. UNCHANGED <<nodeCount, podIds, podNode, Nodes>>
    BY DEF DeployBatch, nodeVars, Nodes
<1>2. \A p \in podCount + 1 .. podCount + count : p \notin Pods
    BY DEF TypeOK, PodsOK, Pods
<1>3. ASSUME NEW p \in PodId
      PROVE  \/ podStatus'[p] = podStatus[p]
             \/ podStatus[p] = "Absent" /\ podStatus'[p] = "Pending"
    BY <1>2 DEF DeployBatch, TypeOK, PodsOK
<1> QED
    BY <1>1, <1>3, PlacementFrame DEF Holds, Running

LEMMA DeletePodPlacement ==
    ASSUME TypeOK, PlacementAgrees, NEW p \in Pods, DeletePod(p)
    PROVE  PlacementAgrees'
<1>0. p \in PodId
    BY WaitingType
<1>1. UNCHANGED <<nodeCount, podNode, Nodes>>
    BY DEF DeletePod, Nodes
<1>2. \A q \in PodId : podStatus'[q] = IF q = p THEN "Succeeded" ELSE podStatus[q]
    BY DEF DeletePod, TypeOK, PodsOK
<1>3. \A n \in NodeId : podIds'[n] = podIds[n] \ {p}
  <2>1. \A n \in NodeId : n \notin ReleasedBy(p) => p \notin podIds[n]
      BY <1>0 DEF ReleasedBy, PlacementAgrees
  <2> QED
      BY <2>1 DEF DeletePod
<1> QED
    BY <1>1, <1>2, <1>3 DEF PlacementAgrees, Holds, Running

LEMMA AddNodePlacement ==
    ASSUME TypeOK, PlacementAgrees, NEW total \in NewCapacities, AddNode(total)
    PROVE  PlacementAgrees'
<1> DEFINE n == nodeCount + 1
<1>0. nodeCount \in Nat /\ n \in NodeId /\ nodeCount' = n /\ podNode \in [PodId -> NodeId \cup {NoNode}]
    BY DEF TypeOK, NodesOK, PodsOK, AddNode
<1>1. Nodes' = Nodes \cup {n} /\ n \notin Nodes
    BY <1>0 DEF AddNode, Nodes, TypeOK, NodesOK
<1>2. UNCHANGED <<podIds, podNode, podStatus>>
    BY DEF AddNode, podVars
<1>3. \A p \in PodId : podNode[p] # n /\ podNode[p] <= n
    BY <1>0, Assumptions DEF PlacementAgrees, Assumptions, BoundsAssumption, NodeId, NoNode
<1>4. n \in NodeId /\ nodeCount' = n
    BY <1>0
<1> HIDE DEF n
<1> QED
    BY <1>1, <1>2, <1>3, <1>4 DEF PlacementAgrees, Holds, Running

LEMMA RemoveNodePlacement ==
    ASSUME TypeOK, PlacementAgrees, NEW n \in Nodes, RemoveNode(n)
    PROVE  PlacementAgrees'
<1>1. Nodes' = Nodes \ {n} /\ nodeCount' = nodeCount
    BY DEF RemoveNode, Nodes, TypeOK, NodesOK, NodeStatus
<1>2. \A p \in PodId :
        /\ podStatus'[p] = IF p \in Affected({n}) THEN "Evicted" ELSE podStatus[p]
        /\ podNode'[p] = IF p \in Affected({n}) THEN NoNode ELSE podNode[p]
    BY DEF RemoveNode, EvictAll
<1>3. \A m \in NodeId : podIds'[m] = IF m = n THEN {} ELSE podIds[m]
    BY DEF RemoveNode, TypeOK, NodesOK, Nodes
<1>4. \A p \in PodId : p \in Affected({n}) <=> Running(p) /\ podNode[p] = n
    BY DEF Affected, Running, TypeOK, PodsOK
<1>5. nodeCount \in Nat /\ n \in NodeId
    BY DEF TypeOK, NodesOK, Nodes
<1>6. ASSUME NEW m \in NodeId, NEW p \in PodId
      PROVE  (p \in podIds[m] <=> m \in Nodes /\ podNode[p] = m /\ Holds(p))'
  <2>1. CASE m = n
      BY <1>1, <1>3, <2>1
  <2>2. CASE m # n
      BY <1>1, <1>2, <1>3, <1>4, <2>2 DEF PlacementAgrees, Holds, Running, NoNode, Nodes, NodeId
  <2> QED
      BY <2>1, <2>2
<1>7. \A p \in PodId : (Running(p) => podNode[p] \in Nodes)'
    BY <1>1, <1>2, <1>4 DEF PlacementAgrees, Running
<1>8. \A p \in PodId : podNode'[p] <= nodeCount'
    BY <1>1, <1>2, <1>5 DEF PlacementAgrees, NoNode
<1> QED
    BY <1>6, <1>7, <1>8 DEF PlacementAgrees

LEMMA HealthCheckPlacement ==
    ASSUME TypeOK, PlacementAgrees, HealthCheck
    PROVE  PlacementAgrees'
<1> DEFINE evicted == Affected({n \in NodeId : nodeStatus[n] = "Failed"})
<1>1. Nodes' = Nodes /\ nodeCount' = nodeCount
    BY DEF HealthCheck, Nodes, TypeOK, NodesOK, NodeStatus
<1>2. \A p \in PodId :
        /\ podStatus'[p] = IF p \in evicted THEN "Evicted" ELSE podStatus[p]
        /\ podNode'[p] = IF p \in evicted THEN NoNode ELSE podNode[p]
    BY DEF HealthCheck, EvictAll
<1>3. \A m \in NodeId : podIds'[m] = podIds[m] \ evicted
    BY DEF HealthCheck
<1>4. \A p \in evicted : Running(p)
    BY DEF Affected
<1>5. nodeCount \in Nat
    BY DEF TypeOK, NodesOK
<1> HIDE DEF evicted
<1>6. \A m \in NodeId, p \in PodId : (p \in podIds[m] <=> m \in Nodes /\ podNode[p] = m /\ Holds(p))'
    BY <1>1, <1>2, <1>3, <1>4 DEF PlacementAgrees, Holds
<1>7. \A p \in PodId : (Running(p) => podNode[p] \in Nodes)'
    BY <1>1, <1>2 DEF PlacementAgrees, Running
<1>8. \A p \in PodId : podNode'[p] <= nodeCount'
    BY <1>1, <1>2, <1>5 DEF PlacementAgrees, NoNode
<1> QED
    BY <1>6, <1>7, <1>8 DEF PlacementAgrees

\* The pod whose turn it is waits.
LEMMA HeadWaits ==
    ASSUME TypeOK, queue # <<>>
    PROVE  Head(queue) \in WaitingPods
<1>1. queue \in Seq(PodId) /\ still \in Seq(PodId)
    BY WaitingType
<1>2. Len(queue) \in Nat \ {0} /\ DOMAIN queue = 1 .. Len(queue)
    BY <1>1, EmptySeq, LenProperties
<1>3. Head(queue) \in Range(queue)
    BY <1>1, <1>2 DEF Range
<1> QED
    BY <1>1, <1>3, RangeConcatenation DEF WaitingPods, Waiting

\* What ScheduleOne knows of the pod it binds and of the node.
LEMMA BoundPod ==
    ASSUME TypeOK, QueueDiscipline, PlacementAgrees, queue # <<>>,
           NEW n \in SelectNode(strategy, Eligible(Head(queue)), capacity, allocated,
                                Request(Head(queue)), rrIndex)
    PROVE  /\ Head(queue) \in PodId
           /\ podNode[Head(queue)] = NoNode
           /\ ~ Holds(Head(queue))
           /\ \A m \in NodeId : Head(queue) \notin podIds[m]
           /\ n \in Nodes /\ n \in NodeId
           /\ CanFit(n, Request(Head(queue)))
<1> DEFINE p == Head(queue)
<1>1. p \in WaitingPods
    BY HeadWaits
<1>2. p \in PodId /\ podNode[p] = NoNode /\ ~ Holds(p)
    BY <1>1, WaitingType DEF QueueDiscipline, OnlyUnplacedWait, Holds
<1>3. n \in NodeId /\ CanFit(n, Request(p))
    BY SelectNodeEligible DEF Eligible
<1>4. n \in Nodes
    BY <1>3 DEF CanFit, Nodes
<1> QED
    BY <1>2, <1>3, <1>4 DEF PlacementAgrees

LEMMA ScheduleOnePlacement ==
    ASSUME TypeOK, QueueDiscipline, PlacementAgrees, ScheduleOne
    PROVE  PlacementAgrees'
<1> DEFINE p == Head(queue)
<1>0. queue # <<>>
    BY DEF ScheduleOne
<1>1. CASE Defer(p)
    BY <1>1, PlacementFrame DEF Defer, nodeVars, podVars, Nodes, Holds, Running
<1>2. ASSUME NEW n \in SelectNode(strategy, Eligible(p), capacity, allocated, Request(p), rrIndex),
             Bind(p, n)
      PROVE  PlacementAgrees'
  <2>1. /\ p \in PodId /\ n \in Nodes /\ n \in NodeId
        /\ \A m \in NodeId : p \notin podIds[m]
      BY <1>0, BoundPod
  <2> HIDE DEF p
  <2>2. UNCHANGED <<nodeCount, Nodes>>
      BY <1>2 DEF Bind, Nodes
  <2>3. \A q \in PodId : /\ podStatus'[q] = IF q = p THEN "Running" ELSE podStatus[q]
                         /\ podNode'[q] = IF q = p THEN n ELSE podNode[q]
      BY <1>2, <2>1 DEF Bind, TypeOK, PodsOK
  <2>4. \A m \in NodeId : podIds'[m] = IF m = n THEN podIds[m] \cup {p} ELSE podIds[m]
      BY <1>2, <2>1 DEF Bind, TypeOK, NodesOK
  <2>5. n <= nodeCount
      BY <2>1 DEF TypeOK, NodesOK, Nodes, NodeId
  <2>6. ASSUME NEW m \in NodeId, NEW q \in PodId
        PROVE  (q \in podIds[m] <=> m \in Nodes /\ podNode[q] = m /\ Holds(q))'
    <3>1. CASE q = p
        BY <2>1, <2>2, <2>3, <2>4, <3>1 DEF Holds
    <3>2. CASE q # p
      <4>1. q \in podIds'[m] <=> q \in podIds[m]
          BY <2>4, <3>2
      <4>2. podNode'[q] = podNode[q] /\ podStatus'[q] = podStatus[q]
          BY <2>3, <3>2
      <4> QED
          BY <2>2, <4>1, <4>2 DEF PlacementAgrees, Holds
    <3> QED
        BY <3>1, <3>2
  <2>7. \A q \in PodId : (Running(q) => podNode[q] \in Nodes)'
      BY <2>1, <2>2, <2>3 DEF PlacementAgrees, Running
  <2>8. \A q \in PodId : podNode'[q] <= nodeCount'
      BY <2>2, <2>3, <2>5 DEF PlacementAgrees
  <2> QED
      BY <2>6, <2>7, <2>8 DEF PlacementAgrees
<1> QED
    BY <1>1, <1>2 DEF ScheduleOne

LEMMA RunPodsPlacement ==
    ASSUME TypeOK, PlacementAgrees, RunPods
    PROVE  PlacementAgrees'
<1> PICK crashed \in [PodId -> SUBSET UNION {Fragile(p) : p \in PodId}] :
        podStatus' = [p \in PodId |-> IF Running(p)
            THEN StatusAfterTick(podSpec[p].policy, crashed[p]) ELSE podStatus[p]]
    BY DEF RunPods
<1>1. UNCHANGED <<nodeCount, podIds, podNode, Nodes>>
    BY DEF RunPods, nodeVars, Nodes
<1>2. \A p \in PodId : /\ Holds(p)' <=> Holds(p)
                       /\ Running(p)' => Running(p)
    BY DEF Holds, Running, StatusAfterTick
<1> QED
    BY <1>1, <1>2, PlacementFrame

LEMMA NextPlacement ==
    TypeOK /\ QueueDiscipline /\ PlacementAgrees /\ [Next]_vars => PlacementAgrees'
<1> SUFFICES ASSUME TypeOK, QueueDiscipline, PlacementAgrees, [Next]_vars PROVE PlacementAgrees'
    OBVIOUS
<1>1. ASSUME NEW count \in 1 .. MaxPods, NEW spec \in PodSpecs, DeployBatch(count, spec)
      PROVE  PlacementAgrees'
    BY <1>1, DeployBatchPlacement
<1>2. ASSUME NEW p \in Pods, DeletePod(p) PROVE PlacementAgrees'
    BY <1>2, DeletePodPlacement
<1>3. ASSUME NEW total \in NewCapacities, AddNode(total) PROVE PlacementAgrees'
    BY <1>3, AddNodePlacement
<1>4. ASSUME NEW n \in Nodes, RemoveNode(n) PROVE PlacementAgrees'
    BY <1>4, RemoveNodePlacement
<1>5. ASSUME NEW n \in Nodes, Cordon(n) \/ Uncordon(n) PROVE PlacementAgrees'
  <2>1. UNCHANGED <<nodeCount, podIds, podNode, podStatus, Nodes>>
      BY <1>5 DEF Cordon, Uncordon, SetNodeStatus, podVars, Nodes, TypeOK, NodesOK
  <2> QED
      BY <2>1, PlacementFrame DEF Holds, Running
<1>6. ASSUME NEW name \in UsedStrategies, SetStrategy(name) PROVE PlacementAgrees'
    BY <1>6, PlacementFrame DEF SetStrategy, nodeVars, podVars, Nodes, Holds, Running
<1>7. CASE CrashNodes
  <2>1. UNCHANGED <<nodeCount, podIds, podNode, podStatus, Nodes>>
      BY <1>7 DEF CrashNodes, MayCrash, podVars, Nodes
  <2> QED
      BY <2>1, PlacementFrame DEF Holds, Running
<1>8. CASE RunPods
    BY <1>8, RunPodsPlacement
<1>9. CASE HealthCheck
    BY <1>9, HealthCheckPlacement
<1>10. CASE ScheduleOne
    BY <1>10, ScheduleOnePlacement
<1>11. CASE FinishTick
    BY <1>11, PlacementFrame DEF FinishTick, nodeVars, podVars, Nodes, Holds, Running
<1>12. CASE UNCHANGED vars
    BY <1>12, PlacementFrame DEF vars, nodeVars, podVars, Nodes, Holds, Running
<1> QED
    BY <1>1, <1>2, <1>3, <1>4, <1>5, <1>6, <1>7, <1>8, <1>9, <1>10, <1>11, <1>12
    DEF Next, Operation, TickStep

LEMMA InitPlacement == Init => PlacementAgrees
BY Assumptions DEF Assumptions, BoundsAssumption, Init, PlacementAgrees, Holds, Running, NoNode

\* What the scheduler knows at every moment: the three invariants that carry each other.
Consistent == TypeOK /\ QueueDiscipline /\ PlacementAgrees

LEMMA ConsistentInductive ==
    /\ Init => Consistent
    /\ Consistent /\ [Next]_vars => Consistent'
BY InitTypeOK, NextTypeOK, InitQueue, NextQueue, InitPlacement, NextPlacement DEF Consistent

\* A node's pod_ids and the pods' node_id always tell the same story.
THEOREM PlacementHolds == Spec => []PlacementAgrees
<1>1. Consistent => PlacementAgrees
    BY DEF Consistent
<1> QED
    BY <1>1, ConsistentInductive, PTL DEF Spec

-----------------------------------------------------------------------------
(* The ledger *)

\* What a step owes: no phantom allocation appears and, if clients delete a pod once only, an exact
\* ledger stays exact.
LedgerKept == NoPhantomAllocation' /\ (~ RepeatedDeletes /\ ExactLedger => ExactLedger')

LEMMA PodIdsListed ==
    ASSUME Consistent, NEW n \in NodeId
    PROVE  podIds[n] \subseteq Pods /\ podIds[n] \in SUBSET PodId /\ (n \notin Nodes => podIds[n] = {})
<1>1. podIds[n] \in SUBSET PodId
    BY DEF Consistent, TypeOK, NodesOK
<1>2. \A p \in podIds[n] : Holds(p) /\ n \in Nodes
    BY <1>1 DEF Consistent, PlacementAgrees
<1>3. \A p \in podIds[n] : p \in Pods
    BY <1>1, <1>2 DEF Holds, Consistent, TypeOK, PodsOK
<1> QED
    BY <1>1, <1>2, <1>3

\* T and left are two parts of the pods of S.
Parts(S, T, left) == S \in SUBSET PodId /\ T \in SUBSET S /\ left = S \ T

\* Taking pods off a node together with what they ask for keeps an understated ledger understated
\* and an exact one exact.
LEMMA ReleaseLedger ==
    ASSUME NEW specs, NEW used \in Amount, NEW S, NEW T, NEW left, Parts(S, T, left),
           \A r \in Resource : used[r] <= TotalRequest(specs, S)[r]
    PROVE  /\ \A r \in Resource :
                  Release(used, TotalRequest(specs, T))[r] <= TotalRequest(specs, left)[r]
           /\ used = TotalRequest(specs, S) =>
                  Release(used, TotalRequest(specs, T)) = TotalRequest(specs, left)
<1> DEFINE total == TotalRequest(specs, S)
           gone  == TotalRequest(specs, T)
           rest  == TotalRequest(specs, S \ T)
<1>0. S \in SUBSET PodId /\ T \in SUBSET S /\ left = S \ T
    BY DEF Parts
<1>1. total \in Amount /\ gone \in Amount /\ rest \in Amount
    BY <1>0, TotalRequestType
<1>2. \A r \in Resource : rest[r] = total[r] - gone[r]
    BY <1>0, TotalOfDifference
<1>3. \A r \in Resource : used[r] <= total[r]
    OBVIOUS
<1> HIDE DEF total, gone, rest
<1>4. ASSUME NEW r \in Resource
      PROVE  /\ Release(used, gone)[r] <= rest[r]
             /\ used[r] = total[r] => Release(used, gone)[r] = rest[r]
  <2>1. used[r] \in Nat /\ total[r] \in Nat /\ gone[r] \in Nat /\ rest[r] \in Nat
      BY <1>1 DEF Amount
  <2>2. Release(used, gone)[r] = IF gone[r] <= used[r] THEN used[r] - gone[r] ELSE 0
      BY DEF Release
  <2> QED
      BY <1>2, <1>3, <2>1, <2>2
<1>5. used = total => Release(used, gone) = rest
  <2>1. Release(used, gone) \in [Resource -> Nat] /\ rest \in [Resource -> Nat]
      BY <1>1, ReleaseType DEF Amount
  <2> QED
      BY <1>4, <2>1
<1>6. \A r \in Resource : Release(used, gone)[r] <= rest[r]
    BY <1>4
<1>7. TotalRequest(specs, left) = rest
    BY <1>0, Zenon DEF rest
<1> QED
    BY <1>5, <1>6, <1>7 DEF total, gone

\* The same on a node that gives up the pods of T.
LEMMA ReleaseOnNode ==
    ASSUME Consistent, NoPhantomAllocation, NEW n \in NodeId, NEW T, Parts(podIds[n], T, podIds'[n]),
           allocated'[n] = Release(allocated[n], TotalRequest(podSpec, T))
    PROVE  /\ \A r \in Resource : /\ allocated'[n][r] <= capacity[n][r]
                                  /\ allocated'[n][r] <= TotalRequest(podSpec, podIds'[n])[r]
           /\ allocated[n] = TotalRequest(podSpec, podIds[n]) =>
                  allocated'[n] = TotalRequest(podSpec, podIds'[n])
<1> DEFINE used == allocated[n]
           gone == TotalRequest(podSpec, T)
<1>1. used \in Amount /\ gone \in Amount
    BY TotalRequestType DEF Parts, Consistent, TypeOK, NodesOK
<1>2. \A r \in Resource : used[r] <= TotalRequest(podSpec, podIds[n])[r]
    BY DEF NoPhantomAllocation, Load
<1>3. /\ \A r \in Resource : Release(used, gone)[r] <= TotalRequest(podSpec, podIds'[n])[r]
      /\ used = TotalRequest(podSpec, podIds[n]) =>
             Release(used, gone) = TotalRequest(podSpec, podIds'[n])
    BY <1>1, <1>2, ReleaseLedger
<1>4. \A r \in Resource : Release(used, gone)[r] <= capacity[n][r]
  <2>1. capacity[n] \in Amount /\ \A r \in Resource : used[r] <= capacity[n][r]
      BY DEF Consistent, TypeOK, NodesOK, NoPhantomAllocation
  <2>2. /\ Release(used, gone) \in Amount
        /\ \A r \in Resource : Release(used, gone)[r] <= used[r]
      BY <1>1, ReleaseType
  <2> QED
      BY <1>1, <2>1, <2>2 DEF Amount
<1> QED
    BY <1>3, <1>4

\* Steps that leave the ledgers, the pods on the nodes and those pods' requests alone.
LEMMA LedgerFrame ==
    ASSUME Consistent, NoPhantomAllocation, UNCHANGED <<capacity, allocated, podIds>>,
           \A p \in Pods : podSpec'[p] = podSpec[p]
    PROVE  LedgerKept
<1>1. \A n \in NodeId : Load(podIds[n])' = Load(podIds[n])
    BY PodIdsListed, TotalFrame DEF Load
<1> QED
    BY <1>1 DEF LedgerKept, NoPhantomAllocation, ExactLedger

LEMMA DeletePodLedger ==
    ASSUME Consistent, NoPhantomAllocation, NEW p \in Pods, DeletePod(p)
    PROVE  LedgerKept
<1>0. p \in PodId
    BY WaitingType DEF Consistent
<1>1. podSpec' = podSpec /\ capacity' = capacity
    BY DEF DeletePod
<1>2. Request(p) = TotalRequest(podSpec, {p}) /\ Request(p) \in Amount
    BY <1>0, TotalOfOne, RequestType DEF Request, Consistent, TypeOK, PodsOK
<1>3. ~ RepeatedDeletes => \A n \in ReleasedBy(p) : p \in podIds[n]
  <2> SUFFICES ASSUME ~ RepeatedDeletes, NEW n \in ReleasedBy(p)
               PROVE  p \in podIds[n]
      OBVIOUS
  <2>1. n \in Nodes /\ n \in NodeId /\ podNode[p] = n
      BY DEF ReleasedBy, Nodes
  <2>2. podStatus[p] \notin {"Succeeded", "Absent"}
      BY <1>0 DEF DeletePod, Consistent, TypeOK, PodsOK
  <2>3. podStatus[p] \notin {"Pending", "Evicted"}
      BY <2>1 DEF Consistent, QueueDiscipline, NoneLost, OnlyUnplacedWait, NodeId, NoNode
  <2>4. Holds(p)
      BY <1>0, <2>2, <2>3 DEF Holds, Consistent, TypeOK, PodsOK, PodStatus
  <2> QED
      BY <1>0, <2>1, <2>4 DEF Consistent, PlacementAgrees
<1>4. ASSUME NEW n \in NodeId
      PROVE  /\ \A r \in Resource : /\ allocated'[n][r] <= capacity[n][r]
                                    /\ allocated'[n][r] <= TotalRequest(podSpec, podIds'[n])[r]
             /\ ~ RepeatedDeletes /\ allocated[n] = TotalRequest(podSpec, podIds[n]) =>
                    allocated'[n] = TotalRequest(podSpec, podIds'[n])
  <2>0. /\ allocated[n] \in Amount /\ capacity[n] \in Amount /\ podIds[n] \in SUBSET PodId
        /\ TotalRequest(podSpec, podIds[n]) \in Amount
        /\ \A r \in Resource : /\ allocated[n][r] <= capacity[n][r]
                               /\ allocated[n][r] <= TotalRequest(podSpec, podIds[n])[r]
      BY TotalRequestType DEF Consistent, TypeOK, NodesOK, NoPhantomAllocation, Load
  <2>1. CASE n \notin ReleasedBy(p)
      BY <2>0, <2>1 DEF DeletePod
  <2>2. CASE n \in ReleasedBy(p)
    <3>1. allocated'[n] = Release(allocated[n], Request(p)) /\ podIds'[n] = podIds[n] \ {p}
        BY <2>2 DEF DeletePod
    <3>2. \A r \in Resource : allocated'[n][r] \in Nat /\ allocated'[n][r] <= allocated[n][r]
      <4>1. /\ Release(allocated[n], Request(p)) \in Amount
            /\ \A r \in Resource : Release(allocated[n], Request(p))[r] <= allocated[n][r]
          BY <1>2, <2>0, ReleaseType
      <4> QED
          BY <3>1, <4>1 DEF Amount
    <3>3. \A r \in Resource : allocated'[n][r] <= capacity[n][r]
        BY <2>0, <3>2 DEF Amount
    <3>4. CASE p \in podIds[n]
      <4>1. Parts(podIds[n], {p}, podIds'[n])
          BY <2>0, <3>1, <3>4 DEF Parts
      <4>2. allocated'[n] = Release(allocated[n], TotalRequest(podSpec, {p}))
          BY <1>2, <3>1, Zenon
      <4> QED
          BY <4>1, <4>2, ReleaseOnNode
    <3>5. CASE p \notin podIds[n]
      <4>1. podIds'[n] = podIds[n]
          BY <3>1, <3>5
      <4>2. \A r \in Resource : allocated'[n][r] <= TotalRequest(podSpec, podIds[n])[r]
          BY <2>0, <3>2 DEF Amount
      <4> QED
          BY <1>3, <2>2, <3>3, <3>5, <4>1, <4>2
    <3> QED
        BY <3>4, <3>5
  <2> QED
      BY <2>1, <2>2
<1> QED
    BY <1>1, <1>4 DEF LedgerKept, NoPhantomAllocation, ExactLedger, Load

LEMMA AddNodeLedger ==
    ASSUME Consistent, NoPhantomAllocation, NEW total \in NewCapacities, AddNode(total)
    PROVE  LedgerKept
<1> DEFINE m == nodeCount + 1
<1>1. m \in NodeId /\ podIds[m] = {}
  <2>1. m \in NodeId
      BY DEF AddNode
  <2>2. m \notin Nodes
      BY <2>1 DEF Nodes, Consistent, TypeOK, NodesOK
  <2> QED
      BY <2>1, <2>2, PodIdsListed
<1>2. UNCHANGED <<allocated, podIds, podSpec>> /\ capacity' = [capacity EXCEPT ![m] = total]
    BY DEF AddNode, podVars
<1>3. capacity \in [NodeId -> Amount] /\ allocated \in [NodeId -> Amount]
    BY DEF Consistent, TypeOK, NodesOK
<1>4. \A r \in Resource : allocated[m][r] <= total[r]
  <2>1. \A r \in Resource : allocated[m][r] <= Nothing[r]
      BY <1>1, TotalOfNone DEF NoPhantomAllocation, Load
  <2>2. total \in Amount /\ allocated[m] \in Amount
      BY <1>1, <1>3, Assumptions DEF Assumptions, DataAssumption
  <2>3. ASSUME NEW r \in Resource
        PROVE  allocated[m][r] <= total[r]
    <3>1. allocated[m][r] \in Nat /\ total[r] \in Nat /\ Nothing[r] = 0
        BY <2>2 DEF Nothing, Amount
    <3> QED
        BY <2>1, <3>1
  <2> QED
      BY <2>3
<1> HIDE DEF m
<1>5. \A n \in NodeId : Load(podIds[n])' = Load(podIds[n])
    BY <1>2 DEF Load
<1> QED
    BY <1>1, <1>2, <1>3, <1>4, <1>5 DEF LedgerKept, NoPhantomAllocation, ExactLedger

LEMMA RemoveNodeLedger ==
    ASSUME Consistent, NoPhantomAllocation, NEW m \in Nodes, RemoveNode(m)
    PROVE  LedgerKept
<1>1. /\ podSpec' = podSpec /\ m \in NodeId
      /\ \A n \in NodeId : /\ capacity'[n] = IF n = m THEN Nothing ELSE capacity[n]
                           /\ allocated'[n] = IF n = m THEN Nothing ELSE allocated[n]
                           /\ podIds'[n] = IF n = m THEN {} ELSE podIds[n]
    BY DEF RemoveNode, EvictAll, Nodes, Consistent, TypeOK, NodesOK
<1>2. TotalRequest(podSpec, {}) = Nothing /\ \A r \in Resource : Nothing[r] <= Nothing[r]
    BY TotalOfNone DEF Nothing
<1> QED
    BY <1>1, <1>2 DEF LedgerKept, NoPhantomAllocation, ExactLedger, Load

LEMMA HealthCheckLedger ==
    ASSUME Consistent, NoPhantomAllocation, HealthCheck
    PROVE  LedgerKept
<1> DEFINE evicted == Affected({n \in NodeId : nodeStatus[n] = "Failed"})
           lost(n) == {p \in evicted : podNode[p] = n}
<1>1. podSpec' = podSpec /\ capacity' = capacity
    BY DEF HealthCheck, EvictAll
<1>2. \A n \in NodeId : /\ allocated'[n] = Release(allocated[n], TotalRequest(podSpec, lost(n)))
                        /\ podIds'[n] = podIds[n] \ evicted
    BY DEF HealthCheck, Load
<1>3. \A n \in NodeId : lost(n) \in SUBSET podIds[n] /\ podIds[n] \ evicted = podIds[n] \ lost(n)
  <2>1. \A p \in evicted : Running(p) /\ p \in PodId
      BY WaitingType DEF Affected, Consistent
  <2>2. \A n \in NodeId : \A p \in lost(n) : p \in podIds[n]
      BY <2>1 DEF Consistent, PlacementAgrees, Holds, Running
  <2>3. \A n \in NodeId : \A p \in podIds[n] : podNode[p] = n
      BY PodIdsListed DEF Consistent, PlacementAgrees
  <2> QED
      BY <2>2, <2>3
<1> HIDE DEF evicted, lost
<1>4. ASSUME NEW n \in NodeId
      PROVE  /\ \A r \in Resource : /\ allocated'[n][r] <= capacity[n][r]
                                    /\ allocated'[n][r] <= TotalRequest(podSpec, podIds'[n])[r]
             /\ allocated[n] = TotalRequest(podSpec, podIds[n]) =>
                    allocated'[n] = TotalRequest(podSpec, podIds'[n])
  <2>1. Parts(podIds[n], lost(n), podIds'[n])
      BY <1>2, <1>3, PodIdsListed DEF Parts
  <2> QED
      BY <1>2, <2>1, ReleaseOnNode
<1> QED
    BY <1>1, <1>4 DEF LedgerKept, NoPhantomAllocation, ExactLedger, Load

LEMMA ScheduleOneLedger ==
    ASSUME Consistent, NoPhantomAllocation, ScheduleOne
    PROVE  LedgerKept
<1> DEFINE p == Head(queue)
<1>0. queue # <<>>
    BY DEF ScheduleOne
<1>1. CASE Defer(p)
    BY <1>1, LedgerFrame DEF Defer, nodeVars, podVars
<1>2. ASSUME NEW m \in SelectNode(strategy, Eligible(p), capacity, allocated, Request(p), rrIndex),
             Bind(p, m)
      PROVE  LedgerKept
  <2>1. p \in PodId /\ m \in NodeId /\ p \notin podIds[m] /\ CanFit(m, Request(p))
      BY <1>0, BoundPod DEF Consistent
  <2> HIDE DEF p
  <2>2. Request(p) = TotalRequest(podSpec, {p}) /\ Request(p) \in Amount
      BY <2>1, TotalOfOne, RequestType DEF Request, Consistent, TypeOK, PodsOK
  <2>3. /\ podSpec' = podSpec /\ capacity' = capacity
        /\ \A n \in NodeId :
              /\ allocated'[n] = IF n = m THEN Allocate(allocated[n], Request(p)) ELSE allocated[n]
              /\ podIds'[n] = IF n = m THEN podIds[n] \cup {p} ELSE podIds[n]
      BY <1>2, <2>1 DEF Bind, Consistent, TypeOK, NodesOK
  <2>4. /\ allocated[m] \in Amount /\ capacity[m] \in Amount /\ podIds[m] \in SUBSET PodId
        /\ TotalRequest(podSpec, podIds[m]) \in Amount
        /\ \A r \in Resource : allocated[m][r] <= TotalRequest(podSpec, podIds[m])[r]
      BY <2>1, TotalRequestType DEF Consistent, TypeOK, NodesOK, NoPhantomAllocation, Load
  <2> DEFINE grown == TotalRequest(podSpec, podIds[m] \cup {p})
  <2>5. \A r \in Resource : grown[r] = TotalRequest(podSpec, podIds[m])[r] + Request(p)[r]
    <3>1. {p} \in SUBSET PodId /\ podIds[m] \cap {p} = {}
        BY <2>1
    <3>2. ASSUME NEW r \in Resource
          PROVE  grown[r] = TotalRequest(podSpec, podIds[m])[r] + TotalRequest(podSpec, {p})[r]
        BY <2>4, <3>1, TotalOfUnion
    <3> QED
        BY <2>2, <3>2
  <2>6. grown \in Amount /\ TotalRequest(podSpec, podIds'[m]) = grown
    <3>1. grown \in Amount
        BY <2>1, <2>4, TotalRequestType
    <3>2. podIds'[m] = podIds[m] \cup {p}
        BY <2>1, <2>3
    <3> QED
        BY <3>1, <3>2, Zenon
  <2> HIDE DEF grown
  <2>7. \A r \in Resource : /\ Allocate(allocated[m], Request(p))[r] <= capacity[m][r]
                            /\ Allocate(allocated[m], Request(p))[r] <= grown[r]
    <3> SUFFICES ASSUME NEW r \in Resource
                 PROVE  /\ allocated[m][r] + Request(p)[r] <= capacity[m][r]
                        /\ allocated[m][r] + Request(p)[r] <= grown[r]
        BY DEF Allocate
    <3>1. Request(p)[r] <= capacity[m][r] - allocated[m][r]
        BY <2>1 DEF CanFit, FitsWithin, Available
    <3>2. /\ allocated[m][r] \in Nat /\ capacity[m][r] \in Nat /\ Request(p)[r] \in Nat
          /\ TotalRequest(podSpec, podIds[m])[r] \in Nat
        BY <2>2, <2>4 DEF Amount
    <3>3. allocated[m][r] <= TotalRequest(podSpec, podIds[m])[r]
        BY <2>4
    <3>4. grown[r] = TotalRequest(podSpec, podIds[m])[r] + Request(p)[r]
        BY <2>5
    <3> QED
        BY <3>1, <3>2, <3>3, <3>4
  <2>8. allocated[m] = TotalRequest(podSpec, podIds[m]) => Allocate(allocated[m], Request(p)) = grown
      BY <2>2, <2>4, <2>5, <2>6 DEF Allocate, Amount
  <2>9. ASSUME NEW n \in NodeId, n # m
        PROVE  UNCHANGED <<allocated[n], podIds[n]>>
      BY <2>3, <2>9
  <2> QED
      BY <2>3, <2>6, <2>7, <2>8, <2>9 DEF LedgerKept, NoPhantomAllocation, ExactLedger, Load
<1> QED
    BY <1>1, <1>2 DEF ScheduleOne

LEMMA NextLedger == Consistent /\ NoPhantomAllocation /\ [Next]_vars => LedgerKept
<1> SUFFICES ASSUME Consistent, NoPhantomAllocation, [Next]_vars PROVE LedgerKept
    OBVIOUS
<1>1. ASSUME NEW count \in 1 .. MaxPods, NEW spec \in PodSpecs, DeployBatch(count, spec)
      PROVE  LedgerKept
  <2>1. \A p \in Pods : podSpec'[p] = podSpec[p]
      BY <1>1, WaitingType DEF DeployBatch, Pods, Consistent, TypeOK, PodsOK
  <2> QED
      BY <1>1, <2>1, LedgerFrame DEF DeployBatch, nodeVars
<1>2. ASSUME NEW p \in Pods, DeletePod(p) PROVE LedgerKept
    BY <1>2, DeletePodLedger
<1>3. ASSUME NEW total \in NewCapacities, AddNode(total) PROVE LedgerKept
    BY <1>3, AddNodeLedger
<1>4. ASSUME NEW n \in Nodes, RemoveNode(n) PROVE LedgerKept
    BY <1>4, RemoveNodeLedger
<1>5. ASSUME NEW n \in Nodes, Cordon(n) \/ Uncordon(n) PROVE LedgerKept
    BY <1>5, LedgerFrame DEF Cordon, Uncordon, SetNodeStatus, podVars
<1>6. ASSUME NEW name \in UsedStrategies, SetStrategy(name) PROVE LedgerKept
    BY <1>6, LedgerFrame DEF SetStrategy, nodeVars, podVars
<1>7. CASE CrashNodes
    BY <1>7, LedgerFrame DEF CrashNodes, podVars
<1>8. CASE RunPods
    BY <1>8, LedgerFrame DEF RunPods, nodeVars
<1>9. CASE HealthCheck
    BY <1>9, HealthCheckLedger
<1>10. CASE ScheduleOne
    BY <1>10, ScheduleOneLedger
<1>11. CASE FinishTick
    BY <1>11, LedgerFrame DEF FinishTick, nodeVars, podVars
<1>12. CASE UNCHANGED vars
    BY <1>12, LedgerFrame DEF vars, nodeVars, podVars
<1> QED
    BY <1>1, <1>2, <1>3, <1>4, <1>5, <1>6, <1>7, <1>8, <1>9, <1>10, <1>11, <1>12
    DEF Next, Operation, TickStep

LEMMA InitLedger == Init => NoPhantomAllocation /\ ExactLedger
<1> SUFFICES ASSUME Init PROVE NoPhantomAllocation /\ ExactLedger
    OBVIOUS
<1>1. \A n \in NodeId : allocated[n] = Nothing /\ Load(podIds[n]) = Nothing /\ capacity[n] \in Amount
    BY InitTypeOK, TotalOfNone DEF Init, Load, TypeOK, NodesOK
<1>2. \A a \in Amount : \A r \in Resource : Nothing[r] <= a[r]
    BY DEF Nothing, Amount
<1> QED
    BY <1>1, <1>2, NothingType DEF NoPhantomAllocation, ExactLedger

\* No pool counts more than its capacity, or more than the pods on its node ask for, however often
\* clients delete their pods.
THEOREM NoPhantomAllocationHolds == Spec => []NoPhantomAllocation
<1>1. Init => Consistent /\ NoPhantomAllocation
    BY ConsistentInductive, InitLedger
<1>2. Consistent /\ NoPhantomAllocation /\ [Next]_vars => (Consistent /\ NoPhantomAllocation)'
    BY ConsistentInductive, NextLedger DEF LedgerKept
<1> QED
    BY <1>1, <1>2, PTL DEF Spec

\* If clients delete a pod only once, every pool counts exactly what the pods on its node ask for.
THEOREM ExactLedgerHolds ==
    ASSUME ~ RepeatedDeletes
    PROVE  Spec => []ExactLedger
<1> DEFINE Inv == Consistent /\ NoPhantomAllocation /\ ExactLedger
<1>1. Init => Inv
    BY ConsistentInductive, InitLedger
<1>2. Inv /\ [Next]_vars => Inv'
    BY ConsistentInductive, NextLedger DEF LedgerKept
<1>3. Inv => ExactLedger
    OBVIOUS
<1> QED
    BY <1>1, <1>2, <1>3, PTL DEF Spec

\* If clients delete a pod only once, the pods on a node fit in it together.
THEOREM NoOvercommitHolds ==
    ASSUME ~ RepeatedDeletes
    PROVE  Spec => []NoOvercommit
<1>1. NoPhantomAllocation /\ ExactLedger => NoOvercommit
    BY DEF NoPhantomAllocation, ExactLedger, NoOvercommit
<1> QED
    BY <1>1, NoPhantomAllocationHolds, ExactLedgerHolds, PTL

=============================================================================
