------------------------ MODULE PlacementHistoryProofs ------------------------
(***************************************************************************)
(* Round-robin takes turns, for any number of nodes.                       *)
(***************************************************************************)
EXTENDS ScanProofs

\* How many nodes of S come before n.
Rank(S, n) == Cardinality({m \in S : m < n})

\* How many placements ago it was the turn of n, if S were eligible all the time: the node before
\* the one at the index had it last.
Ago(S, index, n) ==
    LET at == index % Cardinality(S)
    IN  IF Rank(S, n) < at THEN at - Rank(S, n) ELSE at - Rank(S, n) + Cardinality(S)

\* The nodes of the present round are those whose turn it was most recently.
RecentRound ==
    strategy = "round-robin" /\ round # {} =>
        \E j \in 1 .. Cardinality(steady) : round = {n \in steady : Ago(steady, rrIndex, n) <= j}

\* The record is of listed nodes.
HistoryOK ==
    /\ steady \in SUBSET NodeId
    /\ round \in SUBSET steady
    /\ RecentRound

-----------------------------------------------------------------------------
(* Numbers *)

LEMMA Remainder ==
    ASSUME NEW k \in Nat, k > 0, NEW q \in Nat, NEW r \in 0 .. k - 1
    PROVE  (k * q + r) % k = r
OBVIOUS

LEMMA NextRemainder ==
    ASSUME NEW a \in Nat, NEW k \in Nat, k > 0
    PROVE  (a + 1) % k = IF a % k = k - 1 THEN 0 ELSE (a % k) + 1
<1>1. PICK q \in Nat : a = k * q + (a % k)
  <2>1. a \div k \in Nat /\ a = k * (a \div k) + (a % k)
      OBVIOUS
  <2> QED
      BY <2>1
<1>2. a % k \in 0 .. k - 1
    OBVIOUS
<1>3. CASE a % k = k - 1
  <2>1. a + 1 = k * (q + 1) + 0
      BY <1>1, <1>3
  <2>2. (k * (q + 1) + 0) % k = 0
    <3>1. q + 1 \in Nat /\ 0 \in 0 .. k - 1
        OBVIOUS
    <3> QED
        BY <3>1, Remainder
  <2> QED
      BY <1>3, <2>1, <2>2, Zenon
<1>4. CASE a % k # k - 1
  <2>1. a + 1 = k * q + ((a % k) + 1) /\ (a % k) + 1 \in 0 .. k - 1
      BY <1>1, <1>2, <1>4
  <2> QED
      BY <1>4, <2>1, Remainder
<1> QED
    BY <1>3, <1>4

\* The bounded index goes through the same remainders as an unbounded one.
LEMMA NextIndex ==
    ASSUME NEW index \in 0 .. RRPeriod - 1, NEW k \in NodeId
    PROVE  /\ index % k \in 0 .. k - 1
           /\ ((index + 1) % RRPeriod) % k = IF index % k = k - 1 THEN 0 ELSE (index % k) + 1
<1>1. RRPeriod \in Nat /\ RRPeriod > 0 /\ RRPeriod % k = 0 /\ k \in Nat /\ k > 0
  <2>1. MaxNodes \in Nat
      BY Assumptions DEF Assumptions, BoundsAssumption
  <2>2. k \in Nat /\ k > 0
      BY <2>1 DEF NodeId
  <2>3. RRPeriod \in Nat /\ RRPeriod > 0 /\ RRPeriod % k = 0
      BY Assumptions DEF Assumptions, SchedulerAssumption
  <2> QED
      BY <2>2, <2>3
<1>2. (index + 1) % RRPeriod = IF index + 1 = RRPeriod THEN 0 ELSE index + 1
    BY <1>1
<1>3. ((index + 1) % RRPeriod) % k = (index + 1) % k
    BY <1>1, <1>2
<1>4. index \in Nat
    BY <1>1
<1>5. (index + 1) % k = IF index % k = k - 1 THEN 0 ELSE (index % k) + 1
    BY <1>1, <1>4, NextRemainder
<1>6. index % k \in 0 .. k - 1
    BY <1>1, <1>4
<1> QED
    BY <1>3, <1>5, <1>6

\* No two nodes have the same rank.
LEMMA RankType ==
    ASSUME NEW S \in SUBSET NodeId, NEW n \in S
    PROVE  /\ Cardinality(S) \in NodeId
           /\ Rank(S, n) \in 0 .. Cardinality(S) - 1
           /\ \A m \in S : Rank(S, m) = Rank(S, n) => m = n
<1> DEFINE k == Cardinality(S)
<1>1. IsFiniteSet(S) /\ k \in Nat /\ k # 0
    BY NodeIdFinite, FS_EmptySet
<1>2. k <= MaxNodes
  <2>1. MaxNodes \in Nat
      BY Assumptions DEF Assumptions, BoundsAssumption
  <2>2. IsFiniteSet(NodeId) /\ Cardinality(NodeId) = MaxNodes
      BY <2>1, FS_Interval DEF NodeId
  <2> QED
      BY <2>2, FS_Subset
<1>3. \A m \in S : \E j \in 1 .. k : InListOrder(S)[j] = m /\ Rank(S, m) = j - 1
  <2>1. \A m \in S : \E j \in 1 .. k : InListOrder(S)[j] = m
      BY ListOfAll
  <2>2. \A j \in 1 .. k : Rank(S, InListOrder(S)[j]) = j - 1
      BY RankInList DEF Rank
  <2> QED
      BY <2>1, <2>2
<1>4. MaxNodes \in Nat
    BY Assumptions DEF Assumptions, BoundsAssumption
<1> HIDE DEF k
<1>5. \A m \in S : Rank(S, m) \in 0 .. k - 1
    BY <1>1, <1>3
<1>6. ASSUME NEW m \in S, Rank(S, m) = Rank(S, n)
      PROVE  m = n
  <2>1. PICK i \in 1 .. k : InListOrder(S)[i] = m /\ Rank(S, m) = i - 1
      BY <1>3
  <2>2. PICK j \in 1 .. k : InListOrder(S)[j] = n /\ Rank(S, n) = j - 1
      BY <1>3
  <2>3. i \in Int /\ j \in Int
      BY <1>1
  <2>4. i - 1 = j - 1
      BY <1>6, <2>1, <2>2
  <2>5. i = j
      BY <2>3, <2>4
  <2> QED
      BY <2>1, <2>2, <2>5
<1>7. k \in NodeId
    BY <1>1, <1>2, <1>4 DEF NodeId
<1> QED
    BY <1>5, <1>6, <1>7 DEF k

\* A placement on the node at the index makes it the latest and everybody else one turn older.
LEMMA TurnPasses ==
    ASSUME NEW S \in SUBSET NodeId, NEW index \in 0 .. RRPeriod - 1, NEW s \in S,
           Rank(S, s) = index % Cardinality(S)
    PROVE  /\ \A n \in S : Ago(S, index, n) \in 1 .. Cardinality(S)
           /\ Ago(S, index, s) = Cardinality(S)
           /\ Ago(S, (index + 1) % RRPeriod, s) = 1
           /\ \A n \in S \ {s} : Ago(S, (index + 1) % RRPeriod, n) = Ago(S, index, n) + 1
<1> DEFINE k == Cardinality(S)
           at == index % k
           next == ((index + 1) % RRPeriod) % k
<1>1. k \in NodeId /\ k \in Nat /\ k > 0
    BY RankType, NodeIdFinite DEF NodeId
<1>2. \A n \in S : Rank(S, n) \in 0 .. k - 1 /\ (n # s => Rank(S, n) # Rank(S, s))
    BY RankType
<1>3. at \in 0 .. k - 1 /\ next = IF at = k - 1 THEN 0 ELSE at + 1
    BY <1>1, NextIndex
<1>4. /\ \A n \in S : Ago(S, index, n) = IF Rank(S, n) < at THEN at - Rank(S, n) ELSE at - Rank(S, n) + k
      /\ \A n \in S : Ago(S, (index + 1) % RRPeriod, n)
                        = IF Rank(S, n) < next THEN next - Rank(S, n) ELSE next - Rank(S, n) + k
    BY DEF Ago
<1>5. Rank(S, s) = at
    OBVIOUS
<1> HIDE DEF k, at, next
<1>6. \A n \in S : Ago(S, index, n) \in 1 .. k
    BY <1>1, <1>2, <1>3, <1>4
<1>7. Ago(S, index, s) = k /\ Ago(S, (index + 1) % RRPeriod, s) = 1
    BY <1>1, <1>3, <1>4, <1>5
<1>8. \A n \in S \ {s} : Ago(S, (index + 1) % RRPeriod, n) = Ago(S, index, n) + 1
    BY <1>1, <1>2, <1>3, <1>4, <1>5
<1> QED
    BY <1>6, <1>7, <1>8 DEF k

-----------------------------------------------------------------------------
(* Steps *)

\* A placement is what schedule_one does when it finds a node.
LEMMA PlacingBinds ==
    ASSUME Consistent, Next, NEW p, p = Head(queue), Placing
    PROVE  /\ p \in PodId
           /\ \E n \in SelectNode(strategy, Eligible(p), capacity, allocated, Request(p), rrIndex) : Bind(p, n)
           /\ strategy' = strategy
<1>1. TypeOK /\ QueueDiscipline /\ queue # <<>> /\ phase = "schedule" /\ podNode'[p] # NoNode
    BY DEF Consistent, Placing
<1>2. p \in PodId
    BY <1>1, HeadIsPod
<1>3. ScheduleOne
    BY <1>1 DEF Next, Operation, TickStep, DeployBatch, DeletePod, AddNode, RemoveNode, Cordon, Uncordon,
                SetNodeStatus, SetStrategy, CrashNodes, RunPods, HealthCheck, FinishTick
<1>4. podNode[p] = NoNode
  <2>1. p \in WaitingPods
      BY <1>1, HeadWaits
  <2> QED
      BY <1>1, <2>1 DEF QueueDiscipline, OnlyUnplacedWait
<1>5. ~ Defer(p)
    BY <1>1, <1>4 DEF Defer, podVars
<1>6. PICK n \in SelectNode(strategy, Eligible(p), capacity, allocated, Request(p), rrIndex) : Bind(p, n)
    BY <1>3, <1>5 DEF ScheduleOne
<1> QED
    BY <1>2, <1>6 DEF Bind

\* Other steps, placements by other strategies included, leave the index alone or replace the
\* strategy object.
LEMMA IndexStays ==
    ASSUME Consistent, [Next]_vars, ~ Placing, ~ Replacing
    PROVE  strategy' = strategy /\ rrIndex' = rrIndex
<1>1. CASE UNCHANGED vars
    BY <1>1 DEF vars, schedulerVars
<1>2. CASE Next
  <2>1. CASE \E name \in UsedStrategies : SetStrategy(name)
      BY <2>1 DEF SetStrategy, Replacing
  <2>2. CASE Operation /\ ~ \E name \in UsedStrategies : SetStrategy(name)
      BY <2>2 DEF Operation, DeployBatch, DeletePod, AddNode, RemoveNode, Cordon, Uncordon, SetNodeStatus,
                  schedulerVars
  <2>3. CASE CrashNodes \/ RunPods \/ HealthCheck \/ FinishTick
      BY <2>3 DEF CrashNodes, RunPods, HealthCheck, FinishTick, schedulerVars
  <2>4. CASE ScheduleOne
    <3>1. ASSUME NEW p, p = Head(queue),
                 NEW n \in SelectNode(strategy, Eligible(p), capacity, allocated, Request(p), rrIndex),
                 Bind(p, n)
          PROVE  strategy' = strategy /\ rrIndex' = rrIndex
      <4>1. queue # <<>> /\ phase = "schedule"
          BY <2>4 DEF ScheduleOne
      <4>2. p \in PodId /\ n \in NodeId
          BY <3>1, <4>1, BoundPod DEF Consistent
      <4>3. podNode'[p] = n
          BY <3>1, <4>2 DEF Bind, Consistent, TypeOK, PodsOK
      <4>4. n # NoNode
          BY <4>2 DEF NodeId, NoNode
      <4>5. strategy # "round-robin"
          BY <3>1, <4>1, <4>3, <4>4 DEF Placing
      <4> QED
          BY <3>1, <4>5 DEF Bind, Advance
    <3>2. CASE Defer(Head(queue))
        BY <3>2 DEF Defer
    <3> QED
        BY <2>4, <3>1, <3>2 DEF ScheduleOne
  <2> QED
      BY <1>2, <2>1, <2>2, <2>3, <2>4 DEF Next, TickStep
<1> QED
    BY <1>1, <1>2

\* Round-robin's answer is the node at the index.
LEMMA TurnOf ==
    ASSUME strategy = "round-robin", NEW p,
           NEW n \in SelectNode(strategy, Eligible(p), capacity, allocated, Request(p), rrIndex)
    PROVE  n \in Eligible(p) /\ Rank(Eligible(p), n) = rrIndex % Cardinality(Eligible(p))
BY DEF SelectNode, RoundRobin, Rank

\* Whoever has had its turn in an unfinished round is not the one at the index.
LEMMA NotYet ==
    ASSUME HistoryOK, rrIndex \in 0 .. RRPeriod - 1, strategy = "round-robin", round # {}, round # steady,
           NEW n \in steady, Rank(steady, n) = rrIndex % Cardinality(steady)
    PROVE  /\ n \notin round
           /\ \E j \in 1 .. Cardinality(steady) - 1 :
                round = {m \in steady : Ago(steady, rrIndex, m) <= j}
<1> DEFINE k == Cardinality(steady)
<1>1. steady \in SUBSET NodeId /\ k \in Nat
    BY NodeIdFinite DEF HistoryOK
<1>2. PICK j \in 1 .. k : round = {m \in steady : Ago(steady, rrIndex, m) <= j}
    BY DEF HistoryOK, RecentRound
<1>3. (\A m \in steady : Ago(steady, rrIndex, m) \in 1 .. k) /\ Ago(steady, rrIndex, n) = k
    BY <1>1, TurnPasses
<1> HIDE DEF k
<1>4. j # k
    BY <1>1, <1>2, <1>3
<1>5. j \in 1 .. k - 1
    BY <1>1, <1>4
<1>6. n \notin round
    BY <1>1, <1>2, <1>3, <1>5
<1> QED
    BY <1>2, <1>5, <1>6 DEF k

\* A placement continues the round, or begins one.
LEMMA PlacingKeepsHistory ==
    ASSUME Consistent, HistoryOK, NEW p,
           NEW n \in SelectNode(strategy, Eligible(p), capacity, allocated, Request(p), rrIndex),
           Bind(p, n), Goes(p, n)
    PROVE  HistoryOK'
<1> DEFINE E == Eligible(p)
           k == Cardinality(E)
           index == rrIndex'
<1>1. E \in SUBSET NodeId /\ n \in E /\ steady' = E /\ steady \in SUBSET NodeId /\ round \subseteq steady
    BY SelectNodeEligible DEF Eligible, Goes, HistoryOK
<1>2. round' = IF steady = E /\ round # steady THEN round \cup {n} ELSE {n}
    BY DEF Goes
<1>3. round' \in SUBSET steady'
    BY <1>1, <1>2
<1>4. ASSUME strategy' = "round-robin"
      PROVE  \E j \in 1 .. k : round' = {m \in E : Ago(E, index, m) <= j}
  <2>1. strategy = "round-robin" /\ rrIndex' = (rrIndex + 1) % RRPeriod
      BY <1>4 DEF Bind, Advance
  <2>2. Rank(E, n) = rrIndex % k
      BY <2>1, TurnOf
  <2>3. rrIndex \in 0 .. RRPeriod - 1
      BY DEF Consistent, TypeOK, SchedulerOK
  <2>4. /\ \A m \in E : Ago(E, rrIndex, m) \in 1 .. k
        /\ Ago(E, index, n) = 1
        /\ \A m \in E \ {n} : Ago(E, index, m) = Ago(E, rrIndex, m) + 1
      BY <1>1, <2>1, <2>2, <2>3, TurnPasses
  <2>5. k \in Nat /\ k >= 1
      BY <1>1, NodeIdFinite, FS_EmptySet
  <2> HIDE DEF k, E, index
  <2>6. CASE round' = {n}
    <3>1. {m \in E : Ago(E, index, m) <= 1} = {n}
        BY <1>1, <2>4, <2>5
    <3> QED
        BY <2>5, <2>6, <3>1
  <2>7. CASE round' # {n}
    <3>1. steady = E /\ round # steady /\ round # {} /\ round' = round \cup {n}
        BY <1>2, <2>7
    <3>2. PICK j \in 1 .. k - 1 : n \notin round /\ round = {m \in E : Ago(E, rrIndex, m) <= j}
        BY <1>1, <2>1, <2>2, <2>3, <3>1, NotYet DEF k
    <3>3. j + 1 \in 1 .. k /\ j \in Nat /\ j >= 1
        BY <2>5
    <3>4. \A m \in E : m \in round' <=> Ago(E, index, m) <= j + 1
      <4> TAKE m \in E
      <4>1. CASE m = n
          BY <2>4, <3>1, <3>3, <4>1
      <4>2. CASE m # n
        <5>1. Ago(E, index, m) = Ago(E, rrIndex, m) + 1 /\ Ago(E, rrIndex, m) \in Nat
            BY <2>4, <2>5, <4>2
        <5>2. m \in round' <=> Ago(E, rrIndex, m) <= j
            BY <3>1, <3>2, <4>2
        <5> QED
            BY <3>3, <5>1, <5>2
      <4> QED
          BY <4>1, <4>2
    <3>5. round' = {m \in E : Ago(E, index, m) <= j + 1}
        BY <1>1, <1>3, <3>4
    <3> QED
        BY <3>3, <3>5
  <2> QED
      BY <2>6, <2>7
<1>5. RecentRound'
    BY <1>1, <1>4 DEF RecentRound
<1> QED
    BY <1>1, <1>3, <1>5 DEF HistoryOK

LEMMA NextKeepsHistory ==
    ASSUME Consistent, HistoryOK, [Next /\ Record]_<<vars, history>>
    PROVE  HistoryOK'
<1>1. CASE UNCHANGED <<vars, history>>
    BY <1>1 DEF vars, schedulerVars, history, HistoryOK, RecentRound
<1>2. CASE Next /\ Placing /\ Goes(Head(queue), podNode'[Head(queue)])
  <2>1. ASSUME NEW p, p = Head(queue)
        PROVE  HistoryOK'
    <3>1. PICK n \in SelectNode(strategy, Eligible(p), capacity, allocated, Request(p), rrIndex) : Bind(p, n)
        BY <1>2, <2>1, PlacingBinds
    <3>2. p \in PodId
        BY <1>2, <2>1, PlacingBinds
    <3>3. podNode'[p] = n
        BY <3>1, <3>2 DEF Bind, Consistent, TypeOK, PodsOK
    <3> QED
        BY <1>2, <2>1, <3>1, <3>3, PlacingKeepsHistory
  <2> QED
      BY <2>1
<1>3. CASE Replacing /\ last' = NoNode /\ steady' = {} /\ round' = {}
    BY <1>3 DEF HistoryOK, RecentRound
<1>4. CASE Next /\ ~ Placing /\ ~ Replacing /\ UNCHANGED history
  <2>1. strategy' = strategy /\ rrIndex' = rrIndex
      BY <1>4, IndexStays
  <2> QED
      BY <1>4, <2>1 DEF history, HistoryOK, RecentRound
<1> QED
    BY <1>1, <1>2, <1>3, <1>4 DEF Record

LEMMA StepTakesTurns ==
    ASSUME Consistent, HistoryOK, Next, Placing,
           steady = Eligible(Head(queue)), round # steady
    PROVE  podNode'[Head(queue)] \notin round
<1>1. ASSUME NEW p, p = Head(queue)
      PROVE  podNode'[p] \notin round
  <2>1. PICK n \in SelectNode(strategy, Eligible(p), capacity, allocated, Request(p), rrIndex) : Bind(p, n)
      BY <1>1, PlacingBinds
  <2>2. p \in PodId
      BY <1>1, PlacingBinds
  <2>3. podNode'[p] = n
      BY <2>1, <2>2 DEF Bind, Consistent, TypeOK, PodsOK
  <2>4. strategy = "round-robin"
      BY DEF Placing
  <2>5. n \in steady /\ Rank(steady, n) = rrIndex % Cardinality(steady)
      BY <1>1, <2>4, TurnOf
  <2>6. rrIndex \in 0 .. RRPeriod - 1
      BY DEF Consistent, TypeOK, SchedulerOK
  <2> QED
      BY <2>3, <2>4, <2>5, <2>6, NotYet
<1> QED
    BY <1>1

\* While the eligible nodes stay the same, round-robin gives no node a second pod before all of them
\* had one, however many nodes there are and whatever fails, is created or deleted in between: the
\* index of RoundRobinStrategy points at the node whose last turn is longest ago.
THEOREM RoundRobinTakesTurns == HistorySpec => TakesTurns
<1> DEFINE Inv == Consistent /\ HistoryOK
<1>1. HistoryInit => Inv
    BY ConsistentInductive DEF HistoryInit, HistoryOK, RecentRound
<1>2. Inv /\ [Next /\ Record]_<<vars, history>> => Inv'
  <2>1. [Next /\ Record]_<<vars, history>> => [Next]_vars
      BY DEF vars
  <2> QED
      BY <2>1, ConsistentInductive, NextKeepsHistory
<1>3. Inv /\ [Next /\ Record]_<<vars, history>> =>
        [Placing /\ steady = Eligible(Head(queue)) /\ round # steady
           => podNode'[Head(queue)] \notin round]_<<vars, history>>
    BY StepTakesTurns
<1> QED
    BY <1>1, <1>2, <1>3, PTL DEF HistorySpec, TakesTurns

=============================================================================
