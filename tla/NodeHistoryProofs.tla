--------------------------- MODULE NodeHistoryProofs --------------------------
(***************************************************************************)
(* The theorem about NodeHistory: how long a node stays down at most, for  *)
(* any number of nodes and any cooldown.                                   *)
(***************************************************************************)
EXTENDS NodeHistory, TLAPS

\* The monitor's counter bounds what every node has been through.
Counted ==
    /\ beat \in 0 .. RecoverAfter - 1
    /\ down \in [NodeId -> Nat]
    /\ \A n \in NodeId : down[n] <= beat

LEMMA InitCounted == PastInit => Counted
BY Assumptions DEF Assumptions, EnvironmentAssumption, PastInit, Init, Counted

\* Only a health check moves the counter, and only in its phase.
LEMMA HealthPhase ==
    ASSUME Next, ~ HealthCheck
    PROVE  beat' = beat /\ phase # "health"
<1>1. CASE Operation
    BY <1>1 DEF Operation, DeployBatch, DeletePod, AddNode, RemoveNode, Cordon, Uncordon,
                SetNodeStatus, SetStrategy
<1>2. CASE CrashNodes \/ RunPods \/ ScheduleOne \/ FinishTick
    BY <1>2 DEF CrashNodes, RunPods, ScheduleOne, FinishTick
<1> QED
    BY <1>1, <1>2 DEF Next, TickStep

LEMMA NextCounted == Counted /\ [Next /\ CountChecks /\ Record]_<<vars, past>> => Counted'
<1> SUFFICES ASSUME Counted, [Next /\ CountChecks /\ Record]_<<vars, past>>
             PROVE  Counted'
    OBVIOUS
<1>0. RecoverAfter \in Nat \ {0} /\ beat \in 0 .. RecoverAfter - 1 /\ beat \in Nat
    BY Assumptions DEF Assumptions, EnvironmentAssumption, Counted
<1>1. ASSUME Next, CountChecks
      PROVE  Counted'
    <2>1. /\ down' \in [NodeId -> Nat]
          /\ \A n \in NodeId : /\ down'[n] <= down[n] + 1
                               /\ phase # "health" => down'[n] <= down[n]
                               /\ nodeStatus'[n] # "Failed" => down'[n] = 0
                               /\ down[n] <= beat
        BY <1>1 DEF CountChecks, Counted
    <2>2. CASE HealthCheck
        <3>1. beat' = (beat + 1) % RecoverAfter
            BY <2>2 DEF HealthCheck
        <3>2. CASE beat + 1 = RecoverAfter
            <4>1. beat' = 0
                BY <1>0, <3>1, <3>2
            <4>2. \A n \in NodeId : nodeStatus'[n] # "Failed"
                BY <2>2, <4>1 DEF HealthCheck, RecoverNow
            <4> QED
                BY <1>0, <2>1, <4>1, <4>2 DEF Counted
        <3>3. CASE beat + 1 # RecoverAfter
            <4>1. beat' = beat + 1 /\ beat' \in 0 .. RecoverAfter - 1
                BY <1>0, <3>1, <3>3
            <4>2. \A n \in NodeId : down'[n] <= beat'
                BY <1>0, <2>1, <4>1 DEF Counted
            <4> QED
                BY <2>1, <4>1, <4>2 DEF Counted
        <3> QED
            BY <3>2, <3>3
    <2>3. CASE ~ HealthCheck
        <3>1. beat' = beat /\ phase # "health"
            BY <1>1, <2>3, HealthPhase
        <3>2. \A n \in NodeId : down'[n] <= beat
            BY <1>0, <2>1, <3>1 DEF Counted
        <3> QED
            BY <1>0, <2>1, <3>1, <3>2 DEF Counted
    <2> QED
        BY <2>2, <2>3
<1>2. CASE UNCHANGED <<vars, past>>
    BY <1>2 DEF vars, past, Counted
<1> QED
    BY <1>1, <1>2

\* No node is down for longer than the cooldown, whatever happened to it and to others.  There is
\* no bound on the other side: see CoolsDown.
THEOREM NodesReturnInTime == PastSpec => []BackInTime
<1>1. Counted => BackInTime
  <2> SUFFICES ASSUME Counted, NEW n \in NodeId
               PROVE  down[n] <= RecoverAfter
      BY DEF BackInTime
  <2>1. RecoverAfter \in Nat \ {0} /\ beat \in 0 .. RecoverAfter - 1
      BY Assumptions DEF Assumptions, EnvironmentAssumption, Counted
  <2>2. down[n] \in Nat /\ down[n] <= beat
      BY DEF Counted
  <2> QED
      BY <2>1, <2>2
<1> QED
    BY <1>1, InitCounted, NextCounted, PTL DEF PastSpec

=============================================================================
