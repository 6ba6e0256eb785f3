---------------------------- MODULE MetricsProofs ----------------------------
(***************************************************************************)
(* What a sample of the metrics shows as used is what placed pods own.     *)
(***************************************************************************)
EXTENDS Metrics, ClusterManagerProofs, FunctionTheorems

\* The pods that hold a place on a listed node.
Placed == {p \in Pods : podStatus[p] \in {"Running", "Failed"} /\ podNode[p] \in Nodes}

\* The placed pods are those in the pod_ids of the listed nodes, each in one of them only.
LEMMA PlacedIsListed ==
    ASSUME Consistent
    PROVE  /\ Placed \in SUBSET PodId
           /\ \A n \in Nodes : podIds[n] = {p \in Placed : podNode[p] = n}
<1>1. Pods \subseteq PodId
    BY PodsInPodId DEF Consistent, TypeOK
<1>2. \A n \in Nodes : n \in NodeId
    BY DEF Nodes
<1>3. ASSUME NEW n \in Nodes
      PROVE  podIds[n] = {p \in Placed : podNode[p] = n}
  <2>1. podIds[n] \subseteq Pods
      BY <1>2, PodIdsListed
  <2> QED
      BY <1>1, <1>2, <2>1 DEF Placed, Consistent, PlacementAgrees, Holds
<1> QED
    BY <1>1, <1>3 DEF Placed

\* With an exact ledger, the units counted as used on the nodes correspond one to one to the units
\* that the placed pods ask for.
LEMMA UnitsCorrespond ==
    ASSUME Consistent, ExactLedger, NEW r \in Resource
    PROVE  ExistsBijection(UnitsOn(Nodes, allocated, r), UnitsOf(podSpec, Placed, r))
<1> DEFINE A == UnitsOn(Nodes, allocated, r)
           B == UnitsOf(podSpec, Placed, r)
           Own(n) == UnitsOf(podSpec, podIds[n], r)
           On(n) == 1 .. allocated[n][r]
           numbering == [n \in Nodes |-> CHOOSE f : f \in Bijection(On(n), Own(n))]
           g == [x \in A |-> numbering[x[1]][x[2]]]
<1>1. ASSUME NEW n \in Nodes
      PROVE  numbering[n] \in Bijection(On(n), Own(n))
  <2>1. n \in NodeId /\ podIds[n] \in SUBSET PodId
      BY PodIdsListed DEF Nodes
  <2>2. allocated[n][r] = Cardinality(Own(n))
      BY <2>1 DEF ExactLedger, Load, TotalRequest
  <2>3. IsFiniteSet(Own(n))
      BY <2>1, UnitsFinite
  <2>4. ExistsBijection(1 .. Cardinality(Own(n)), Own(n))
      BY <2>3, FS_CardinalityType
  <2> QED
      BY <2>2, <2>4 DEF ExistsBijection
<1>2. \A x : x \in A <=> \E n \in Nodes : \E i \in On(n) : x = <<n, i>>
    BY DEF UnitsOn
<1>3. \A n \in Nodes : \A u \in Own(n) : u[1] \in Placed /\ podNode[u[1]] = n /\ u \in B
    BY PlacedIsListed DEF UnitsOf
<1>4. \A u \in B : podNode[u[1]] \in Nodes /\ u \in Own(podNode[u[1]])
    BY PlacedIsListed DEF UnitsOf, Placed
<1> HIDE DEF A, B, Own, On, numbering
<1>5. ASSUME NEW x \in A
      PROVE  x[1] \in Nodes /\ x[2] \in On(x[1]) /\ x = <<x[1], x[2]>> /\ g[x] \in Own(x[1])
  <2>1. x[1] \in Nodes /\ x[2] \in On(x[1]) /\ x = <<x[1], x[2]>>
      BY <1>2
  <2> QED
      BY <1>1, <2>1 DEF Bijection, Injection
<1>6. g \in Injection(A, B)
  <2>1. g \in [A -> B]
      BY <1>3, <1>5
  <2>2. ASSUME NEW x \in A, NEW y \in A, g[x] = g[y]
        PROVE  x = y
    <3>1. x[1] = y[1]
        BY <1>3, <1>5, <2>2
    <3>2. numbering[x[1]][x[2]] = numbering[x[1]][y[2]]
        BY <2>2, <3>1
    <3>3. x[2] = y[2]
        BY <1>1, <1>5, <3>1, <3>2 DEF Bijection, Injection, IsInjective
    <3> QED
        BY <1>5, <3>1, <3>3
  <2> QED
      BY <2>1, <2>2 DEF Injection, IsInjective
<1>7. g \in Surjection(A, B)
  <2>1. g \in [A -> B]
      BY <1>3, <1>5
  <2>2. ASSUME NEW u \in B
        PROVE  \E x \in A : g[x] = u
    <3>1. PICK i \in On(podNode[u[1]]) : numbering[podNode[u[1]]][i] = u
        BY <1>1, <1>4 DEF Bijection, Surjection
    <3>2. <<podNode[u[1]], i>> \in A
        BY <1>2, <1>4
    <3> QED
        BY <3>1, <3>2
  <2> QED
      BY <2>1, <2>2 DEF Surjection
<1> QED
    BY <1>6, <1>7 DEF Bijection, ExistsBijection, A, B

\* Hence the two numbers are the same, of each resource.
LEMMA UsedIsOwned == Consistent /\ ExactLedger => Used = Load(Placed)
<1> SUFFICES ASSUME Consistent, ExactLedger
             PROVE  Used = Load(Placed)
    OBVIOUS
<1>1. ASSUME NEW r \in Resource
      PROVE  Cardinality(UnitsOn(Nodes, allocated, r)) = Cardinality(UnitsOf(podSpec, Placed, r))
  <2>1. IsFiniteSet(UnitsOf(podSpec, Placed, r))
      BY PlacedIsListed, UnitsFinite
  <2>2. ExistsBijection(UnitsOf(podSpec, Placed, r), UnitsOn(Nodes, allocated, r))
      BY UnitsCorrespond, Fun_ExistsBijSymmetric
  <2> QED
      BY <2>1, <2>2, FS_Bijection
<1> QED
    BY <1>1 DEF Used, SumOver, Load, TotalRequest

\* If clients delete a pod only once, the usage a sample shows (collect, at the end of each tick) is
\* what the running and failed pods on the listed nodes ask for, to the unit: nothing of evicted,
\* deleted or removed pods is left in it, whatever the tick and the operations before it did.
THEOREM UsageIsOwnedHolds ==
    ASSUME ~ RepeatedDeletes
    PROVE  Spec => []UsageIsOwned
<1>1. Init => Consistent
    BY ConsistentInductive
<1>2. Consistent /\ [Next]_vars => Consistent'
    BY ConsistentInductive
<1>3. Consistent /\ ExactLedger => UsageIsOwned
    BY UsedIsOwned DEF UsageIsOwned, Collect, Placed
<1> QED
    BY <1>1, <1>2, <1>3, ExactLedgerHolds, PTL DEF Spec

=============================================================================
