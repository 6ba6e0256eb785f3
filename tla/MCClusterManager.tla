--------------------------- MODULE MCClusterManager ---------------------------
(***************************************************************************)
(* Small instances of ClusterManager: capacities of one or two units,      *)
(* pods of one or two units, so that two pods can fill a node.             *)
(***************************************************************************)
EXTENDS ClusterManager

Units(cpu, memory) == [r \in Resource |-> IF r = "cpu" THEN cpu ELSE memory]

Spec1(k, cpu, memory, policy) == [containers |-> k, each |-> Units(cpu, memory), policy |-> policy]

\* A node that holds two small pods, and one that runs out of memory first.
OneKind  == {Units(2, 2)}
Narrow   == {Units(2, 1)}

\* One unit of each resource; the same in two containers that are never restarted.
Small == Spec1(1, 1, 1, "Always")
Pair  == Spec1(2, 1, 1, "Never")

\* The other way round: one container that is never restarted, two that always are.
Brief == Spec1(1, 1, 1, "Never")
Twin  == Spec1(2, 1, 1, "Always")

SmallAndPair == {Small, Pair}
BriefAndTwin == {Brief, Twin}
JustSmall == {Small}

\* The request total is a sum over the pods: compared with the sum written out for up to two pods.
ASSUME LoadIsASum ==
    \A a, b \in 0 .. 3 :
        Cardinality({u \in {1, 2} \X (1 .. 3) : u[2] <= <<a, b>>[u[1]]}) = a + b

=============================================================================
