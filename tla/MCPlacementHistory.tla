-------------------------- MODULE MCPlacementHistory --------------------------
(***************************************************************************)
(* Small instances of PlacementHistory, with what the metrics and the      *)
(* abstract specification say of placements.                               *)
(***************************************************************************)
EXTENDS PlacementHistory, PlacementRefinement, Metrics

Units(cpu, memory) == [r \in Resource |-> IF r = "cpu" THEN cpu ELSE memory]

Pod(k, cpu, memory, policy) == [containers |-> k, each |-> Units(cpu, memory), policy |-> policy]

\* Nodes of different shapes: the strategies rank them differently, and one has no memory at all.
Square  == {Units(2, 2)}
CpuNode == {Units(2, 0)}
Shapes  == {Units(2, 2), Units(3, 1)}

\* A pod that fits on every node, and one that takes a whole node and fits on no other.
CpuOnly == Pod(1, 1, 0, "Always")
Pair    == Pod(2, 1, 1, "Never")

CpuOnlyAndPair == {CpuOnly, Pair}

\* The sum over nodes is a cardinality: compared with the sum written out for two of them.
ASSUME SumOverIsASum ==
    \A a, b \in 0 .. 3 : SumOver({1, 2}, <<Units(a, b), Units(b, a)>>) = Units(a + b, a + b)

=============================================================================
