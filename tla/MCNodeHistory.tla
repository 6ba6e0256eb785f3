---------------------------- MODULE MCNodeHistory -----------------------------
(* Small instances of NodeHistory. *)
EXTENDS NodeHistory

Units(cpu, memory) == [r \in Resource |-> IF r = "cpu" THEN cpu ELSE memory]

\* Nodes of one shape; a pod takes all the CPU of one and leaves memory free.
Square == {Units(2, 2)}

CpuHeavy == [containers |-> 1, each |-> Units(2, 1), policy |-> "Always"]

JustHeavy == {CpuHeavy}

=============================================================================
