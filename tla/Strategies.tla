----------------------------- MODULE Strategies -----------------------------
(***************************************************************************)
(* src/scheduler/strategies.py: which of the eligible nodes a strategy     *)
(* returns.  A strategy is the set of its possible answers, a singleton    *)
(* whenever some node is eligible.  Node identities are numbers in the     *)
(* order of the node list, so "the first in the list" is "the smallest".   *)
(* total and used map a node to the amounts of its resource pool.          *)
(***************************************************************************)
EXTENDS Resources, FiniteSets

StrategyName == {"first-fit", "best-fit", "round-robin", "least-loaded"}

FirstFit(eligible) == {n \in eligible : \A m \in eligible : n <= m}

\* What is left on node n once the request is placed, both resources added up.
Leftover(total, used, req, n) ==
    LET free == Available(total[n], used[n])
    IN  free["cpu"] - req["cpu"] + free["memory"] - req["memory"]

\* Fault: of several equally tight nodes the last one is returned.
BestFitLastOfTies(eligible, total, used, req) ==
    LET left(n) == Leftover(total, used, req, n)
        tight == {n \in eligible : \A m \in eligible : left(n) <= left(m)}
    IN  {n \in tight : \A m \in tight : m <= n}

\* min(..., key) returns the first of the nodes with the least key.
BestFit(eligible, total, used, req) ==
    LET left(n) == Leftover(total, used, req, n)
    IN  FirstFit({n \in eligible : \A m \in eligible : left(n) <= left(m)})

\* eligible[index % len(eligible)]
RoundRobin(eligible, index) ==
    {n \in eligible :
        Cardinality({m \in eligible : m < n}) = index % Cardinality(eligible)}

\* Fractions are compared exactly where the code compares floats.
LessLoaded(total, used, m, n) ==
    LET um == Utilization(total[m], used[m])
        un == Utilization(total[n], used[n])
    IN  um[1] * un[2] < un[1] * um[2]

LeastLoaded(eligible, total, used) ==
    FirstFit({n \in eligible : \A m \in eligible : ~ LessLoaded(total, used, m, n)})

\* SchedulingStrategy.select_node after _filter_eligible.
SelectNode(name, eligible, total, used, req, index) ==
    {n \in eligible :
        \/ name = "first-fit"    /\ n \in FirstFit(eligible)
        \/ name = "best-fit"     /\ n \in BestFit(eligible, total, used, req)
        \/ name = "round-robin"  /\ n \in RoundRobin(eligible, index)
        \/ name = "least-loaded" /\ n \in LeastLoaded(eligible, total, used)}

=============================================================================
