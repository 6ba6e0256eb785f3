------------------------------ MODULE Resources ------------------------------
(***************************************************************************)
(* src/cluster/resources.py: a ResourceRequest and the counters of a       *)
(* ResourcePool.  An amount maps each resource to a natural number, and a  *)
(* pool is the pair total, used of such amounts (its total and allocated   *)
(* fields).                                                                *)
(* The allocation log of a pool is never read and is left out.             *)
(***************************************************************************)
EXTENDS Integers

Resource == {"cpu", "memory"}

Amount == [Resource -> Nat]

Nothing == [r \in Resource |-> 0]

\* available_cpu and available_memory.
Available(total, used) == [r \in Resource |-> total[r] - used[r]]

\* Fault: only the first resource is compared.
FitsWithinCpuOnly(req, total, used) == req["cpu"] <= Available(total, used)["cpu"]

\* Fault: a request that fills the node exactly is refused.
FitsStrictly(req, total, used) ==
    \A r \in Resource : req[r] < Available(total, used)[r]

FitsWithin(req, total, used) ==
    \A r \in Resource : req[r] <= Available(total, used)[r]

Allocate(used, req) == [r \in Resource |-> used[r] + req[r]]

\* Fault: memory is not given back.
ReleaseCpuOnly(used, req) ==
    [r \in Resource |-> IF r = "cpu" /\ req[r] <= used[r] THEN used[r] - req[r] ELSE used[r]]

\* Fault: the result may be negative.
ReleaseUnclamped(used, req) == [r \in Resource |-> used[r] - req[r]]

\* max(0, allocated - request), whoever the owner is and whether or not it holds anything.
Release(used, req) ==
    [r \in Resource |-> IF req[r] <= used[r] THEN used[r] - req[r] ELSE 0]

\* Integer form of overall_utilization: <<a, b>> stands for the fraction a / b, twice the mean
\* of the two utilizations.  A resource with total 0 counts as not used.
Utilization(total, used) ==
    LET share(r) == IF total[r] = 0 THEN <<0, 1>> ELSE <<used[r], total[r]>>
        c == share("cpu")
        m == share("memory")
    IN  <<c[1] * m[2] + m[1] * c[2], c[2] * m[2]>>

=============================================================================
