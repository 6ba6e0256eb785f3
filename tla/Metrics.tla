-------------------------------- MODULE Metrics -------------------------------
(***************************************************************************)
(* The sample that MetricsCollector.collect takes of nodes and pods at the *)
(* end of a tick, as a function of the state.  The history it is put into  *)
(* is in modules BoundedLog and Server.  Restarts are not counted here.    *)
(***************************************************************************)
EXTENDS ClusterManager

\* The sum over the nodes of S, as the number of units that they have together.
UnitsOn(S, amounts, r) == UNION {{n} \X (1 .. amounts[n][r]) : n \in S}

SumOver(S, amounts) == [r \in Resource |-> Cardinality(UnitsOn(S, amounts, r))]

\* Fault: what failed and cordoned nodes hold is left out.
UsedOnReady == SumOver({n \in Nodes : nodeStatus[n] = "Ready"}, allocated)

\* The utilizations' numerators and denominators; a cluster without capacity counts as one unit.
Used == SumOver(Nodes, allocated)
Total == [r \in Resource |-> IF SumOver(Nodes, capacity)[r] = 0 THEN 1 ELSE SumOver(Nodes, capacity)[r]]

PodsThat(status) == {p \in Pods : podStatus[p] = status}

Collect ==
    [total_nodes   |-> Cardinality(Nodes),
     healthy_nodes |-> Cardinality({n \in Nodes : nodeStatus[n] = "Ready"}),
     total_pods    |-> podCount,
     running_pods  |-> Cardinality(PodsThat("Running")),
     pending_pods  |-> Cardinality(PodsThat("Pending")),
     failed_pods   |-> Cardinality(PodsThat("Failed")),
     used          |-> Used,
     total         |-> Total]

\* tick() calls collect when schedule_pending has drained the queue.
Collecting == phase = "schedule" /\ queue = <<>>

\* The utilization shown is owned to the unit by pods that hold a place, running or failed, on
\* nodes of any status, after whatever crashes, evictions, deletions and removals.
UsageIsOwned ==
    Collecting =>
        Collect.used = Load({p \in Pods : podStatus[p] \in {"Running", "Failed"} /\ podNode[p] \in Nodes})

=============================================================================
