-------------------------- MODULE PlacementRefinement -------------------------
(***************************************************************************)
(* ClusterManager implements PodPlacement, if clients delete a pod once    *)
(* only: a pod is placed while it holds resources of a node on the list,   *)
(* and it waits while it is in the pending queue or put aside.             *)
(***************************************************************************)
EXTENDS ClusterManager

PlaceOf(p) == IF Holds(p) /\ podNode[p] \in Nodes THEN podNode[p] ELSE NoNode

Promised == INSTANCE PodPlacement WITH
    Pod <- PodId,
    Node <- NodeId,
    Unplaced <- NoNode,
    need <- [p \in PodId |-> Request(p)],
    room <- capacity,
    place <- [p \in PodId |-> PlaceOf(p)],
    waiting <- WaitingPods

\* Whatever the queue, the counters, the health checks and the crashes do to them, pods wait and
\* are placed as PodPlacement promises: delete_pod and remove_node included.
ImplementsPodPlacement == Promised!PlacementSpec

=============================================================================
