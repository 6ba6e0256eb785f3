----------------------------- MODULE PodPlacement -----------------------------
(***************************************************************************)
(* What the cluster promises about its pods, without queues, counters,     *)
(* statuses or ticks: a pod that waits goes on waiting until it is given a *)
(* place, a place is given only where the pod fits beside what is there    *)
(* already, and who loses a place either waits again or is gone for good.  *)
(***************************************************************************)
EXTENDS Resources, FiniteSets

CONSTANTS
    Pod,
    Node,
    Unplaced,   \* not a node
    MaxRequest  \* bound: what one pod needs of one resource

VARIABLES
    need,     \* what each pod needs
    room,     \* what each node has
    place,    \* the node each pod is placed on
    waiting   \* the pods to be placed

placementVars == <<need, room, place, waiting>>

On(n) == {p \in Pod : place[p] = n}
Placed == {p \in Pod : place[p] # Unplaced}

\* The units of resource r that the pods of S need together.
Units(S, r) == {u \in S \X (1 .. MaxRequest) : u[2] <= need[u[1]][r]}

FitTogether(S, total) == \A r \in Resource : Cardinality(Units(S, r)) <= total[r]

PlacementInit ==
    /\ need \in [Pod -> Amount]
    /\ room \in [Node -> Amount]
    /\ place = [p \in Pod |-> Unplaced]
    /\ waiting = {}

\* New pods come.
Submit(S) ==
    /\ S \cap (waiting \cup Placed) = {}
    /\ need' \in [Pod -> Amount]
    /\ \A p \in Pod \ S : need'[p] = need[p]
    /\ waiting' = waiting \cup S
    /\ UNCHANGED <<room, place>>

Place(p, n) ==
    /\ p \in waiting
    /\ FitTogether(On(n) \cup {p}, room[n])
    /\ place' = [place EXCEPT ![p] = n]
    /\ waiting' = waiting \ {p}
    /\ UNCHANGED <<need, room>>

\* Pods lose their places and wait again.
Evict(S) ==
    /\ S \subseteq Placed
    /\ place' = [p \in Pod |-> IF p \in S THEN Unplaced ELSE place[p]]
    /\ waiting' = waiting \cup S
    /\ UNCHANGED <<need, room>>

\* A pod gives up its place.
Leave(p) ==
    /\ place' = [place EXCEPT ![p] = Unplaced]
    /\ UNCHANGED <<need, room, waiting>>

\* An empty node gets its room.
Open(n) ==
    /\ On(n) = {}
    /\ room' \in [Node -> Amount]
    /\ \A m \in Node \ {n} : room'[m] = room[m]
    /\ UNCHANGED <<need, place, waiting>>

\* A node closes: of the pods on it, those of S wait again.
Close(n, S) ==
    /\ S \subseteq On(n)
    /\ room' = [room EXCEPT ![n] = Nothing]
    /\ place' = [p \in Pod |-> IF p \in On(n) THEN Unplaced ELSE place[p]]
    /\ waiting' = waiting \cup S
    /\ UNCHANGED need

PlacementNext ==
    \/ \E S \in SUBSET Pod : Submit(S)
    \/ \E p \in Pod, n \in Node : Place(p, n)
    \/ \E S \in SUBSET Pod : Evict(S)
    \/ \E p \in Pod : Leave(p)
    \/ \E n \in Node : Open(n)
    \/ \E n \in Node, S \in SUBSET Pod : Close(n, S)

PlacementSpec == PlacementInit /\ [][PlacementNext]_placementVars

=============================================================================
