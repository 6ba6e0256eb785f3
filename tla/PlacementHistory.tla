--------------------------- MODULE PlacementHistory ---------------------------
(***************************************************************************)
(* ClusterManager with a record of what round-robin chose, for properties  *)
(* of several placements.  A scan of the node list, as the code performs   *)
(* it, stands beside Strategies as the reference.                          *)
(***************************************************************************)
EXTENDS ClusterManager

VARIABLES
    last,    \* the node of the last placement by the present strategy object
    steady,  \* the nodes that were eligible for it
    round    \* the nodes placed on since the eligible nodes last changed or all had their turn

history == <<last, steady, round>>

HistoryInit == Init /\ last = NoNode /\ steady = {} /\ round = {}

\* A step of schedule_pending in which round-robin places the pod at the head of the queue.  What
\* other strategies choose is not recorded.
Placing ==
    /\ phase = "schedule" /\ queue # <<>> /\ strategy = "round-robin"
    /\ podNode'[Head(queue)] # NoNode

\* The strategy object is replaced.  Where neither its name nor the index changes, a new object
\* cannot be told from the old one.
Replacing == strategy' # strategy \/ (phase = "idle" /\ phase' = "idle" /\ rrIndex' # rrIndex)

Goes(p, n) ==
    /\ last' = n
    /\ steady' = Eligible(p)
    /\ round' = IF steady = Eligible(p) /\ round # steady THEN round \cup {n} ELSE {n}

Record ==
    \/ Placing /\ Goes(Head(queue), podNode'[Head(queue)])
    \/ Replacing /\ last' = NoNode /\ steady' = {} /\ round' = {}
    \/ ~ Placing /\ ~ Replacing /\ UNCHANGED history

HistorySpec == HistoryInit /\ [][Next /\ Record]_<<vars, history>>

-----------------------------------------------------------------------------
(* The scan of the code *)

\* The nodes of S in the order of the node list.
InListOrder(S) ==
    CHOOSE list \in [1 .. Cardinality(S) -> S] :
        \A i, j \in DOMAIN list : i < j => list[i] < list[j]

\* [n for n in nodes if n.can_fit(request)]
EligibleList(req) == InListOrder({n \in Nodes : CanFit(n, req)})

\* min(list, key), where less has the pairs of nodes the first of which has the lesser key: the
\* best node so far is given up only for a later one with a lesser key.
MinOfList(list, less) ==
    LET best[i \in 1 .. Len(list)] ==
            IF i = 1 THEN list[1]
            ELSE IF <<list[i], best[i - 1]>> \in less THEN list[i] ELSE best[i - 1]
    IN  best[Len(list)]

\* best-fit's key, but for the request, which is taken off every node's free amounts alike.
Free(n) == capacity[n]["cpu"] - allocated[n]["cpu"] + capacity[n]["memory"] - allocated[n]["memory"]

LessFree == {e \in NodeId \X NodeId : Free(e[1]) < Free(e[2])}

\* overall_utilization in whole parts: twice the mean of the two shares, as multiples of 1 / whole.
UsedParts(n, whole) ==
    LET share(r) == IF capacity[n][r] = 0 THEN 0 ELSE (whole * allocated[n][r]) \div capacity[n][r]
    IN  share("cpu") + share("memory")

Divisor(n, r) == IF capacity[n][r] = 0 THEN 1 ELSE capacity[n][r]

\* A number that all four totals of the two nodes divide.
Multiple(m, n) ==
    (Divisor(m, "cpu") * Divisor(m, "memory")) * (Divisor(n, "cpu") * Divisor(n, "memory"))

LessUtilized ==
    {e \in NodeId \X NodeId :
        LET whole == Multiple(e[1], e[2]) IN UsedParts(e[1], whole) < UsedParts(e[2], whole)}

Scan(req) ==
    LET list == EligibleList(req)
    IN  CASE strategy = "first-fit"    -> list[1]
          [] strategy = "best-fit"     -> MinOfList(list, LessFree)
          [] strategy = "round-robin"  -> list[(rrIndex % Len(list)) + 1]
          [] strategy = "least-loaded" -> MinOfList(list, LessUtilized)

\* select_node returns the node a scan of the list in list order ends with, ties and a list with
\* cordoned, failed and removed nodes in it included.
SelectsWhatTheScanFinds ==
    phase = "schedule" /\ queue # <<>> =>
        LET p == Head(queue)
            chosen == SelectNode(strategy, Eligible(p), capacity, allocated, Request(p), rrIndex)
        IN  chosen = IF EligibleList(Request(p)) = <<>> THEN {} ELSE {Scan(Request(p))}

\* While the eligible nodes stay the same, round-robin gives no node a second pod before every
\* one of them had its turn, whatever happens between the placements.
TakesTurns ==
    [][Placing /\ steady = Eligible(Head(queue)) /\ round # steady
       => podNode'[Head(queue)] \notin round]_<<vars, history>>

\* Round-robin goes on to another node whenever there is one.
GoesOn ==
    [][Placing /\ podNode'[Head(queue)] = last
       => Eligible(Head(queue)) = {last}]_<<vars, history>>

=============================================================================
