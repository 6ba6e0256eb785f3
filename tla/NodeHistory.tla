----------------------------- MODULE NodeHistory ------------------------------
(***************************************************************************)
(* ClusterManager with a record of each node's past: how long it has been  *)
(* down, and whether the operator wants it to take no pods.  The code      *)
(* keeps neither: HealthMonitor counts its own checks, and a node has one  *)
(* status for what happened to it and for what is wanted of it.            *)
(***************************************************************************)
EXTENDS ClusterManager

VARIABLES
    down,     \* the checks that left a node down since it crashed, RecoverAfter + 1 at most
    withdrawn \* the nodes whose last cordon has not been followed by an uncordon

past == <<down, withdrawn>>

PastInit == Init /\ down = [n \in NodeId |-> 0] /\ withdrawn = {}

\* A health check counts for the nodes that are down after it, unless the count is at its bound.
CountChecks ==
    down' = [n \in NodeId |->
        IF nodeStatus'[n] # "Failed" THEN 0
        ELSE IF phase = "health" /\ down[n] <= RecoverAfter THEN down[n] + 1 ELSE down[n]]

\* The endpoints that say what is wanted of a node.
Tells(n) == Cordon(n) \/ Uncordon(n)

Record ==
    \/ \E n \in Nodes : Cordon(n) /\ withdrawn' = withdrawn \cup {n}
    \/ \E n \in Nodes : Uncordon(n) /\ withdrawn' = withdrawn \ {n}
    \/ (\A n \in Nodes : ~ Tells(n)) /\ UNCHANGED withdrawn

PastSpec == PastInit /\ [][Next /\ CountChecks /\ Record]_<<vars, past>>

FairPastSpec == PastSpec /\ WF_<<vars, past>>(TickStep /\ CountChecks /\ Record)

-----------------------------------------------------------------------------
(* Correctness *)

\* No node is down for longer than the cooldown: whenever it crashed, whatever else crashed before
\* or after it, and however often pods, nodes and strategies were changed meanwhile.
BackInTime == \A n \in NodeId : down[n] <= RecoverAfter

\* The health check recovers a node only after a cooldown, however short: an earlier check has
\* found the node failed and left it so.
CoolsDown ==
    [][\A n \in NodeId :
           phase = "health" /\ nodeStatus[n] = "Failed" /\ nodeStatus'[n] = "Ready"
               => down[n] > 0]_<<vars, past>>

\* A node the operator has cordoned gets no pods until it is uncordoned.
CordonSticks ==
    [][\A p \in Pods, n \in withdrawn : podNode'[p] = n => podNode[p] = n]_<<vars, past>>

=============================================================================
