-------------------------------- MODULE Server --------------------------------
(***************************************************************************)
(* The coroutines of src/api/server.py: the simulation task, the REST      *)
(* endpoints that start, stop, tick and replace the cluster, and one       *)
(* WebSocket endpoint per client.  They run in one event loop, so an       *)
(* action is what one of them does between two awaits.                     *)
(*                                                                         *)
(* Of the cluster only its age is kept: which cluster it is, how often it  *)
(* has ticked, and the history of its metrics.  The operations that change *)
(* its pods and nodes are those of module ClusterManager.                  *)
(***************************************************************************)
EXTENDS BoundedLog, SequencesExt

CONSTANTS
    MaxSockets,  \* bound: connections ever made; a client that reconnects has a new one
    MaxTasks,    \* bound: simulation tasks that exist at the same time
    MaxTicks,    \* bound: ticks of one cluster
    MaxInits,    \* bound: replacements of the cluster
    MaxHistory   \* max_history, 500 in the code

ASSUME ServerAssumption ==
    /\ MaxSockets \in Nat /\ MaxTasks \in Nat
    /\ MaxTicks \in Nat /\ MaxInits \in Nat /\ MaxHistory \in Nat \ {0}

\* WebSocket objects, numbered as they connect, and tasks; a new task takes the least free number.
Sockets  == 1 .. MaxSockets
NoSocket == 0
Tasks    == 1 .. MaxTasks
NoTask   == 0

VARIABLES
    cluster,             \* which cluster, its tick_count, the ticks in its metrics history
    simulation_running,
    simulation_task,
    task,                \* the tasks that run simulation_loop
    connected_clients,
    link,                \* each socket's connection, and whether its endpoint still runs
    heard                \* the tick of the last broadcast each client got

clientVars == <<connected_clients, link>>
simulationVars == <<simulation_running, simulation_task>>
vars == <<cluster, simulationVars, task, clientVars, heard>>

\* "gone": the connection is lost and the endpoint does not know it yet.
Link == {"new", "open", "gone", "closed"}

\* Ticks are numbered per cluster.
Stamp == (0 .. MaxInits) \X (0 .. MaxTicks)
Never == <<0, 0>>
Later(s, t) == s[1] < t[1] \/ (s[1] = t[1] /\ s[2] < t[2])

\* Where a task waits: to be run first, in a send, in the sleep, or with a CancelledError to come.
TaskPlace == {"start", "send", "sleep", "cancelled", "end"}

\* A task outside broadcast.  In broadcast it has the message, the position in the list, the socket
\* of the present send and the dead ones; shifted (auxiliary) says that an entry up to that
\* position has been removed since the broadcast began, which hides the next entry.
TaskAt(place) ==
    [at |-> place, message |-> Never, index |-> 0, to |-> NoSocket, dead |-> <<>>, shifted |-> FALSE]

Loops(t) == task[t].at \in {"start", "send", "sleep"}

NewCluster(number) == [number |-> number, tick_count |-> 0, history |-> <<>>]
Now == <<cluster.number, cluster.tick_count>>

Init ==
    /\ cluster = NewCluster(0)
    /\ simulation_running = FALSE
    /\ simulation_task = NoTask
    /\ task = [t \in Tasks |-> TaskAt("end")]
    /\ connected_clients = <<>>
    /\ link = [c \in Sockets |-> "new"]
    /\ heard = [c \in Sockets |-> Never]

-----------------------------------------------------------------------------
(* The cluster *)

\* Fault: the sample is numbered before the tick.
TickedLate(c) == [c EXCEPT !.tick_count = @ + 1, !.history = Push(@, MaxHistory, c.tick_count)]

\* ClusterManager.tick, which ends with metrics.collect.
Ticked(c) ==
    [c EXCEPT !.tick_count = @ + 1, !.history = Push(@, MaxHistory, c.tick_count + 1)]

Tick == cluster.tick_count < MaxTicks /\ cluster' = Ticked(cluster)

\* init_cluster.  A running simulation goes on with the new cluster.
InitCluster ==
    /\ cluster.number < MaxInits
    /\ cluster' = NewCluster(cluster.number + 1)
    /\ UNCHANGED <<simulationVars, task, clientVars, heard>>

ManualTick == Tick /\ UNCHANGED <<simulationVars, task, clientVars, heard>>

-----------------------------------------------------------------------------
(* broadcast, in a simulation task *)

\* The list without the clients of S: all others, in the order they had.
ListWithout(S) ==
    LET kept == Range(connected_clients) \ S
    IN  {list \in [1 .. Cardinality(kept) -> kept] :
            /\ Range(list) = kept
            /\ \A i, j \in DOMAIN list : i < j =>
                   \E k, l \in DOMAIN connected_clients :
                       k < l /\ connected_clients[k] = list[i] /\ connected_clients[l] = list[j]}

\* connected_clients.remove of the dead ones, up to the first that has left the list.
DropDead(dead) ==
    LET missing == {i \in DOMAIN dead : dead[i] \notin Range(connected_clients)}
    IN  {dead[i] : i \in {j \in DOMAIN dead : \A k \in missing : j < k}}

\* connected_clients.remove raises a ValueError, which ends the task.
RemoveFails(dead) == ~(Range(dead) \subseteq Range(connected_clients))

\* A send to an open connection arrives.
SendTo(t, b, index) ==
    LET c == connected_clients[index]
    IN  /\ task' = [task EXCEPT ![t] = [b EXCEPT !.at = "send", !.index = index, !.to = c]]
        /\ heard' = IF link[c] = "open" THEN [heard EXCEPT ![c] = b.message] ELSE heard
        /\ UNCHANGED connected_clients

EndBroadcast(t, b) ==
    /\ connected_clients' \in ListWithout(DropDead(b.dead))
    /\ task' = [task EXCEPT ![t] = TaskAt(IF RemoveFails(b.dead) THEN "end" ELSE "sleep")]
    /\ heard' = heard

\* Fault: an entry is left out.
NextButOne(b) == IF b.index = 0 THEN 1 ELSE b.index + 2

\* Fault: the loop makes up for a removed entry, and never stops doing so.
NextIfInPlace(b) == IF b.shifted THEN b.index ELSE b.index + 1

\* The position of the next entry the loop of broadcast sends to: a list iterator of Python counts
\* on, whatever happened to the list.
NextIndex(b) == b.index + 1

\* The loop of broadcast goes on from b.
GoOn(t, b) ==
    IF NextIndex(b) <= Len(connected_clients) THEN SendTo(t, b, NextIndex(b)) ELSE EndBroadcast(t, b)

\* A send ends.  One to a lost connection raises, or returns because nothing was noticed yet.
EndSend(t) ==
    LET b == task[t]
    IN  /\ b.at = "send"
        /\ \/ GoOn(t, b)
           \/ link[b.to] # "open" /\ GoOn(t, [b EXCEPT !.dead = Append(@, b.to)])
        /\ UNCHANGED <<cluster, simulationVars, link>>

-----------------------------------------------------------------------------
(* simulation_loop *)

\* A round of the loop, or its end: tick, and the first part of broadcast.
RunLoop(t) ==
    /\ task[t].at \in {"start", "sleep"}
    /\ IF simulation_running
       THEN /\ Tick
            /\ GoOn(t, [TaskAt("send") EXCEPT !.message = <<cluster.number, cluster.tick_count + 1>>])
       ELSE /\ task' = [task EXCEPT ![t] = TaskAt("end")]
            /\ UNCHANGED <<cluster, connected_clients, heard>>
    /\ UNCHANGED <<simulationVars, link>>

\* The CancelledError is raised where the task waits; broadcast catches only Exception.
Die(t) ==
    /\ task[t].at = "cancelled"
    /\ task' = [task EXCEPT ![t] = TaskAt("end")]
    /\ UNCHANGED <<cluster, simulationVars, clientVars, heard>>

\* A cluster without pods gets six of them first.
StartSimulation ==
    /\ ~simulation_running
    /\ simulation_running' = TRUE
    /\ \E t \in Tasks :
        /\ \A u \in 1 .. t : task[u].at = "end" <=> u = t
        /\ task' = [task EXCEPT ![t] = TaskAt("start")]
        /\ simulation_task' = t
    /\ UNCHANGED <<cluster, clientVars, heard>>

\* Fault: the flag alone is to stop the loop.
StillThere(b) == b

\* Task.cancel; nothing happens to one that has ended.
Cancelled(b) == IF b.at = "end" THEN b ELSE TaskAt("cancelled")

StopSimulation ==
    /\ simulation_running' = FALSE
    /\ task' = [t \in Tasks |-> IF t = simulation_task THEN Cancelled(task[t]) ELSE task[t]]
    /\ simulation_task' = NoTask
    /\ UNCHANGED <<cluster, clientVars, heard>>

-----------------------------------------------------------------------------
(* websocket_endpoint *)

\* accept, and the first message.
Connect(c) ==
    /\ \A d \in 1 .. c : link[d] = "new" <=> d = c
    /\ link' = [link EXCEPT ![c] = "open"]
    /\ connected_clients' = Append(connected_clients, c)
    /\ UNCHANGED <<cluster, simulationVars, task, heard>>

\* A message with the action "tick".
SocketTick(c) ==
    /\ link[c] = "open"
    /\ Tick
    /\ UNCHANGED <<simulationVars, task, clientVars, heard>>

\* The environment: the connection is lost.
Vanish(c) ==
    /\ link[c] = "open"
    /\ link' = [link EXCEPT ![c] = "gone"]
    /\ UNCHANGED <<cluster, simulationVars, task, connected_clients, heard>>

\* Fault: the endpoint leaves the list to broadcast.
LeaveToBroadcast(i) == connected_clients

\* connected_clients.remove
WithoutEntry(i) == RemoveAt(connected_clients, i)

\* The finally clause: the socket is removed if it is on the list.
LeaveList(c) ==
    \/ /\ c \notin Range(connected_clients)
       /\ UNCHANGED <<connected_clients, task>>
    \/ \E i \in DOMAIN connected_clients :
           /\ connected_clients[i] = c
           /\ connected_clients' = WithoutEntry(i)
           /\ task' = [t \in Tasks |->
                  [task[t] EXCEPT !.shifted = @ \/ (task[t].at = "send" /\ i <= task[t].index)]]

\* Receiving or answering raises: the connection is lost, or the client sent no JSON.
EndEndpoint(c) ==
    /\ link[c] \in {"open", "gone"}
    /\ link' = [link EXCEPT ![c] = "closed"]
    /\ LeaveList(c)
    /\ UNCHANGED <<cluster, simulationVars, heard>>

-----------------------------------------------------------------------------

TaskStep(t) == RunLoop(t) \/ EndSend(t) \/ Die(t)

Next ==
    \/ InitCluster \/ ManualTick \/ StartSimulation \/ StopSimulation
    \/ \E t \in Tasks : TaskStep(t)
    \/ \E c \in Sockets : Connect(c) \/ SocketTick(c) \/ Vanish(c) \/ EndEndpoint(c)

Spec == Init /\ [][Next]_vars

\* The event loop runs every task that can go on; a send to a client that does not read ends when
\* the server's pings give the connection up.  Nothing is assumed of clients and endpoints.
FairSpec == Spec /\ \A t \in Tasks : WF_vars(TaskStep(t))

-----------------------------------------------------------------------------
(* Correctness *)

TaskRecord ==
    [at : TaskPlace, message : Stamp, index : Nat, to : Sockets \cup {NoSocket},
     dead : Seq(Sockets), shifted : BOOLEAN]

\* Every variable has its type.
TypeOK ==
    /\ cluster \in [number : 0 .. MaxInits, tick_count : 0 .. MaxTicks, history : Seq(1 .. MaxTicks)]
    /\ simulation_running \in BOOLEAN
    /\ simulation_task \in Tasks \cup {NoTask}
    /\ task \in [Tasks -> TaskRecord]
    /\ connected_clients \in Seq(Sockets)
    /\ link \in [Sockets -> Link]
    /\ heard \in [Sockets -> Stamp]

\* However start and stop follow each other while earlier loops are suspended in a send or in the
\* sleep: a loop that may still tick is the one of simulation_task, and the simulation runs.
OneLoop == \A t \in Tasks : Loops(t) => simulation_running /\ simulation_task = t

\* Broadcasts and endpoints both edit connected_clients: an open connection stays on it, once, and
\* nobody stays whose endpoint has ended.
RosterExact ==
    /\ IsInjective(connected_clients)
    /\ \A c \in Sockets : link[c] = "open" => c \in Range(connected_clients)
    /\ \A c \in Range(connected_clients) : link[c] \in {"open", "gone"}

\* The broadcasts a client gets are of ever later ticks, over stops, restarts and new clusters.
ToldInOrder == [][\A c \in Sockets : heard'[c] # heard[c] => Later(heard[c], heard'[c])]_vars

EndsBroadcast(t) == task[t].at = "send" /\ task'[t].at \in {"sleep", "end"}

\* Clients come and go while a broadcast is suspended: if no entry of the list was removed before
\* the position of the loop, every open client has the message when the broadcast ends.
ReachesEveryone ==
    [][\A t \in Tasks, c \in Sockets :
           EndsBroadcast(t) /\ ~task[t].shifted /\ link[c] = "open" => heard[c] = task[t].message]_vars

Newest(ticks) ==
    LET kept == Least(MaxHistory, ticks) IN [i \in 1 .. kept |-> ticks - kept + i]

\* The metrics history of a cluster is its newest ticks, none missing and none of another cluster.
NewestKept == cluster.history = Newest(cluster.tick_count)

\* A broadcast ends, and a cancelled task too.
TasksMoveOn == \A t \in Tasks : task[t].at \in {"send", "cancelled"} ~> task[t].at \in {"sleep", "end"}

\* While simulation_running is set, the simulation has a loop: start would not create another.
SimulationGoesOn == simulation_running => Loops(simulation_task)

=============================================================================
