----------------------------- MODULE ServerProofs -----------------------------
(***************************************************************************)
(* Theorems about Server: one loop, the list of clients, and the order and *)
(* reach of broadcasts, for any number of clients, tasks and ticks.        *)
(***************************************************************************)
EXTENDS Server, FiniteSetTheorems, SequenceTheorems, TLAPS

\* What is true of a broadcast that is suspended in a send, and of the sockets it has met.
SendsOK ==
    \A t \in Tasks : task[t].at = "send" =>
        /\ task[t].message[2] >= 1
        /\ task[t].to \in Sockets
        /\ link[task[t].to] # "new"
        /\ \A i \in DOMAIN task[t].dead : link[task[t].dead[i]] \in {"gone", "closed"}

\* Nothing heard is of the future, and whoever the broadcast has still to serve heard only older
\* ones.
HeardOK ==
    /\ \A c \in Sockets : ~ Later(Now, heard[c])
    /\ \A c \in Sockets : link[c] = "new" => heard[c] = Never
    /\ \A t \in Tasks : task[t].at = "send" =>
           /\ ~ Later(Now, task[t].message)
           /\ \A i \in DOMAIN connected_clients :
                  i > task[t].index => Later(heard[connected_clients[i]], task[t].message)

\* The open clients up to the position of an undisturbed broadcast have its message.
ServedOK ==
    \A t \in Tasks : task[t].at = "send" /\ ~ task[t].shifted =>
        /\ task[t].index <= Len(connected_clients)
        /\ \A i \in 1 .. task[t].index :
               link[connected_clients[i]] = "open" =>
                   heard[connected_clients[i]] = task[t].message

Inv == TypeOK /\ OneLoop /\ RosterExact /\ SendsOK /\ HeardOK /\ ServedOK

-----------------------------------------------------------------------------
(* The bounded history *)

\* Python's slice of the last k entries.
LEMMA LastOfProperties ==
    ASSUME NEW S, NEW log \in Seq(S), NEW k \in Nat \ {0}, k <= Len(log)
    PROVE  /\ LastOf(log, k) \in Seq(S)
           /\ Len(LastOf(log, k)) = k
           /\ \A i \in 1 .. k : LastOf(log, k)[i] = log[Len(log) - k + i]
<1> DEFINE m == Len(log) - k + 1
           n == Len(log)
<1>1. m \in Int /\ n \in Int /\ m <= n /\ n - m + 1 = k /\ \A i \in m .. n : log[i] \in S
    OBVIOUS
<1>2. LastOf(log, k) = SubSeq(log, m, n)
    BY DEF LastOf, Least
<1>3. /\ SubSeq(log, m, n) \in Seq(S)
      /\ Len(SubSeq(log, m, n)) = IF m <= n THEN n - m + 1 ELSE 0
      /\ \A i \in 1 .. n - m + 1 : SubSeq(log, m, n)[i] = log[m + i - 1]
    BY <1>1, SubSeqProperties
<1> HIDE DEF m, n
<1>4. \A i \in 1 .. k : SubSeq(log, m, n)[i] = log[m + i - 1]
    BY <1>1, <1>3
<1>5. \A i \in 1 .. k : m + i - 1 = Len(log) - k + i
    BY DEF m
<1> QED
    BY <1>1, <1>2, <1>3, <1>4, <1>5

\* A push puts the entry last and drops the oldest one of a full log, and nothing else.
LEMMA PushProperties ==
    ASSUME NEW S, NEW log \in Seq(S), NEW entry \in S, NEW max \in Nat \ {0}, Len(log) <= max
    PROVE  LET kept == Least(max, Len(log) + 1)
           IN  /\ Push(log, max, entry) \in Seq(S)
               /\ Len(Push(log, max, entry)) = kept
               /\ \A i \in 1 .. kept - 1 :
                      Push(log, max, entry)[i] = log[Len(log) + 1 - kept + i]
               /\ Push(log, max, entry)[kept] = entry
<1> DEFINE longer == Append(log, entry)
<1>1. /\ longer \in Seq(S)
      /\ Len(longer) = Len(log) + 1
      /\ \A i \in 1 .. Len(log) : longer[i] = log[i]
      /\ longer[Len(log) + 1] = entry
    BY AppendProperties
<1> HIDE DEF longer
<1>2. CASE Len(log) + 1 > max
    <2>1. Len(log) = max /\ Least(max, Len(log) + 1) = max
        BY <1>2 DEF Least
    <2>2. Push(log, max, entry) = LastOf(longer, max)
        BY <1>1, <1>2 DEF Push, longer
    <2>3. max <= Len(longer)
        BY <1>1, <1>2
    <2>4. /\ LastOf(longer, max) \in Seq(S)
          /\ Len(LastOf(longer, max)) = max
          /\ \A i \in 1 .. max : LastOf(longer, max)[i] = longer[Len(longer) - max + i]
        BY <1>1, <2>3, LastOfProperties
    <2> QED
        BY <1>1, <2>1, <2>2, <2>4
<1>3. CASE Len(log) + 1 <= max
    <2>1. Least(max, Len(log) + 1) = Len(log) + 1
        BY <1>3 DEF Least
    <2>2. Push(log, max, entry) = longer
        BY <1>1, <1>3 DEF Push, longer
    <2> QED
        BY <1>1, <2>1, <2>2
<1> QED
    BY <1>2, <1>3

-----------------------------------------------------------------------------
(* Lists *)

\* connected_clients.remove of the entry at i.
LEMMA RemoveAtProperties ==
    ASSUME NEW S, NEW s \in Seq(S), NEW i \in 1 .. Len(s)
    PROVE  /\ RemoveAt(s, i) \in Seq(S)
           /\ Len(RemoveAt(s, i)) = Len(s) - 1
           /\ \A j \in 1 .. Len(s) - 1 : RemoveAt(s, i)[j] = IF j < i THEN s[j] ELSE s[j + 1]
<1> DEFINE front == SubSeq(s, 1, i - 1)
           back == SubSeq(s, i + 1, Len(s))
<1>1. /\ front \in Seq(S)
      /\ Len(front) = i - 1
      /\ \A j \in 1 .. i - 1 : front[j] = s[j]
    <2>1. 1 \in Int /\ i - 1 \in Int /\ \A j \in 1 .. i - 1 : s[j] \in S
        OBVIOUS
    <2>2. /\ front \in Seq(S)
          /\ Len(front) = IF 1 <= i - 1 THEN i - 1 - 1 + 1 ELSE 0
          /\ \A j \in 1 .. i - 1 - 1 + 1 : front[j] = s[1 + j - 1]
        BY <2>1, SubSeqProperties
    <2> HIDE DEF front
    <2> QED
        BY <2>2
<1>2. /\ back \in Seq(S)
      /\ Len(back) = Len(s) - i
      /\ \A j \in 1 .. Len(s) - i : back[j] = s[i + j]
    <2>1. i + 1 \in Int /\ Len(s) \in Int /\ \A j \in i + 1 .. Len(s) : s[j] \in S
        OBVIOUS
    <2>2. /\ back \in Seq(S)
          /\ Len(back) = IF i + 1 <= Len(s) THEN Len(s) - (i + 1) + 1 ELSE 0
          /\ \A j \in 1 .. Len(s) - (i + 1) + 1 : back[j] = s[i + 1 + j - 1]
        BY <2>1, SubSeqProperties
    <2> HIDE DEF back
    <2> QED
        BY <2>2
<1>3. RemoveAt(s, i) = front \o back
    BY DEF RemoveAt
<1> HIDE DEF front, back
<1>4. /\ front \o back \in Seq(S)
      /\ Len(front \o back) = Len(front) + Len(back)
      /\ \A j \in 1 .. Len(front) + Len(back) :
             (front \o back)[j] = IF j <= Len(front) THEN front[j] ELSE back[j - Len(front)]
    BY <1>1, <1>2, ConcatProperties
<1>5. \A j \in 1 .. Len(s) - 1 : RemoveAt(s, i)[j] = IF j < i THEN s[j] ELSE s[j + 1]
    <2> TAKE j \in 1 .. Len(s) - 1
    <2>1. CASE j < i
        BY <1>1, <1>2, <1>3, <1>4, <2>1
    <2>2. CASE j >= i
        <3>1. j - (i - 1) \in 1 .. Len(s) - i /\ i + (j - (i - 1)) = j + 1
            BY <2>2
        <3>2. RemoveAt(s, i)[j] = back[j - (i - 1)]
            BY <1>1, <1>2, <1>3, <1>4, <2>2
        <3> QED
            BY <1>2, <2>2, <3>1, <3>2
    <2> QED
        BY <2>1, <2>2
<1> QED
    BY <1>1, <1>2, <1>3, <1>4, <1>5

LEMMA ListWithoutProperties ==
    ASSUME connected_clients \in Seq(Sockets), NEW S, NEW list \in ListWithout(S)
    PROVE  /\ list \in Seq(Sockets)
           /\ Range(list) = Range(connected_clients) \ S
           /\ IsInjective(connected_clients) => IsInjective(list)
<1> DEFINE kept == Range(connected_clients) \ S
<1>1. kept \subseteq Sockets /\ DOMAIN connected_clients = 1 .. Len(connected_clients)
    BY DEF Range
<1>2. Cardinality(kept) \in Nat
    <2>1. IsFiniteSet(Sockets)
        BY ServerAssumption, FS_Interval DEF ServerAssumption, Sockets
    <2>2. IsFiniteSet(kept)
        BY <1>1, <2>1, FS_Subset
    <2> QED
        BY <2>2, FS_CardinalityType
<1>3. /\ list \in [1 .. Cardinality(kept) -> kept]
      /\ Range(list) = kept
      /\ \A i, j \in DOMAIN list : i < j =>
             \E k, l \in DOMAIN connected_clients :
                 k < l /\ connected_clients[k] = list[i] /\ connected_clients[l] = list[j]
    BY DEF ListWithout
<1> DEFINE n == Cardinality(kept)
<1> HIDE DEF n, kept
<1>4. list \in Seq(Sockets) /\ DOMAIN list = 1 .. n
    BY <1>1, <1>2, <1>3 DEF n
<1>5. ASSUME IsInjective(connected_clients)
      PROVE  IsInjective(list)
    <2> SUFFICES ASSUME NEW i \in DOMAIN list, NEW j \in DOMAIN list, i < j
                 PROVE  list[i] # list[j]
        BY <1>2, <1>4 DEF IsInjective, n
    <2>1. PICK k \in DOMAIN connected_clients, l \in DOMAIN connected_clients :
              k < l /\ connected_clients[k] = list[i] /\ connected_clients[l] = list[j]
        BY <1>3
    <2>2. k # l
        BY <1>1, <2>1
    <2> QED
        BY <1>5, <2>1, <2>2 DEF IsInjective
<1> QED
    BY <1>3, <1>4, <1>5 DEF kept

-----------------------------------------------------------------------------
(* Types, and the metrics history *)

ClusterType ==
    cluster \in [number : 0 .. MaxInits, tick_count : 0 .. MaxTicks, history : Seq(1 .. MaxTicks)]

LEMMA PushKeepsNewest ==
    ASSUME NEW k \in Nat, NEW top \in Nat, k < top
    PROVE  /\ Push(Newest(k), MaxHistory, k + 1) = Newest(k + 1)
           /\ Newest(k + 1) \in Seq(1 .. top)
<1> DEFINE before == Least(MaxHistory, k)
           after == Least(MaxHistory, k + 1)
           log == Newest(k)
           new == Push(log, MaxHistory, k + 1)
<1>1. MaxHistory \in Nat \ {0}
    BY ServerAssumption DEF ServerAssumption
<1>2. before \in Nat /\ before <= k /\ before <= MaxHistory /\ after \in Nat \ {0}
    BY <1>1 DEF Least
<1>3. log = [i \in 1 .. before |-> k - before + i]
    BY DEF Newest
<1>4. Newest(k + 1) = [i \in 1 .. after |-> (k + 1) - after + i]
    BY DEF Newest
<1>5. after = Least(MaxHistory, before + 1)
    BY <1>1 DEF Least
<1>6. after <= before + 1 /\ after >= before
    BY <1>1 DEF Least
<1> HIDE DEF before, after, log, new
<1>7. \A i \in 1 .. before : log[i] = k - before + i /\ log[i] \in 1 .. top
    BY <1>2, <1>3
<1>8. log \in Seq(1 .. top) /\ Len(log) = before
    BY <1>2, <1>3, <1>7
<1>9. /\ new \in Seq(1 .. top)
      /\ Len(new) = after
      /\ \A i \in 1 .. after - 1 : new[i] = log[before + 1 - after + i]
      /\ new[after] = k + 1
    <2> DEFINE m == Least(MaxHistory, Len(log) + 1)
    <2>1. k + 1 \in 1 .. top /\ Len(log) <= MaxHistory
        BY <1>2, <1>8
    <2> DEFINE entry == k + 1
               max == MaxHistory
               S == 1 .. top
    <2>2. log \in Seq(S) /\ entry \in S /\ max \in Nat \ {0} /\ Len(log) <= max
        BY <1>1, <1>8, <2>1
    <2>3. new = Push(log, max, entry)
        BY DEF new
    <2> HIDE DEF entry, max, S
    <2>4. /\ new \in Seq(S)
          /\ Len(new) = m
          /\ \A i \in 1 .. m - 1 : new[i] = log[Len(log) + 1 - m + i]
          /\ new[m] = entry
        BY <2>2, <2>3, PushProperties DEF max
    <2>5. m = after
        BY <1>5, <1>8
    <2> QED
        BY <1>8, <2>4, <2>5 DEF S, entry
<1>10. \A i \in 1 .. after : new[i] = (k + 1) - after + i
    <2> TAKE i \in 1 .. after
    <2>1. CASE i = after
        BY <1>2, <1>9, <2>1
    <2>2. CASE i # after
        <3>1. i \in 1 .. after - 1 /\ before + 1 - after + i \in 1 .. before
            BY <1>2, <1>6, <2>2
        <3> QED
            BY <1>2, <1>7, <1>9, <3>1
    <2> QED
        BY <2>1, <2>2
<1>11. new = [i \in 1 .. after |-> (k + 1) - after + i]
    BY <1>2, <1>9, <1>10
<1> QED
    BY <1>4, <1>9, <1>11 DEF new, log

\* A tick adds its own number to the history.
LEMMA TickKeepsHistory ==
    ASSUME ClusterType, NewestKept, Tick
    PROVE  /\ ClusterType' /\ NewestKept'
           /\ cluster'.number = cluster.number
           /\ cluster'.tick_count = cluster.tick_count + 1
<1>1. /\ cluster.tick_count \in Nat /\ cluster.tick_count < MaxTicks
      /\ MaxTicks \in Nat /\ cluster.number \in 0 .. MaxInits
    BY ServerAssumption DEF ServerAssumption, ClusterType, Tick
<1>2. cluster' = [number |-> cluster.number, tick_count |-> cluster.tick_count + 1,
                  history |-> Push(cluster.history, MaxHistory, cluster.tick_count + 1)]
    BY DEF ClusterType, Tick, Ticked
<1>3. /\ cluster'.number = cluster.number
      /\ cluster'.tick_count = cluster.tick_count + 1
      /\ cluster'.history = Push(cluster.history, MaxHistory, cluster.tick_count + 1)
    BY <1>2
<1>4. /\ Push(Newest(cluster.tick_count), MaxHistory, cluster.tick_count + 1)
             = Newest(cluster.tick_count + 1)
      /\ Newest(cluster.tick_count + 1) \in Seq(1 .. MaxTicks)
    BY <1>1, PushKeepsNewest
<1>5. NewestKept'
    BY <1>3, <1>4 DEF NewestKept
<1>6. cluster.tick_count + 1 \in 0 .. MaxTicks /\ cluster'.history \in Seq(1 .. MaxTicks)
    BY <1>1, <1>3, <1>4 DEF NewestKept
<1>7. ClusterType'
    BY <1>1, <1>2, <1>3, <1>6 DEF ClusterType
<1> QED
    BY <1>3, <1>5, <1>7

\* Every cluster starts with an empty history.
LEMMA NewClusterIsFresh ==
    ASSUME NEW number \in 0 .. MaxInits, cluster' = NewCluster(number)
    PROVE  ClusterType' /\ NewestKept'
<1>1. MaxHistory \in Nat \ {0} /\ MaxTicks \in Nat
    BY ServerAssumption DEF ServerAssumption
<1>2. cluster' = [number |-> number, tick_count |-> 0, history |-> <<>>]
    BY DEF NewCluster
<1>3. ClusterType'
    BY <1>1, <1>2 DEF ClusterType
<1>4. Least(MaxHistory, 0) = 0
    BY <1>1 DEF Least
<1>5. <<>> = [i \in 1 .. 0 |-> 0 - 0 + i]
    OBVIOUS
<1>6. cluster'.history = <<>> /\ cluster'.tick_count = 0
    BY <1>2
<1>7. NewestKept'
    BY <1>4, <1>5, <1>6 DEF NewestKept, Newest
<1> QED
    BY <1>3, <1>7

LEMMA TaskAtType ==
    ASSUME NEW at \in TaskPlace
    PROVE  /\ TaskAt(at) \in TaskRecord
           /\ TaskAt(at).at = at
           /\ TaskAt(at).index = 0
           /\ TaskAt(at).dead = <<>>
           /\ TaskAt(at).shifted = FALSE
<1>1. MaxTicks \in Nat /\ MaxInits \in Nat
    BY ServerAssumption DEF ServerAssumption
<1>2. Never \in Stamp
    BY <1>1 DEF Never, Stamp
<1> QED
    BY <1>2 DEF TaskAt, TaskRecord

LEMMA GoOnType ==
    ASSUME TypeOK, NEW t \in Tasks, NEW b \in TaskRecord, GoOn(t, b)
    PROVE  /\ task' \in [Tasks -> TaskRecord]
           /\ connected_clients' \in Seq(Sockets)
           /\ heard' \in [Sockets -> Stamp]
<1>1. CASE NextIndex(b) <= Len(connected_clients)
    <2> DEFINE i == NextIndex(b)
               c == connected_clients[i]
               r == [b EXCEPT !.at = "send", !.index = i, !.to = c]
    <2>1. i \in Nat /\ c \in Sockets /\ b.message \in Stamp
        BY <1>1 DEF NextIndex, TaskRecord, TypeOK
    <2>2. SendTo(t, b, i)
        BY <1>1 DEF GoOn
    <2>3. r \in TaskRecord
        BY <2>1 DEF TaskRecord, TaskPlace
    <2>4. task' = [task EXCEPT ![t] = r]
        BY <2>2 DEF SendTo
    <2> QED
        BY <2>1, <2>2, <2>3, <2>4 DEF SendTo, TypeOK
<1>2. CASE ~ (NextIndex(b) <= Len(connected_clients))
    <2>1. EndBroadcast(t, b)
        BY <1>2 DEF GoOn
    <2>2. connected_clients' \in Seq(Sockets)
        BY <2>1, ListWithoutProperties DEF EndBroadcast, TypeOK
    <2>3. PICK place \in {"end", "sleep"} : task' = [task EXCEPT ![t] = TaskAt(place)]
        BY <2>1 DEF EndBroadcast
    <2>4. TaskAt(place) \in TaskRecord
        BY TaskAtType DEF TaskPlace
    <2> QED
        BY <2>1, <2>2, <2>3, <2>4 DEF EndBroadcast, TypeOK
<1> QED
    BY <1>1, <1>2

\* A broadcast under way, and one that begins.
LEMMA SendingRecords ==
    ASSUME TypeOK, NEW t \in Tasks
    PROVE  /\ task[t] \in TaskRecord
           /\ task[t].at = "send" /\ task[t].to \in Sockets =>
                  [task[t] EXCEPT !.dead = Append(@, task[t].to)] \in TaskRecord
           /\ cluster.tick_count < MaxTicks =>
                  [TaskAt("send") EXCEPT !.message = <<cluster.number, cluster.tick_count + 1>>]
                      \in TaskRecord
<1>1. task[t] \in TaskRecord
    BY DEF TypeOK
<1>2. ASSUME task[t].to \in Sockets
      PROVE  [task[t] EXCEPT !.dead = Append(@, task[t].to)] \in TaskRecord
    <2>1. Append(task[t].dead, task[t].to) \in Seq(Sockets)
        BY <1>1, <1>2, AppendProperties DEF TaskRecord
    <2> QED
        BY <1>1, <2>1 DEF TaskRecord
<1>3. ASSUME cluster.tick_count < MaxTicks
      PROVE  [TaskAt("send") EXCEPT !.message = <<cluster.number, cluster.tick_count + 1>>]
                 \in TaskRecord
    <2>1. <<cluster.number, cluster.tick_count + 1>> \in Stamp
        BY <1>3, ServerAssumption DEF ServerAssumption, TypeOK, Stamp
    <2>2. TaskAt("send") \in TaskRecord
        BY TaskAtType DEF TaskPlace
    <2> QED
        BY <2>1, <2>2 DEF TaskRecord
<1> QED
    BY <1>1, <1>2, <1>3

LEMMA TypeInit == Init => TypeOK /\ NewestKept
<1> SUFFICES ASSUME Init PROVE TypeOK /\ NewestKept
    OBVIOUS
<1>1. MaxTicks \in Nat /\ MaxInits \in Nat /\ MaxHistory \in Nat \ {0}
    BY ServerAssumption DEF ServerAssumption
<1>2. cluster = [number |-> 0, tick_count |-> 0, history |-> <<>>]
    BY DEF Init, NewCluster
<1>3. cluster \in [number : 0 .. MaxInits, tick_count : 0 .. MaxTicks, history : Seq(1 .. MaxTicks)]
    BY <1>1, <1>2
<1>4. NewestKept
    <2>1. Least(MaxHistory, 0) = 0
        BY <1>1 DEF Least
    <2>2. <<>> = [i \in 1 .. 0 |-> 0 - 0 + i]
        OBVIOUS
    <2>3. cluster.history = <<>> /\ cluster.tick_count = 0
        BY <1>2
    <2> QED
        BY <2>1, <2>2, <2>3 DEF NewestKept, Newest
<1>5. TaskAt("end") \in TaskRecord /\ Never \in Stamp
    BY <1>1, TaskAtType DEF TaskPlace, Never, Stamp
<1>6. task \in [Tasks -> TaskRecord] /\ heard \in [Sockets -> Stamp]
    BY <1>5 DEF Init
<1>7. link \in [Sockets -> Link] /\ connected_clients \in Seq(Sockets)
    BY DEF Init, Link
<1>8. simulation_running \in BOOLEAN /\ simulation_task \in Tasks \cup {NoTask}
    BY DEF Init
<1> QED
    BY <1>3, <1>4, <1>6, <1>7, <1>8 DEF TypeOK

\* Types are kept by every step, and so is the history.
LEMMA TypeStep == TypeOK /\ NewestKept /\ SendsOK /\ [Next]_vars => TypeOK' /\ NewestKept'
<1> SUFFICES ASSUME TypeOK, NewestKept, SendsOK, [Next]_vars
             PROVE  TypeOK' /\ NewestKept'
    OBVIOUS
<1> USE DEF clientVars, simulationVars
<1>1. CASE InitCluster
    <2>1. cluster.number + 1 \in 0 .. MaxInits
        BY <1>1, ServerAssumption DEF InitCluster, TypeOK, ServerAssumption
    <2>2. ClusterType' /\ NewestKept'
        BY <1>1, <2>1, NewClusterIsFresh DEF InitCluster
    <2> QED
        BY <1>1, <2>2 DEF InitCluster, TypeOK, ClusterType
<1>2. CASE ManualTick \/ \E c \in Sockets : SocketTick(c)
    <2>1. ClusterType' /\ NewestKept'
        BY <1>2, TickKeepsHistory DEF ManualTick, SocketTick, TypeOK, ClusterType
    <2> QED
        BY <1>2, <2>1 DEF ManualTick, SocketTick, TypeOK, ClusterType
<1>3. CASE StartSimulation
    <2>1. PICK t \in Tasks :
              task' = [task EXCEPT ![t] = TaskAt("start")] /\ simulation_task' = t
        BY <1>3 DEF StartSimulation
    <2>2. TaskAt("start") \in TaskRecord
        BY TaskAtType DEF TaskPlace
    <2> QED
        BY <1>3, <2>1, <2>2 DEF StartSimulation, TypeOK, NewestKept
<1>4. CASE StopSimulation
    <2>1. TaskAt("cancelled") \in TaskRecord
        BY TaskAtType DEF TaskPlace
    <2> QED
        BY <1>4, <2>1 DEF StopSimulation, Cancelled, TypeOK, NewestKept
<1>5. ASSUME NEW t \in Tasks, RunLoop(t)
      PROVE  TypeOK' /\ NewestKept'
    <2>1. CASE simulation_running
        <3> DEFINE b == [TaskAt("send") EXCEPT !.message = <<cluster.number, cluster.tick_count + 1>>]
        <3>1. Tick /\ GoOn(t, b) /\ UNCHANGED <<simulationVars, link>>
            BY <1>5, <2>1 DEF RunLoop
        <3>2. b \in TaskRecord
            BY <3>1, SendingRecords DEF Tick
        <3> HIDE DEF b
        <3>3. ClusterType' /\ NewestKept'
            BY <3>1, TickKeepsHistory DEF TypeOK, ClusterType
        <3>4. /\ task' \in [Tasks -> TaskRecord]
              /\ connected_clients' \in Seq(Sockets)
              /\ heard' \in [Sockets -> Stamp]
            BY <3>1, <3>2, GoOnType
        <3> QED
            BY <3>1, <3>3, <3>4 DEF TypeOK, ClusterType
    <2>2. CASE ~ simulation_running
        <3>1. TaskAt("end") \in TaskRecord
            BY TaskAtType DEF TaskPlace
        <3> QED
            BY <1>5, <2>2, <3>1 DEF RunLoop, TypeOK, NewestKept
    <2> QED
        BY <2>1, <2>2
<1>6. ASSUME NEW t \in Tasks, EndSend(t)
      PROVE  TypeOK' /\ NewestKept'
    <2>1. task[t].at = "send" /\ UNCHANGED <<cluster, simulationVars, link>>
        BY <1>6 DEF EndSend
    <2>2. PICK b \in TaskRecord : GoOn(t, b)
        BY <1>6, <2>1, SendingRecords DEF EndSend, SendsOK
    <2>3. /\ task' \in [Tasks -> TaskRecord]
          /\ connected_clients' \in Seq(Sockets)
          /\ heard' \in [Sockets -> Stamp]
        BY <2>2, GoOnType
    <2> QED
        BY <2>1, <2>3 DEF TypeOK, NewestKept
<1>7. ASSUME NEW t \in Tasks, Die(t)
      PROVE  TypeOK' /\ NewestKept'
    <2>1. TaskAt("end") \in TaskRecord
        BY TaskAtType DEF TaskPlace
    <2> QED
        BY <1>7, <2>1 DEF Die, TypeOK, NewestKept
<1>8. ASSUME NEW c \in Sockets, Connect(c)
      PROVE  TypeOK' /\ NewestKept'
    <2>1. Append(connected_clients, c) \in Seq(Sockets)
        BY AppendProperties DEF TypeOK
    <2> QED
        BY <1>8, <2>1 DEF Connect, TypeOK, NewestKept, Link
<1>9. ASSUME NEW c \in Sockets, Vanish(c)
      PROVE  TypeOK' /\ NewestKept'
    BY <1>9 DEF Vanish, TypeOK, NewestKept, Link
<1>10. ASSUME NEW c \in Sockets, EndEndpoint(c)
      PROVE  TypeOK' /\ NewestKept'
    <2>1. link' \in [Sockets -> Link]
        BY <1>10 DEF EndEndpoint, TypeOK, Link
    <2>2. connected_clients' \in Seq(Sockets) /\ task' \in [Tasks -> TaskRecord]
        <3>1. CASE UNCHANGED <<connected_clients, task>>
            BY <3>1 DEF TypeOK
        <3>2. ASSUME NEW i \in DOMAIN connected_clients,
                     connected_clients' = WithoutEntry(i),
                     task' = [t \in Tasks |-> [task[t] EXCEPT !.shifted =
                                  @ \/ (task[t].at = "send" /\ i <= task[t].index)]]
              PROVE  connected_clients' \in Seq(Sockets) /\ task' \in [Tasks -> TaskRecord]
            <4>1. connected_clients' \in Seq(Sockets)
                BY <3>2, RemoveAtProperties DEF WithoutEntry, TypeOK
            <4>2. \A t \in Tasks, x \in BOOLEAN : [task[t] EXCEPT !.shifted = x] \in TaskRecord
                BY DEF TypeOK, TaskRecord
            <4>3. \A t \in Tasks :
                      (task[t].shifted \/ (task[t].at = "send" /\ i <= task[t].index)) \in BOOLEAN
                BY DEF TypeOK, TaskRecord
            <4> QED
                BY <3>2, <4>1, <4>2, <4>3
        <3> QED
            BY <1>10, <3>1, <3>2 DEF EndEndpoint, LeaveList
    <2> QED
        BY <1>10, <2>1, <2>2 DEF EndEndpoint, TypeOK, NewestKept
<1>11. CASE UNCHANGED vars
    BY <1>11 DEF vars, TypeOK, NewestKept
<1> QED
    BY <1>1, <1>2, <1>3, <1>4, <1>5, <1>6, <1>7, <1>8, <1>9, <1>10, <1>11 DEF Next, TaskStep

-----------------------------------------------------------------------------
(* What a step of broadcast does *)

\* The next client is sent to.
Sends(t, b) ==
    /\ b.index + 1 \in DOMAIN connected_clients
    /\ task'[t].at = "send"
    /\ task'[t].index = b.index + 1
    /\ task'[t].to = connected_clients[b.index + 1]
    /\ task'[t].message = b.message
    /\ task'[t].dead = b.dead
    /\ task'[t].shifted = b.shifted
    /\ heard' = IF link[connected_clients[b.index + 1]] = "open"
                THEN [heard EXCEPT ![connected_clients[b.index + 1]] = b.message] ELSE heard
    /\ connected_clients' = connected_clients

\* There is none, and the dead are removed.
Ends(t, b) ==
    /\ b.index >= Len(connected_clients)
    /\ task'[t].at \in {"sleep", "end"}
    /\ connected_clients' \in ListWithout(DropDead(b.dead))
    /\ heard' = heard

OthersWait(t) == \A u \in Tasks : u # t => task'[u] = task[u]

LEMMA GoOnCases ==
    ASSUME TypeOK, NEW t \in Tasks, NEW b \in TaskRecord, GoOn(t, b)
    PROVE  OthersWait(t) /\ (Sends(t, b) \/ Ends(t, b))
<1>0. b.index \in Nat
    BY DEF TaskRecord
<1>1. CASE NextIndex(b) <= Len(connected_clients)
    <2> DEFINE i == b.index + 1
               c == connected_clients[i]
               r == [b EXCEPT !.at = "send", !.index = i, !.to = c]
    <2>1. task' = [task EXCEPT ![t] = r]
        BY <1>1 DEF GoOn, SendTo, NextIndex
    <2>2. /\ r.at = "send" /\ r.index = i /\ r.to = c
          /\ r.message = b.message /\ r.dead = b.dead /\ r.shifted = b.shifted
        BY DEF TaskRecord
    <2> HIDE DEF r
    <2>3. task'[t] = r /\ OthersWait(t)
        BY <2>1 DEF TypeOK, OthersWait
    <2>4. i \in DOMAIN connected_clients
        BY <1>0, <1>1 DEF NextIndex, TypeOK
    <2> QED
        BY <1>1, <2>2, <2>3, <2>4 DEF GoOn, SendTo, NextIndex, Sends
<1>2. CASE ~ (NextIndex(b) <= Len(connected_clients))
    <2>1. EndBroadcast(t, b) /\ b.index >= Len(connected_clients)
        BY <1>0, <1>2 DEF GoOn, NextIndex, TypeOK
    <2>2. PICK place \in {"sleep", "end"} : task' = [task EXCEPT ![t] = TaskAt(place)]
        BY <2>1 DEF EndBroadcast
    <2>3. TaskAt(place).at = place
        BY TaskAtType DEF TaskPlace
    <2> QED
        BY <2>1, <2>2, <2>3 DEF EndBroadcast, Ends, OthersWait, TypeOK
<1> QED
    BY <1>1, <1>2

\* A broadcast that goes on is the one that was suspended, with perhaps one more dead client.
LEMMA EndSendCases ==
    ASSUME TypeOK, SendsOK, NEW t \in Tasks, EndSend(t)
    PROVE  /\ UNCHANGED <<cluster, simulation_running, simulation_task, link>>
           /\ task[t].at = "send"
           /\ OthersWait(t)
           /\ \E b \in TaskRecord :
                  /\ b.message = task[t].message
                  /\ b.index = task[t].index
                  /\ b.shifted = task[t].shifted
                  /\ \A i \in DOMAIN b.dead : link[b.dead[i]] \in {"gone", "closed"}
                  /\ Sends(t, b) \/ Ends(t, b)
<1>1. task[t].at = "send" /\ UNCHANGED <<cluster, simulation_running, simulation_task, link>>
    BY DEF EndSend, simulationVars
<1>2. /\ task[t] \in TaskRecord
      /\ task[t].to \in Sockets /\ link[task[t].to] # "new"
      /\ \A i \in DOMAIN task[t].dead : link[task[t].dead[i]] \in {"gone", "closed"}
      /\ task[t].dead \in Seq(Sockets)
    BY <1>1 DEF SendsOK, TypeOK, TaskRecord
<1>3. CASE GoOn(t, task[t])
    <2>1. OthersWait(t) /\ (Sends(t, task[t]) \/ Ends(t, task[t]))
        BY <1>2, <1>3, GoOnCases
    <2> QED
        BY <1>1, <1>2, <2>1
<1>4. CASE link[task[t].to] # "open" /\ GoOn(t, [task[t] EXCEPT !.dead = Append(@, task[t].to)])
    <2> DEFINE more == Append(task[t].dead, task[t].to)
               b == [task[t] EXCEPT !.dead = more]
    <2>1. b \in TaskRecord
        BY <1>1, <1>2, SendingRecords
    <2>2. OthersWait(t) /\ (Sends(t, b) \/ Ends(t, b))
        BY <1>4, <2>1, GoOnCases
    <2>3. b.message = task[t].message /\ b.index = task[t].index /\ b.shifted = task[t].shifted
          /\ b.dead = more
        BY <1>2 DEF TaskRecord
    <2>4. link[task[t].to] \in {"gone", "closed"}
        BY <1>2, <1>4 DEF TypeOK, Link
    <2>5. \A i \in DOMAIN more : link[more[i]] \in {"gone", "closed"}
        <3>1. /\ Len(more) = Len(task[t].dead) + 1
              /\ more \in Seq(Sockets)
              /\ \A i \in 1 .. Len(task[t].dead) : more[i] = task[t].dead[i]
              /\ more[Len(task[t].dead) + 1] = task[t].to
            BY <1>2, AppendProperties
        <3> HIDE DEF more
        <3> QED
            BY <1>2, <2>4, <3>1
    <2> HIDE DEF b, more
    <2> QED
        BY <1>1, <2>1, <2>2, <2>3, <2>5
<1> QED
    BY <1>3, <1>4 DEF EndSend

\* A round of the loop ticks and begins a broadcast, unless the simulation has been stopped.
LEMMA RunLoopCases ==
    ASSUME TypeOK, NewestKept, NEW t \in Tasks, RunLoop(t)
    PROVE  /\ UNCHANGED <<simulation_running, simulation_task, link>>
           /\ task[t].at \in {"start", "sleep"}
           /\ OthersWait(t)
           /\ \/ /\ task'[t].at = "end"
                 /\ UNCHANGED <<cluster, connected_clients, heard>>
              \/ /\ cluster'.number = cluster.number
                 /\ cluster'.tick_count = cluster.tick_count + 1
                 /\ \E b \in TaskRecord :
                        /\ b.message = <<cluster.number, cluster.tick_count + 1>>
                        /\ b.index = 0
                        /\ b.shifted = FALSE
                        /\ b.dead = <<>>
                        /\ Sends(t, b) \/ Ends(t, b)
<1>1. /\ UNCHANGED <<simulation_running, simulation_task, link>>
      /\ task[t].at \in {"start", "sleep"}
    BY DEF RunLoop, simulationVars
<1>2. CASE ~ simulation_running
    <2>1. TaskAt("end").at = "end"
        BY TaskAtType DEF TaskPlace
    <2>2. OthersWait(t) /\ task'[t].at = "end" /\ UNCHANGED <<cluster, connected_clients, heard>>
        BY <1>2, <2>1 DEF RunLoop, OthersWait, TypeOK
    <2> QED
        BY <1>1, <2>2
<1>3. CASE simulation_running
    <2> DEFINE stamp == <<cluster.number, cluster.tick_count + 1>>
               b == [TaskAt("send") EXCEPT !.message = stamp]
    <2>1. Tick /\ GoOn(t, b)
        BY <1>3 DEF RunLoop
    <2>2. b \in TaskRecord
        BY <2>1, SendingRecords DEF Tick
    <2>3. OthersWait(t) /\ (Sends(t, b) \/ Ends(t, b))
        BY <2>1, <2>2, GoOnCases
    <2>4. b.message = stamp /\ b.index = 0 /\ b.shifted = FALSE /\ b.dead = <<>>
        BY DEF TaskAt
    <2>5. cluster'.number = cluster.number /\ cluster'.tick_count = cluster.tick_count + 1
        BY <2>1, TickKeepsHistory DEF TypeOK, ClusterType
    <2> HIDE DEF b
    <2> QED
        BY <1>1, <2>2, <2>3, <2>4, <2>5
<1> QED
    BY <1>2, <1>3

-----------------------------------------------------------------------------
(* One loop *)

LEMMA OneLoopStep == TypeOK /\ NewestKept /\ SendsOK /\ OneLoop /\ [Next]_vars => OneLoop'
<1> SUFFICES ASSUME TypeOK, NewestKept, SendsOK, OneLoop, [Next]_vars,
                    NEW u \in Tasks, Loops(u)'
             PROVE  simulation_running' /\ simulation_task' = u
    BY DEF OneLoop
<1>1. CASE InitCluster \/ ManualTick \/ \E c \in Sockets : SocketTick(c) \/ Connect(c) \/ Vanish(c)
    BY <1>1 DEF InitCluster, ManualTick, SocketTick, Connect, Vanish, Loops, OneLoop, simulationVars
<1>2. CASE StartSimulation
    <2>1. PICK t \in Tasks :
              task' = [task EXCEPT ![t] = TaskAt("start")] /\ simulation_task' = t
        BY <1>2 DEF StartSimulation
    <2>2. ~ Loops(u)
        BY <1>2 DEF StartSimulation, OneLoop
    <2> QED
        BY <1>2, <2>1, <2>2 DEF StartSimulation, Loops, TypeOK
<1>3. CASE StopSimulation
    <2>1. CASE u = simulation_task
        <3>1. TaskAt("cancelled").at = "cancelled"
            BY TaskAtType DEF TaskPlace
        <3> QED
            BY <1>3, <2>1, <3>1 DEF StopSimulation, Cancelled, Loops
    <2>2. CASE u # simulation_task
        BY <1>3, <2>2 DEF StopSimulation, Loops, OneLoop
    <2> QED
        BY <2>1, <2>2
<1>4. ASSUME NEW t \in Tasks, RunLoop(t) \/ EndSend(t)
      PROVE  simulation_running' /\ simulation_task' = u
    <2>1. Loops(t) /\ OthersWait(t) /\ UNCHANGED <<simulation_running, simulation_task>>
        BY <1>4, RunLoopCases, EndSendCases DEF Loops
    <2>2. Loops(u)
        BY <2>1 DEF Loops, OthersWait
    <2> QED
        BY <2>1, <2>2 DEF OneLoop
<1>5. ASSUME NEW t \in Tasks, Die(t)
      PROVE  simulation_running' /\ simulation_task' = u
    <2>1. TaskAt("end").at = "end"
        BY TaskAtType DEF TaskPlace
    <2> QED
        BY <1>5, <2>1 DEF Die, Loops, OneLoop, TypeOK, simulationVars
<1>6. ASSUME NEW c \in Sockets, EndEndpoint(c)
      PROVE  simulation_running' /\ simulation_task' = u
    <2>1. task'[u].at = task[u].at
        BY <1>6 DEF EndEndpoint, LeaveList, TypeOK, TaskRecord
    <2> QED
        BY <1>6, <2>1 DEF EndEndpoint, Loops, OneLoop, simulationVars
<1>7. CASE UNCHANGED vars
    BY <1>7 DEF vars, simulationVars, Loops, OneLoop
<1> QED
    BY <1>1, <1>2, <1>3, <1>4, <1>5, <1>6, <1>7 DEF Next, TaskStep

-----------------------------------------------------------------------------
(* The list of clients *)

LEMMA RemoveEntry ==
    ASSUME connected_clients \in Seq(Sockets), IsInjective(connected_clients),
           NEW i \in DOMAIN connected_clients, connected_clients' = WithoutEntry(i)
    PROVE  /\ IsInjective(connected_clients)'
           /\ Range(connected_clients)' = Range(connected_clients) \ {connected_clients[i]}
           /\ connected_clients' \in Seq(Sockets)
           /\ Len(connected_clients') = Len(connected_clients) - 1
           /\ \A j \in 1 .. Len(connected_clients) - 1 :
                  connected_clients'[j] = IF j < i THEN connected_clients[j]
                                                   ELSE connected_clients[j + 1]
<1> DEFINE s == connected_clients
           r == connected_clients'
           n == Len(connected_clients)
<1>1. i \in 1 .. n /\ n \in Nat /\ DOMAIN s = 1 .. n
    OBVIOUS
<1>2. /\ r \in Seq(Sockets) /\ Len(r) = n - 1
      /\ \A j \in 1 .. n - 1 : r[j] = IF j < i THEN s[j] ELSE s[j + 1]
    BY <1>1, RemoveAtProperties DEF WithoutEntry
<1>3. DOMAIN r = 1 .. n - 1
    BY <1>1, <1>2
<1> DEFINE old(j) == IF j < i THEN j ELSE j + 1
<1> HIDE DEF r, n, s
<1>10. \A j \in 1 .. n - 1 : old(j) \in 1 .. n /\ old(j) # i
    BY <1>1
<1>11. \A j, k \in 1 .. n - 1 : old(j) = old(k) => j = k
    BY <1>1
<1>12. \A j \in 1 .. n - 1 : r[j] = s[old(j)]
    BY <1>2
<1>13. \A j, k \in 1 .. n : s[j] = s[k] => j = k
    BY <1>1 DEF s, IsInjective
<1> HIDE DEF old
<1>4. IsInjective(r)
    BY <1>10, <1>11, <1>12, <1>13, <1>3 DEF IsInjective
<1>5. Range(r) \subseteq Range(s) \ {s[i]}
    <2> SUFFICES ASSUME NEW j \in 1 .. n - 1
                 PROVE  r[j] \in Range(s) /\ r[j] # s[i]
        BY <1>3 DEF Range
    <2> QED
        BY <1>1, <1>10, <1>12, <1>13 DEF Range
<1>6. ASSUME NEW c \in Range(s) \ {s[i]}
      PROVE  c \in Range(r)
    <2>1. PICK k \in 1 .. n : s[k] = c
        BY <1>1 DEF Range
    <2>2. k # i
        BY <1>6, <2>1
    <2>3. CASE k < i
        <3>1. k \in 1 .. n - 1
            BY <1>1, <2>3
        <3>2. r[k] = c
            BY <1>2, <2>1, <2>3, <3>1
        <3> QED
            BY <1>3, <3>1, <3>2 DEF Range
    <2>4. CASE k > i
        <3>1. k - 1 \in 1 .. n - 1 /\ (k - 1) + 1 = k /\ ~ (k - 1 < i)
            BY <1>1, <2>4
        <3>2. r[k - 1] = c
            BY <1>2, <2>1, <3>1
        <3> QED
            BY <1>3, <3>1, <3>2 DEF Range
    <2> QED
        BY <1>1, <2>2, <2>3, <2>4
<1> QED
    BY <1>2, <1>4, <1>5, <1>6 DEF r, n, s

\* What an endpoint's end does to list and tasks.
LEMMA EndEndpointCases ==
    ASSUME TypeOK, NEW c \in Sockets, EndEndpoint(c)
    PROVE  /\ link' = [link EXCEPT ![c] = "closed"]
           /\ UNCHANGED <<cluster, simulation_running, simulation_task, heard>>
           /\ \A t \in Tasks : /\ task'[t].at = task[t].at /\ task'[t].index = task[t].index
                               /\ task'[t].message = task[t].message
                               /\ task'[t].to = task[t].to /\ task'[t].dead = task[t].dead
           /\ \/ /\ c \notin Range(connected_clients)
                 /\ UNCHANGED <<connected_clients, task>>
              \/ \E i \in DOMAIN connected_clients :
                     /\ connected_clients[i] = c
                     /\ connected_clients' = WithoutEntry(i)
                     /\ \A t \in Tasks : task[t].at = "send" /\ ~ task'[t].shifted =>
                            ~ task[t].shifted /\ ~ (i <= task[t].index)
<1>1. \A t \in Tasks : task[t] \in TaskRecord
    BY DEF TypeOK
<1>3. CASE c \notin Range(connected_clients) /\ UNCHANGED <<connected_clients, task>>
    BY <1>3 DEF EndEndpoint, simulationVars
<1>4. ASSUME NEW i \in DOMAIN connected_clients,
             connected_clients[i] = c,
             connected_clients' = WithoutEntry(i),
             task' = [t \in Tasks |-> [task[t] EXCEPT !.shifted =
                          @ \/ (task[t].at = "send" /\ i <= task[t].index)]]
      PROVE  /\ \A t \in Tasks : /\ task'[t].at = task[t].at /\ task'[t].index = task[t].index
                                 /\ task'[t].message = task[t].message
                                 /\ task'[t].to = task[t].to /\ task'[t].dead = task[t].dead
             /\ \A t \in Tasks : task[t].at = "send" /\ ~ task'[t].shifted =>
                    ~ task[t].shifted /\ ~ (i <= task[t].index)
    <2>1. ASSUME NEW t \in Tasks
          PROVE  /\ task'[t].at = task[t].at /\ task'[t].index = task[t].index
                 /\ task'[t].message = task[t].message
                 /\ task'[t].to = task[t].to /\ task'[t].dead = task[t].dead
                 /\ task[t].at = "send" /\ ~ task'[t].shifted =>
                        ~ task[t].shifted /\ ~ (i <= task[t].index)
        <3> DEFINE now == task[t].shifted \/ (task[t].at = "send" /\ i <= task[t].index)
                   r == [task[t] EXCEPT !.shifted = now]
        <3>1. task'[t] = r
            BY <1>4
        <3>2. now = (task[t].shifted \/ (task[t].at = "send" /\ i <= task[t].index))
            OBVIOUS
        <3> HIDE DEF now
        <3>3. /\ r.at = task[t].at /\ r.index = task[t].index
              /\ r.message = task[t].message /\ r.to = task[t].to
              /\ r.dead = task[t].dead /\ r.shifted = now
            BY <1>1 DEF TaskRecord
        <3> HIDE DEF r
        <3>4. task[t].at = "send" /\ ~ now => ~ task[t].shifted /\ ~ (i <= task[t].index)
            BY <3>2
        <3> QED
            BY <3>1, <3>3, <3>4
    <2> QED
        BY <2>1
<1> QED
    BY <1>3, <1>4 DEF EndEndpoint, LeaveList, simulationVars

\* Only lost clients are dropped by broadcast.
LEMMA EndsKeepsRoster ==
    ASSUME TypeOK, RosterExact, NEW t, NEW b \in TaskRecord, Ends(t, b), link' = link,
           \A i \in DOMAIN b.dead : link[b.dead[i]] \in {"gone", "closed"}
    PROVE  RosterExact'
<1>1. DropDead(b.dead) \subseteq {b.dead[i] : i \in DOMAIN b.dead}
    BY DEF DropDead
<1>2. /\ IsInjective(connected_clients)'
      /\ Range(connected_clients)' = Range(connected_clients) \ DropDead(b.dead)
    BY ListWithoutProperties DEF Ends, TypeOK, RosterExact
<1> QED
    BY <1>1, <1>2 DEF RosterExact

LEMMA RosterStep ==
    TypeOK /\ NewestKept /\ SendsOK /\ RosterExact /\ [Next]_vars => RosterExact'
<1> SUFFICES ASSUME TypeOK, NewestKept, SendsOK, RosterExact, [Next]_vars
             PROVE  RosterExact'
    OBVIOUS
<1>1. CASE UNCHANGED <<connected_clients, link>>
    BY <1>1 DEF RosterExact
<1>2. CASE InitCluster \/ ManualTick \/ StartSimulation \/ StopSimulation
           \/ (\E t \in Tasks : Die(t)) \/ (\E c \in Sockets : SocketTick(c)) \/ UNCHANGED vars
    BY <1>1, <1>2 DEF InitCluster, ManualTick, StartSimulation, StopSimulation, Die, SocketTick,
                      clientVars, vars
<1>3. ASSUME NEW t \in Tasks, RunLoop(t)
      PROVE  RosterExact'
    <2>1. link' = link /\ (connected_clients' = connected_clients
                           \/ \E b \in TaskRecord : b.dead = <<>> /\ Ends(t, b))
        BY <1>3, RunLoopCases DEF Sends
    <2> QED
        BY <1>1, <2>1, EndsKeepsRoster
<1>4. ASSUME NEW t \in Tasks, EndSend(t)
      PROVE  RosterExact'
    <2>1. link' = link /\ (connected_clients' = connected_clients
                           \/ \E b \in TaskRecord :
                                  /\ \A i \in DOMAIN b.dead : link[b.dead[i]] \in {"gone", "closed"}
                                  /\ Ends(t, b))
        BY <1>4, EndSendCases DEF Sends
    <2> QED
        BY <1>1, <2>1, EndsKeepsRoster
<1>5. ASSUME NEW c \in Sockets, Connect(c)
      PROVE  RosterExact'
    <2>1. link[c] = "new" /\ link' = [link EXCEPT ![c] = "open"]
          /\ connected_clients' = Append(connected_clients, c)
        <3>1. c \in 1 .. c
            BY DEF Sockets
        <3> QED
            BY <1>5, <3>1 DEF Connect
    <2>2. /\ Len(connected_clients') = Len(connected_clients) + 1
          /\ connected_clients' \in Seq(Sockets)
          /\ \A i \in 1 .. Len(connected_clients) : connected_clients'[i] = connected_clients[i]
          /\ connected_clients'[Len(connected_clients) + 1] = c
        BY <2>1, AppendProperties DEF TypeOK
    <2>3. DOMAIN connected_clients = 1 .. Len(connected_clients) /\ Len(connected_clients) \in Nat
          /\ DOMAIN connected_clients' = 1 .. Len(connected_clients) + 1
        BY <2>2 DEF TypeOK
    <2>4. c \notin Range(connected_clients)
        BY <2>1 DEF RosterExact
    <2>5. Range(connected_clients)' = Range(connected_clients) \cup {c}
        BY <2>2, <2>3 DEF Range
    <2>6. IsInjective(connected_clients)'
        BY <2>2, <2>3, <2>4 DEF RosterExact, IsInjective, Range
    <2> QED
        BY <2>1, <2>5, <2>6 DEF RosterExact, TypeOK
<1>6. ASSUME NEW c \in Sockets, Vanish(c)
      PROVE  RosterExact'
    BY <1>6 DEF Vanish, RosterExact, TypeOK
<1>7. ASSUME NEW c \in Sockets, EndEndpoint(c)
      PROVE  RosterExact'
    <2>1. link' = [link EXCEPT ![c] = "closed"]
        BY <1>7, EndEndpointCases
    <2>2. IsInjective(connected_clients)' /\ Range(connected_clients)' = Range(connected_clients) \ {c}
        BY <1>7, EndEndpointCases, RemoveEntry DEF TypeOK, RosterExact
    <2> QED
        BY <2>1, <2>2 DEF RosterExact, TypeOK
<1> QED
    BY <1>2, <1>3, <1>4, <1>5, <1>6, <1>7 DEF Next, TaskStep

-----------------------------------------------------------------------------
(* Broadcasts under way *)

Broadcasts == SendsOK /\ HeardOK /\ ServedOK

LEMMA StampOrder ==
    ASSUME NEW s \in Stamp, NEW t \in Stamp, NEW u \in Stamp
    PROVE  /\ ~ Later(s, s)
           /\ ~ Later(t, s) /\ Later(t, u) => Later(s, u)
           /\ Later(s, t) => ~ Later(t, s)
           /\ t[2] >= 1 => Later(Never, t)
<1>1. /\ s[1] \in Nat /\ s[2] \in Nat /\ t[1] \in Nat /\ t[2] \in Nat
      /\ u[1] \in Nat /\ u[2] \in Nat
    BY ServerAssumption DEF Stamp, ServerAssumption
<1>2. Never[1] = 0 /\ Never[2] = 0
    BY DEF Never
<1> QED
    BY <1>1, <1>2 DEF Later

LEMMA NowType == ASSUME TypeOK PROVE Now \in Stamp /\ Now[1] = cluster.number /\ Now[2] = cluster.tick_count
BY DEF Now, TypeOK, Stamp

\* Time goes on: a tick, and a new cluster, are later than all that was.
TimeGoesOn == Now' = Now \/ Later(Now, Now')

LEMMA TimeStep == TypeOK /\ NewestKept /\ SendsOK /\ [Next]_vars => TimeGoesOn
<1> SUFFICES ASSUME TypeOK, NewestKept, SendsOK, [Next]_vars
             PROVE  TimeGoesOn
    OBVIOUS
<1> USE DEF TimeGoesOn, clientVars, simulationVars
<1>1. ClusterType
    BY DEF TypeOK, ClusterType
<1>2. ASSUME Tick PROVE TimeGoesOn
    <2>1. cluster'.number = cluster.number /\ cluster'.tick_count = cluster.tick_count + 1
          /\ cluster.tick_count \in Nat
        BY <1>1, <1>2, TickKeepsHistory DEF ClusterType
    <2>2. Now[1] = cluster.number /\ Now[2] = cluster.tick_count
          /\ Now'[1] = cluster'.number /\ Now'[2] = cluster'.tick_count
        BY DEF Now
    <2> QED
        BY <2>1, <2>2 DEF Later
<1>3. CASE cluster' = cluster
    BY <1>3 DEF Now
<1>4. CASE InitCluster
    <2>1. cluster'.number = cluster.number + 1 /\ cluster.number \in Nat
        BY <1>1, <1>4 DEF InitCluster, NewCluster, ClusterType
    <2>2. Now[1] = cluster.number /\ Now'[1] = cluster'.number
        BY DEF Now
    <2> QED
        BY <2>1, <2>2 DEF Later
<1>5. CASE ManualTick \/ \E c \in Sockets : SocketTick(c)
    BY <1>2, <1>5 DEF ManualTick, SocketTick
<1>6. CASE \E t \in Tasks : RunLoop(t)
    BY <1>2, <1>3, <1>6 DEF RunLoop
<1>7. CASE StartSimulation \/ StopSimulation \/ (\E t \in Tasks : Die(t)) \/ UNCHANGED vars
    BY <1>3, <1>7 DEF StartSimulation, StopSimulation, Die, vars
<1>8. CASE \E t \in Tasks : EndSend(t)
    BY <1>3, <1>8 DEF EndSend
<1>9. CASE \E c \in Sockets : Connect(c) \/ Vanish(c) \/ EndEndpoint(c)
    BY <1>3, <1>9 DEF Connect, Vanish, EndEndpoint
<1> QED
    BY <1>4, <1>5, <1>6, <1>7, <1>8, <1>9 DEF Next, TaskStep

LEMMA NothingOfTheFuture ==
    ASSUME TypeOK, TypeOK', TimeGoesOn, NEW s \in Stamp, ~ Later(Now, s)
    PROVE  ~ Later(Now', s)
<1>1. Now \in Stamp
    BY NowType
<1>2. Now' \in Stamp
    BY DEF TypeOK, Now, Stamp
<1>3. ASSUME Later(Now, Now'), Later(Now', s) PROVE FALSE
    BY <1>1, <1>2, <1>3, ServerAssumption DEF Later, Stamp, ServerAssumption
<1> QED
    BY <1>3 DEF TimeGoesOn

\* Steps that leave clients and suspended sends alone.
LEMMA QuietStep ==
    ASSUME TypeOK, TypeOK', Broadcasts, TimeGoesOn,
           UNCHANGED <<connected_clients, link, heard>>,
           \A u \in Tasks : task'[u].at = "send" => task'[u] = task[u]
    PROVE  Broadcasts'
<1>1. SendsOK'
    BY DEF Broadcasts, SendsOK
<1>2. HeardOK'
    <2>1. \A c \in Sockets : heard[c] \in Stamp
        BY DEF TypeOK
    <2>2. \A u \in Tasks : task[u].message \in Stamp
        BY DEF TypeOK, TaskRecord
    <2>3. \A c \in Sockets : ~ Later(Now', heard[c])
        BY <2>1, NothingOfTheFuture DEF Broadcasts, HeardOK
    <2>4. \A u \in Tasks : task'[u].at = "send" => ~ Later(Now', task[u].message)
        BY <2>2, NothingOfTheFuture DEF Broadcasts, HeardOK
    <2> QED
        BY <2>3, <2>4 DEF Broadcasts, HeardOK
<1>3. ServedOK'
    BY DEF Broadcasts, ServedOK
<1> QED
    BY <1>1, <1>2, <1>3 DEF Broadcasts

\* The one loop has no rival that sends.
LEMMA NoRival ==
    ASSUME OneLoop, NEW t \in Tasks, Loops(t), NEW u \in Tasks, u # t
    PROVE  task[u].at # "send"
BY DEF OneLoop, Loops

LEMMA EndsStep ==
    ASSUME TypeOK, TypeOK', OneLoop, Broadcasts, TimeGoesOn, link' = link,
           NEW t \in Tasks, Loops(t), NEW b, Ends(t, b), OthersWait(t)
    PROVE  Broadcasts'
<1>1. \A u \in Tasks : task'[u].at # "send"
    BY NoRival DEF Ends, OthersWait
<1>2. \A c \in Sockets : ~ Later(Now', heard[c])
    BY NothingOfTheFuture DEF Broadcasts, HeardOK, TypeOK
<1> QED
    BY <1>1, <1>2 DEF Broadcasts, SendsOK, HeardOK, ServedOK, Ends

\* The next client gets the message, in the broadcast b that t goes on with.
LEMMA SendsStep ==
    ASSUME TypeOK, TypeOK', OneLoop, RosterExact, Broadcasts, TimeGoesOn, link' = link,
           NEW t \in Tasks, Loops(t), NEW b \in TaskRecord, Sends(t, b), OthersWait(t),
           b.message[2] >= 1,
           ~ Later(Now', b.message),
           \A i \in DOMAIN b.dead : link[b.dead[i]] \in {"gone", "closed"},
           \A i \in DOMAIN connected_clients :
               i > b.index => Later(heard[connected_clients[i]], b.message),
           ~ b.shifted => \A i \in 1 .. b.index :
               link[connected_clients[i]] = "open" => heard[connected_clients[i]] = b.message
    PROVE  Broadcasts'
<1> DEFINE k == b.index + 1
           c == connected_clients[k]
           n == Len(connected_clients)
<1>1. /\ b.index \in Nat /\ k \in 1 .. n /\ n \in Nat /\ c \in Sockets
      /\ DOMAIN connected_clients = 1 .. n /\ connected_clients \in Seq(Sockets)
    <2>1. b.index \in Nat /\ connected_clients \in Seq(Sockets) /\ k \in DOMAIN connected_clients
        BY DEF Sends, TypeOK, TaskRecord
    <2> QED
        BY <2>1
<1>2. /\ task'[t].at = "send" /\ task'[t].index = k /\ task'[t].to = c
      /\ task'[t].message = b.message /\ task'[t].dead = b.dead /\ task'[t].shifted = b.shifted
      /\ connected_clients' = connected_clients
    BY DEF Sends
<1>3. \A u \in Tasks : task'[u].at = "send" => u = t
    BY NoRival DEF OthersWait
<1>4. link[c] \in {"open", "gone"}
    BY <1>1 DEF RosterExact, Range
<1>5. \A d \in Sockets : heard'[d] = IF d = c /\ link[c] = "open" THEN b.message ELSE heard[d]
    BY <1>1 DEF Sends, TypeOK
<1> HIDE DEF k, c, n
<1>6. SendsOK'
    BY <1>1, <1>2, <1>3, <1>4 DEF SendsOK
<1>7. HeardOK'
    <2>1. \A d \in Sockets : ~ Later(Now', heard'[d])
        <3>1. \A d \in Sockets : ~ Later(Now', heard[d])
            BY NothingOfTheFuture DEF Broadcasts, HeardOK, TypeOK
        <3> QED
            BY <1>5, <3>1
    <2>2. \A d \in Sockets : link'[d] = "new" => heard'[d] = Never
        BY <1>4, <1>5 DEF Broadcasts, HeardOK
    <2>3. ASSUME NEW i \in 1 .. n, i > k
          PROVE  Later(heard'[connected_clients[i]], b.message)
        <3>1. connected_clients[i] # c
            BY <1>1, <2>3 DEF RosterExact, IsInjective, c
        <3>2. heard'[connected_clients[i]] = heard[connected_clients[i]]
            BY <1>1, <1>5, <3>1
        <3> QED
            BY <1>1, <2>3, <3>2 DEF k
    <2> QED
        BY <1>1, <1>2, <1>3, <2>1, <2>2, <2>3 DEF HeardOK
<1>8. ServedOK'
    <2>1. ASSUME ~ b.shifted, NEW i \in 1 .. k, link[connected_clients[i]] = "open"
          PROVE  heard'[connected_clients[i]] = b.message
        <3>1. i \in 1 .. n
            BY <1>1
        <3>2. connected_clients[i] \in Sockets
            BY <1>1, <3>1
        <3>3. CASE i = k
            BY <1>5, <2>1, <3>2, <3>3 DEF c
        <3>4. CASE i # k
            <4>1. i \in 1 .. b.index
                BY <1>1, <3>4 DEF k
            <4> QED
                BY <1>5, <2>1, <3>2, <4>1
        <3> QED
            BY <3>3, <3>4
    <2> QED
        BY <1>1, <1>2, <1>3, <2>1 DEF ServedOK, n
<1> QED
    BY <1>6, <1>7, <1>8 DEF Broadcasts

LEMMA ConnectStep ==
    ASSUME TypeOK, TypeOK', RosterExact, Broadcasts, TimeGoesOn, NEW c \in Sockets, Connect(c)
    PROVE  Broadcasts'
<1> DEFINE n == Len(connected_clients)
<1>1. link[c] = "new" /\ link' = [link EXCEPT ![c] = "open"]
      /\ connected_clients' = Append(connected_clients, c)
    <2>1. c \in 1 .. c
        BY DEF Sockets
    <2> QED
        BY <2>1 DEF Connect
<1>2. UNCHANGED <<cluster, task, heard>>
    BY DEF Connect
<1>3. /\ n \in Nat /\ DOMAIN connected_clients = 1 .. n /\ DOMAIN connected_clients' = 1 .. n + 1
      /\ Len(connected_clients') = n + 1
      /\ \A i \in 1 .. n : connected_clients'[i] = connected_clients[i]
      /\ connected_clients'[n + 1] = c
      /\ \A i \in 1 .. n : connected_clients[i] \in Sockets
    BY <1>1, AppendProperties DEF TypeOK
<1>4. /\ \A d \in Sockets : link'[d] = IF d = c THEN "open" ELSE link[d]
      /\ \A i \in 1 .. n : connected_clients[i] # c
    BY <1>1, <1>3 DEF TypeOK, RosterExact, Range
<1>5. \A u \in Tasks : task[u].message \in Stamp /\ task[u].dead \in Seq(Sockets)
                       /\ task[u].index \in Nat
    BY DEF TypeOK, TaskRecord
<1> HIDE DEF n
<1>6. SendsOK'
    BY <1>1, <1>2, <1>4, <1>5 DEF Broadcasts, SendsOK
<1>7. HeardOK'
    <2>1. \A d \in Sockets : ~ Later(Now', heard'[d])
        BY <1>2 DEF Broadcasts, HeardOK, Now
    <2>2. \A d \in Sockets : link'[d] = "new" => heard'[d] = Never
        BY <1>2, <1>4 DEF Broadcasts, HeardOK
    <2>3. ASSUME NEW u \in Tasks, task[u].at = "send", NEW i \in 1 .. n + 1, i > task[u].index
          PROVE  Later(heard[connected_clients'[i]], task[u].message)
        <3>1. CASE i = n + 1
            <4>1. heard[c] = Never /\ task[u].message[2] >= 1
                BY <1>1, <2>3 DEF Broadcasts, SendsOK, HeardOK
            <4> QED
                BY <1>3, <1>5, <3>1, <4>1, StampOrder
        <3>2. CASE i # n + 1
            BY <1>3, <2>3, <3>2 DEF Broadcasts, HeardOK
        <3> QED
            BY <3>1, <3>2
    <2> QED
        BY <1>2, <1>3, <2>1, <2>2, <2>3 DEF Broadcasts, HeardOK, Now
<1>8. ServedOK'
    <2>1. ASSUME NEW u \in Tasks, task[u].at = "send", ~ task[u].shifted
          PROVE  /\ task[u].index <= n + 1
                 /\ \A i \in 1 .. task[u].index : link'[connected_clients'[i]] = "open" =>
                        heard[connected_clients'[i]] = task[u].message
        <3>1. task[u].index <= n /\ \A i \in 1 .. task[u].index :
                  link[connected_clients[i]] = "open" => heard[connected_clients[i]] = task[u].message
            BY <2>1 DEF Broadcasts, ServedOK, n
        <3>2. \A i \in 1 .. task[u].index : i \in 1 .. n
            BY <1>3, <1>5, <3>1
        <3> QED
            BY <1>3, <1>4, <1>5, <3>1, <3>2
    <2> QED
        BY <1>2, <1>3, <2>1 DEF ServedOK
<1> QED
    BY <1>6, <1>7, <1>8 DEF Broadcasts

LEMMA VanishStep ==
    ASSUME TypeOK, TypeOK', Broadcasts, TimeGoesOn, NEW c \in Sockets, Vanish(c)
    PROVE  Broadcasts'
<1>1. link[c] = "open" /\ UNCHANGED <<cluster, task, connected_clients, heard>>
    BY DEF Vanish
<1>2. \A d \in Sockets : link'[d] = IF d = c THEN "gone" ELSE link[d]
    BY DEF Vanish, TypeOK
<1>3. \A u \in Tasks : task[u].dead \in Seq(Sockets) /\ task[u].index \in Nat
    BY DEF TypeOK, TaskRecord
<1>4. SendsOK'
    BY <1>1, <1>2, <1>3 DEF Broadcasts, SendsOK
<1>5. HeardOK'
    BY <1>1, <1>2 DEF Broadcasts, HeardOK, Now
<1>6. ServedOK'
    <2>1. \A i \in DOMAIN connected_clients : connected_clients[i] \in Sockets
        BY DEF TypeOK
    <2>2. ASSUME NEW u \in Tasks, task[u].at = "send", ~ task[u].shifted,
                 NEW i \in 1 .. task[u].index
          PROVE  i \in DOMAIN connected_clients
        BY <1>3, <2>2 DEF Broadcasts, ServedOK, TypeOK
    <2> QED
        BY <1>1, <1>2, <2>1, <2>2 DEF Broadcasts, ServedOK
<1> QED
    BY <1>4, <1>5, <1>6 DEF Broadcasts

LEMMA EndEndpointStep ==
    ASSUME TypeOK, TypeOK', RosterExact, Broadcasts, TimeGoesOn, NEW c \in Sockets, EndEndpoint(c)
    PROVE  Broadcasts'
<1> DEFINE n == Len(connected_clients)
<1>1. UNCHANGED <<cluster, heard>>
    BY EndEndpointCases
<1>2. \A d \in Sockets : link'[d] = IF d = c THEN "closed" ELSE link[d]
    BY EndEndpointCases DEF TypeOK
<1>3. \A u \in Tasks : /\ task'[u].at = task[u].at /\ task'[u].index = task[u].index
                       /\ task'[u].message = task[u].message
                       /\ task'[u].to = task[u].to /\ task'[u].dead = task[u].dead
    BY EndEndpointCases
<1>4. \A u \in Tasks : task[u].dead \in Seq(Sockets) /\ task[u].index \in Nat
    BY DEF TypeOK, TaskRecord
<1>5. n \in Nat /\ DOMAIN connected_clients = 1 .. n
      /\ \A i \in 1 .. n : connected_clients[i] \in Sockets
    BY DEF TypeOK
<1>6. SendsOK'
    BY <1>2, <1>3, <1>4 DEF Broadcasts, SendsOK
<1>7. /\ \A d \in Sockets : ~ Later(Now', heard'[d])
      /\ \A d \in Sockets : link'[d] = "new" => heard'[d] = Never
      /\ \A u \in Tasks : task'[u].at = "send" => ~ Later(Now', task'[u].message)
    BY <1>1, <1>2, <1>3 DEF Broadcasts, HeardOK, Now
<1>8. CASE UNCHANGED <<connected_clients, task>>
    <2>1. HeardOK'
        BY <1>1, <1>7, <1>8 DEF Broadcasts, HeardOK
    <2>2. ServedOK'
        <3>1. ASSUME NEW u \in Tasks, task[u].at = "send", ~ task[u].shifted,
                     NEW i \in 1 .. task[u].index
              PROVE  i \in 1 .. n
            BY <1>4, <1>5, <3>1 DEF Broadcasts, ServedOK
        <3> QED
            BY <1>1, <1>2, <1>5, <1>8, <3>1 DEF Broadcasts, ServedOK
    <2> QED
        BY <1>6, <2>1, <2>2 DEF Broadcasts
<1>9. ASSUME NEW i \in DOMAIN connected_clients,
             connected_clients[i] = c,
             connected_clients' = WithoutEntry(i),
             \A u \in Tasks : task[u].at = "send" /\ ~ task'[u].shifted =>
                 ~ task[u].shifted /\ ~ (i <= task[u].index)
      PROVE  Broadcasts'
    <2>1. /\ Len(connected_clients') = n - 1 /\ DOMAIN connected_clients' = 1 .. n - 1
          /\ \A j \in 1 .. n - 1 : connected_clients'[j] = IF j < i THEN connected_clients[j]
                                                               ELSE connected_clients[j + 1]
        BY <1>9, RemoveEntry DEF TypeOK, RosterExact
    <2> HIDE DEF n
    <2>2. HeardOK'
        <3>1. ASSUME NEW u \in Tasks, task[u].at = "send", NEW j \in 1 .. n - 1, j > task[u].index
              PROVE  Later(heard[connected_clients'[j]], task[u].message)
            <4>1. \A k \in 1 .. n : k > task[u].index =>
                      Later(heard[connected_clients[k]], task[u].message)
                BY <1>5, <3>1 DEF Broadcasts, HeardOK
            <4>2. j \in 1 .. n /\ j + 1 \in 1 .. n /\ j + 1 > task[u].index
                BY <1>4, <1>5, <3>1
            <4> QED
                BY <2>1, <3>1, <4>1, <4>2
        <3> QED
            BY <1>1, <1>3, <1>7, <2>1, <3>1 DEF HeardOK
    <2>3. ServedOK'
        <3>1. ASSUME NEW u \in Tasks, task[u].at = "send", ~ task'[u].shifted
              PROVE  /\ task[u].index <= n - 1
                     /\ \A j \in 1 .. task[u].index : link'[connected_clients'[j]] = "open" =>
                            heard[connected_clients'[j]] = task[u].message
            <4>1. ~ task[u].shifted /\ task[u].index < i
                BY <1>4, <1>5, <1>9, <3>1
            <4>2. task[u].index <= n - 1
                BY <1>4, <1>5, <4>1
            <4>3. \A j \in 1 .. task[u].index : link[connected_clients[j]] = "open" =>
                      heard[connected_clients[j]] = task[u].message
                BY <3>1, <4>1 DEF Broadcasts, ServedOK
            <4>4. \A j \in 1 .. task[u].index :
                      connected_clients'[j] = connected_clients[j] /\ connected_clients[j] \in Sockets
                <5>1. \A j \in 1 .. task[u].index : j \in 1 .. n - 1 /\ j \in 1 .. n /\ j < i
                    BY <1>4, <1>5, <4>1, <4>2
                <5> QED
                    BY <1>5, <2>1, <5>1
            <4> QED
                BY <1>2, <4>2, <4>3, <4>4
        <3> QED
            BY <1>1, <1>3, <2>1, <3>1 DEF ServedOK
    <2> QED
        BY <1>6, <2>2, <2>3 DEF Broadcasts
<1> QED
    BY <1>8, <1>9, EndEndpointCases

LEMMA BroadcastsStep ==
    Inv /\ NewestKept /\ TypeOK' /\ [Next]_vars => Broadcasts'
<1> SUFFICES ASSUME Inv, NewestKept, TypeOK', [Next]_vars
             PROVE  Broadcasts'
    OBVIOUS
<1> USE DEF clientVars, simulationVars
<1>1. TypeOK /\ OneLoop /\ RosterExact /\ SendsOK /\ Broadcasts
    BY DEF Inv, Broadcasts
<1>2. TimeGoesOn
    BY <1>1, TimeStep
<1>3. CASE InitCluster \/ ManualTick \/ (\E c \in Sockets : SocketTick(c)) \/ UNCHANGED vars
    BY <1>1, <1>2, <1>3, QuietStep DEF InitCluster, ManualTick, SocketTick, vars
<1>4. CASE StartSimulation
    <2>1. PICK t \in Tasks : task' = [task EXCEPT ![t] = TaskAt("start")]
        BY <1>4 DEF StartSimulation
    <2>2. TaskAt("start").at = "start"
        BY TaskAtType DEF TaskPlace
    <2>3. \A u \in Tasks : task'[u].at = "send" => task'[u] = task[u]
        BY <1>1, <2>1, <2>2 DEF TypeOK
    <2> QED
        BY <1>1, <1>2, <1>4, <2>3, QuietStep DEF StartSimulation
<1>5. CASE StopSimulation
    <2>1. TaskAt("cancelled").at = "cancelled"
        BY TaskAtType DEF TaskPlace
    <2>2. \A u \in Tasks : task'[u].at = "send" => task'[u] = task[u]
        BY <1>5, <2>1 DEF StopSimulation, Cancelled
    <2> QED
        BY <1>1, <1>2, <1>5, <2>2, QuietStep DEF StopSimulation
<1>6. ASSUME NEW t \in Tasks, RunLoop(t)
      PROVE  Broadcasts'
    <2>1. /\ link' = link /\ Loops(t) /\ OthersWait(t) /\ task[t].at \in {"start", "sleep"}
        BY <1>1, <1>6, RunLoopCases DEF Loops
    <2>2. CASE task'[t].at = "end" /\ UNCHANGED <<cluster, connected_clients, heard>>
        <3>1. \A u \in Tasks : task'[u].at = "send" => task'[u] = task[u]
            BY <2>1, <2>2 DEF OthersWait
        <3> QED
            BY <1>1, <1>2, <2>1, <2>2, <3>1, QuietStep
    <2>3. ASSUME cluster'.number = cluster.number, cluster'.tick_count = cluster.tick_count + 1,
                 NEW b \in TaskRecord,
                 b.message = <<cluster.number, cluster.tick_count + 1>>,
                 b.index = 0, b.shifted = FALSE, b.dead = <<>>,
                 Sends(t, b) \/ Ends(t, b)
          PROVE  Broadcasts'
        <3>1. CASE Ends(t, b)
            BY <1>1, <1>2, <2>1, <3>1, EndsStep
        <3>2. CASE Sends(t, b)
            <4>1. b.message = Now' /\ b.message[2] >= 1 /\ cluster.tick_count \in Nat
                BY <1>1, <2>3 DEF Now, TypeOK
            <4>2. Now' \in Stamp /\ Now \in Stamp
                BY <1>1 DEF Now, TypeOK, Stamp
            <4>3. Later(Now, Now') /\ ~ Later(Now', Now')
                <5>1. Now # Now'
                    BY <2>3, <4>1 DEF Now
                <5> QED
                    BY <1>2, <4>2, <5>1, StampOrder DEF TimeGoesOn
            <4>4. \A i \in DOMAIN connected_clients : Later(heard[connected_clients[i]], b.message)
                <5>1. \A i \in DOMAIN connected_clients : connected_clients[i] \in Sockets
                    BY <1>1 DEF TypeOK
                <5>2. \A d \in Sockets : heard[d] \in Stamp /\ ~ Later(Now, heard[d])
                    BY <1>1 DEF TypeOK, Broadcasts, HeardOK
                <5> QED
                    BY <4>1, <4>2, <4>3, <5>1, <5>2, StampOrder
            <4>5. \A i \in 1 .. b.index :
                      link[connected_clients[i]] = "open" => heard[connected_clients[i]] = b.message
                BY <2>3
            <4>6. \A i \in DOMAIN b.dead : link[b.dead[i]] \in {"gone", "closed"}
                BY <2>3
            <4> HIDE DEF Inv
            <4> QED
                BY <1>1, <1>2, <2>1, <3>2, <4>1, <4>3, <4>4, <4>5, <4>6, SendsStep
        <3> QED
            BY <2>3, <3>1, <3>2
    <2> QED
        BY <1>1, <1>6, <2>2, <2>3, RunLoopCases
<1>7. ASSUME NEW t \in Tasks, EndSend(t)
      PROVE  Broadcasts'
    <2>1. /\ UNCHANGED <<cluster, link>> /\ task[t].at = "send" /\ OthersWait(t) /\ Loops(t)
        BY <1>1, <1>7, EndSendCases DEF Loops
    <2>2. PICK b \in TaskRecord :
              /\ b.message = task[t].message
              /\ b.index = task[t].index
              /\ b.shifted = task[t].shifted
              /\ \A i \in DOMAIN b.dead : link[b.dead[i]] \in {"gone", "closed"}
              /\ Sends(t, b) \/ Ends(t, b)
        BY <1>1, <1>7, EndSendCases
    <2>3. CASE Ends(t, b)
        BY <1>1, <1>2, <2>1, <2>3, EndsStep
    <2>4. CASE Sends(t, b)
        <3>1. b.message[2] >= 1
            BY <2>1, <2>2, <1>1 DEF SendsOK
        <3>2. ~ Later(Now', b.message)
            BY <2>1, <2>2, <1>1 DEF Broadcasts, HeardOK, Now
        <3>3. \A i \in DOMAIN connected_clients :
                  i > b.index => Later(heard[connected_clients[i]], b.message)
            BY <2>1, <2>2, <1>1 DEF Broadcasts, HeardOK
        <3>4. ~ b.shifted => \A i \in 1 .. b.index :
                  link[connected_clients[i]] = "open" => heard[connected_clients[i]] = b.message
            BY <2>1, <2>2, <1>1 DEF Broadcasts, ServedOK
        <3> QED
            BY <1>1, <1>2, <2>1, <2>2, <2>4, <3>1, <3>2, <3>3, <3>4, SendsStep
    <2> QED
        BY <2>2, <2>3, <2>4
<1>8. ASSUME NEW t \in Tasks, Die(t)
      PROVE  Broadcasts'
    <2>1. TaskAt("end").at = "end"
        BY TaskAtType DEF TaskPlace
    <2>2. \A u \in Tasks : task'[u].at = "send" => task'[u] = task[u]
        BY <1>1, <1>8, <2>1 DEF Die, TypeOK
    <2> QED
        BY <1>1, <1>2, <1>8, <2>2, QuietStep DEF Die
<1>9. CASE \E c \in Sockets : Connect(c) \/ Vanish(c) \/ EndEndpoint(c)
    BY <1>1, <1>2, <1>9, ConnectStep, VanishStep, EndEndpointStep
<1> QED
    BY <1>3, <1>4, <1>5, <1>6, <1>7, <1>8, <1>9 DEF Next, TaskStep

-----------------------------------------------------------------------------
(* The theorems *)

LEMMA InvInit == Init => Inv /\ NewestKept
<1> SUFFICES ASSUME Init PROVE Inv /\ NewestKept
    OBVIOUS
<1>1. TypeOK /\ NewestKept
    BY TypeInit
<1>2. \A t \in Tasks : task[t].at = "end"
    BY TaskAtType DEF Init, TaskPlace
<1>3. OneLoop /\ SendsOK /\ ServedOK
    BY <1>2 DEF OneLoop, Loops, SendsOK, ServedOK
<1>4. RosterExact
    BY DEF Init, RosterExact, Range, IsInjective
<1>5. HeardOK
    <2>1. \A c \in Sockets : heard[c] = Never
        BY DEF Init
    <2>2. Now = Never
        BY DEF Init, Now, Never, NewCluster
    <2>3. Never \in Stamp
        BY ServerAssumption DEF ServerAssumption, Never, Stamp
    <2> QED
        BY <1>2, <2>1, <2>2, <2>3, StampOrder DEF HeardOK
<1> QED
    BY <1>1, <1>3, <1>4, <1>5 DEF Inv

LEMMA InvStep == Inv /\ NewestKept /\ [Next]_vars => Inv' /\ NewestKept'
BY TypeStep, OneLoopStep, RosterStep, BroadcastsStep DEF Inv, Broadcasts

LEMMA Inductive == Spec => [](Inv /\ NewestKept)
BY InvInit, InvStep, PTL DEF Spec

\* Every variable of the server keeps its type.
THEOREM ServerTypeCorrect == Spec => []TypeOK
<1>1. Inv => TypeOK
    BY DEF Inv
<1> QED
    BY <1>1, Inductive, PTL

\* At most one simulation loop ticks, and it is the one the flag and simulation_task stand for.
THEOREM AtMostOneLoop == Spec => []OneLoop
<1>1. Inv => OneLoop
    BY DEF Inv
<1> QED
    BY <1>1, Inductive, PTL

\* The list of clients has each open connection once, and none whose endpoint has ended.
THEOREM RosterIsExact == Spec => []RosterExact
<1>1. Inv => RosterExact
    BY DEF Inv
<1> QED
    BY <1>1, Inductive, PTL

\* The metrics history is the newest ticks of the present cluster, without a gap.
THEOREM HistoryIsNewest == Spec => []NewestKept
BY Inductive, PTL

\* What a step may change of what clients heard.
LEMMA HeardStep ==
    ASSUME Inv, NewestKept, [Next]_vars, NEW c \in Sockets, heard'[c] # heard[c]
    PROVE  Later(heard[c], heard'[c])
<1> USE DEF clientVars, simulationVars
<1>1. TypeOK /\ OneLoop /\ RosterExact /\ SendsOK /\ HeardOK
    BY DEF Inv
<1>2. ASSUME NEW t \in Tasks, NEW b \in TaskRecord, Sends(t, b),
             \A i \in DOMAIN connected_clients :
                 i > b.index => Later(heard[connected_clients[i]], b.message)
      PROVE  Later(heard[c], heard'[c])
    <2>1. b.index + 1 \in DOMAIN connected_clients /\ b.index + 1 > b.index
        BY <1>2 DEF Sends, TaskRecord
    <2>2. Later(heard[connected_clients[b.index + 1]], b.message)
        BY <1>2, <2>1
    <2>3. c = connected_clients[b.index + 1] /\ heard'[c] = b.message
        BY <1>1, <1>2 DEF Sends, TypeOK
    <2> QED
        BY <2>2, <2>3
<1>3. ASSUME NEW t \in Tasks, RunLoop(t)
      PROVE  Later(heard[c], heard'[c])
    <2>1. PICK b \in TaskRecord :
              /\ b.message = <<cluster.number, cluster.tick_count + 1>>
              /\ b.index = 0 /\ Sends(t, b)
        BY <1>1, <1>3, RunLoopCases DEF Ends, Inv
    <2>2. cluster'.number = cluster.number /\ cluster'.tick_count = cluster.tick_count + 1
        BY <1>1, <1>3, TickKeepsHistory, <2>1, RunLoopCases DEF Sends, Inv, TypeOK, ClusterType
    <2>3. \A i \in DOMAIN connected_clients : Later(heard[connected_clients[i]], b.message)
        <3>1. \A d \in Sockets : heard[d] \in Stamp /\ ~ Later(Now, heard[d])
            BY <1>1 DEF TypeOK, HeardOK
        <3>2. b.message \in Stamp /\ Now \in Stamp
            BY <1>1, NowType DEF TaskRecord
        <3>3. Later(Now, b.message)
            BY <2>1, <1>1 DEF Later, Now, TypeOK
        <3>4. \A i \in DOMAIN connected_clients : connected_clients[i] \in Sockets
            BY <1>1 DEF TypeOK
        <3> QED
            BY <3>1, <3>2, <3>3, <3>4, StampOrder
    <2> QED
        BY <1>2, <2>1, <2>3
<1>4. ASSUME NEW t \in Tasks, EndSend(t)
      PROVE  Later(heard[c], heard'[c])
    <2>1. PICK b \in TaskRecord :
              b.message = task[t].message /\ b.index = task[t].index /\ Sends(t, b)
        BY <1>1, <1>4, EndSendCases DEF Ends
    <2>2. task[t].at = "send"
        BY <1>4 DEF EndSend
    <2>3. \A i \in DOMAIN connected_clients :
              i > b.index => Later(heard[connected_clients[i]], b.message)
        BY <1>1, <2>1, <2>2 DEF HeardOK
    <2> QED
        BY <1>2, <2>1, <2>3
<1>5. CASE heard' = heard
    BY <1>5
<1>6. CASE InitCluster \/ ManualTick \/ StartSimulation \/ StopSimulation
           \/ (\E t \in Tasks : Die(t)) \/ UNCHANGED vars
           \/ \E d \in Sockets : Connect(d) \/ SocketTick(d) \/ Vanish(d) \/ EndEndpoint(d)
    BY <1>5, <1>6 DEF InitCluster, ManualTick, StartSimulation, StopSimulation, Die, vars,
                      Connect, SocketTick, Vanish, EndEndpoint
<1> QED
    BY <1>3, <1>4, <1>6 DEF Next, TaskStep

\* Every client hears of ever later ticks.
THEOREM BroadcastsAreInOrder == Spec => ToldInOrder
<1>1. Inv /\ NewestKept /\ [Next]_vars =>
          [\A c \in Sockets : heard'[c] # heard[c] => Later(heard[c], heard'[c])]_vars
    BY HeardStep
<1> QED
    BY <1>1, Inductive, PTL DEF Spec, ToldInOrder

LEMMA ReachStep ==
    ASSUME Inv, NewestKept, [Next]_vars, NEW t \in Tasks, NEW c \in Sockets,
           EndsBroadcast(t), ~ task[t].shifted, link[c] = "open"
    PROVE  heard[c] = task[t].message
<1> USE DEF clientVars, simulationVars
<1>1. TypeOK /\ OneLoop /\ RosterExact /\ SendsOK /\ ServedOK
    BY DEF Inv
<1>2. task[t].at = "send" /\ task'[t].at \in {"sleep", "end"}
    BY DEF EndsBroadcast
<1>3. EndSend(t)
    <2>1. ASSUME task'[t] = task[t] PROVE FALSE
        BY <1>2, <2>1
    <2>2. ~ (InitCluster \/ ManualTick \/ UNCHANGED vars
             \/ \E d \in Sockets : Connect(d) \/ SocketTick(d) \/ Vanish(d))
        BY <2>1 DEF InitCluster, ManualTick, Connect, SocketTick, Vanish, vars
    <2>3. ~ StartSimulation
        BY <1>1, <1>2 DEF StartSimulation, OneLoop, Loops
    <2>4. ~ StopSimulation
        <3>1. TaskAt("cancelled").at = "cancelled"
            BY TaskAtType DEF TaskPlace
        <3> QED
            BY <1>2, <3>1 DEF StopSimulation, Cancelled
    <2>5. ASSUME NEW u \in Tasks, TaskStep(u)
          PROVE  EndSend(t)
        <3>1. CASE u = t
            BY <1>2, <2>5, <3>1 DEF TaskStep, RunLoop, Die
        <3>2. CASE u # t
            <4>1. OthersWait(u)
                BY <1>1, <2>5, RunLoopCases, EndSendCases DEF TaskStep, OthersWait, Die, TypeOK
            <4> QED
                BY <2>1, <3>2, <4>1 DEF OthersWait
        <3> QED
            BY <3>1, <3>2
    <2>6. ~ \E d \in Sockets : EndEndpoint(d)
        BY <1>1, <1>2, EndEndpointCases
    <2> QED
        BY <2>2, <2>3, <2>4, <2>5, <2>6 DEF Next
<1>4. PICK b \in TaskRecord : b.index = task[t].index /\ Ends(t, b)
    BY <1>1, <1>2, <1>3, EndSendCases DEF Sends
<1>5. task[t].index = Len(connected_clients)
    BY <1>1, <1>2, <1>4 DEF Ends, ServedOK, TypeOK, TaskRecord
<1>6. PICK i \in DOMAIN connected_clients : connected_clients[i] = c
    BY <1>1 DEF RosterExact, Range
<1>7. i \in 1 .. task[t].index
    BY <1>1, <1>5, <1>6 DEF TypeOK
<1> QED
    BY <1>1, <1>2, <1>6, <1>7 DEF ServedOK

\* A broadcast reaches every client that is open when it ends, if no entry before its position was
\* removed meanwhile.
THEOREM BroadcastReachesEveryone == Spec => ReachesEveryone
<1>1. Inv /\ NewestKept /\ [Next]_vars =>
          [\A t \in Tasks, c \in Sockets :
               EndsBroadcast(t) /\ ~task[t].shifted /\ link[c] = "open"
                   => heard[c] = task[t].message]_vars
    BY ReachStep
<1> QED
    BY <1>1, Inductive, PTL DEF Spec, ReachesEveryone

=============================================================================
