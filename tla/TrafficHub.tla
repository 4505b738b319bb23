----------------------------- MODULE TrafficHub -----------------------------
(***************************************************************************)
(* The traffic statistics (src/logx/traffic_agg.go): counters shared by    *)
(* every handle of one name, the registries of tasks and senders, and the  *)
(* flush that reads all of them without stopping the hot path.             *)
(*                                                                         *)
(* A user is one instance of a receiver or of a task. Instances of a       *)
(* receiver overlap (a replacement starts before the old one stops);       *)
(* instances of a task do not, and may hand their handle to the next       *)
(* (DetachTrafficCounter, ReuseTrafficCounter). Instances of a sender      *)
(* overlap. A name stands for the key of its counter, which buildTrafficKey*)
(* makes of it; counters are numbered as they are made. A sample has one   *)
(* byte, so bytes and packets are one number. A user adds one sample at a  *)
(* time.                                                                   *)
(*                                                                         *)
(* "Mistake:" marks a definition that is not part of the model but the one *)
(* after it with a programming error a property has to detect.             *)
(***************************************************************************)
EXTENDS Integers, FiniteSets

CONSTANTS
  Receivers, Tasks,  \* names with a counter
  Users,         \* instances
  Senders,       \* instances of senders; they all have one name
  Sample,        \* traffic_stats_sample_every
  MaxCounters,   \* bound on the counters made
  MaxSamples,    \* bound on the samples of a counter
  None

Names == Receivers \cup Tasks

ASSUME BoundsAssumption ==
  /\ Sample \in Nat \ {0} /\ MaxCounters \in Nat /\ MaxSamples \in Nat
ASSUME NamesAssumption ==
  Receivers \cap Tasks = {} /\ None \notin Names \cup Users \cup Senders
ASSUME UsersAssumption == IsFiniteSet(Users)

VARIABLES
  counters,    \* counters of the hub: the counter of each name, 0 for none
  made,        \* number of counters made
  refs, seen, packets, last,  \* the fields of each counter
  users,       \* each user: its name, its counter, its handle, its AddBytes
  spare,       \* the counter whose handle the next instance of a task takes over, or 0
  registered,  \* taskRuntimeStatsFn: the instance registered for each task
  sender,      \* where each sender is
  senderEntry, \* senderRuntimeStatsFn: the entry of the senders' name
  senderSeq, senderId,  \* senderRuntimeStatsSeq and the id each sender got
  flush,       \* where flush is
  cs,          \* the counters it still has to add
  seenTask,    \* the tasks it added
  listed,      \* Tasks of the summary: how many items each task has
  throughout   \* history: tasks that were registered during the whole flush

Counters == 1..MaxCounters
hub == <<counters, made, refs>>
counts == <<seen, packets, last>>
sending == <<sender, senderEntry, senderSeq, senderId>>
summary == <<flush, cs, seenTask, listed>>
vars == <<hub, counts, users, spare, registered, throughout, sending, summary>>

Idle == [name |-> None, counter |-> 0, handle |-> "none", add |-> "no"]

Init ==
  /\ counters = [n \in Names |-> 0] /\ made = 0
  /\ refs = [c \in Counters |-> 0] /\ seen = [c \in Counters |-> 0]
  /\ packets = [c \in Counters |-> 0] /\ last = [c \in Counters |-> 0]
  /\ users = [u \in Users |-> Idle]
  /\ spare = [t \in Tasks |-> 0] /\ registered = [t \in Tasks |-> None]
  /\ sender = [s \in Senders |-> "new"] /\ senderEntry = None
  /\ senderSeq = 0 /\ senderId = [s \in Senders |-> 0]
  /\ flush = "idle" /\ cs = {} /\ seenTask = {} /\ listed = [t \in Tasks |-> 0]
  /\ throughout = {}
-----------------------------------------------------------------------------
(* Handles.                                                                *)

\* The counter a handle of the name gets from acquire.
Acquired(n) == IF counters[n] # 0 THEN counters[n] ELSE made + 1

Opened(n, c) == [name |-> n, counter |-> c, handle |-> "open", add |-> "no"]

\* An instance is gone once its handle is and no AddBytes is under way.
Settled(i) == IF i.handle = "none" /\ i.add = "no" THEN Idle ELSE i

\* acquire and release run under mu.
acquire(n) ==
  LET c == Acquired(n) IN
  /\ c \in Counters
  /\ made' = IF c > made THEN c ELSE made
  /\ refs' = [refs EXCEPT ![c] = @ + 1]
  /\ counters' = [counters EXCEPT ![n] = c]

\* Mistake: the counter leaves the hub with the first handle.
releaseCounter(n) ==
  /\ refs' = [c \in Counters |-> IF c = counters[n] THEN refs[c] - 1 ELSE refs[c]]
  /\ counters' = [counters EXCEPT ![n] = 0]
  /\ UNCHANGED made

release(n) ==
  LET c == counters[n] IN
  /\ UNCHANGED made
  /\ \/ c = 0 /\ UNCHANGED <<refs, counters>>
     \/ /\ c # 0
        /\ refs' = [refs EXCEPT ![c] = @ - 1]
        /\ counters' = IF refs[c] - 1 <= 0 THEN [counters EXCEPT ![n] = 0] ELSE counters

StartReceiver(u, n) ==
  /\ users[u] = Idle
  /\ acquire(n)
  /\ users' = [users EXCEPT ![u] = Opened(n, Acquired(n))]
  /\ UNCHANGED <<counts, spare, registered, throughout, sending, summary>>

RegisterTaskRuntimeStats(t, u) == registered' = [registered EXCEPT ![t] = u]

\* Start, as addTask calls it: no other instance of the task is left, because
\* removeTask waits for StopGraceful. It takes over the spare handle, if any.
StartTask(u, t) ==
  /\ users[u] = Idle /\ \A v \in Users : users[v].name # t
  /\ \/ spare[t] # 0 /\ UNCHANGED hub /\ users' = [users EXCEPT ![u] = Opened(t, spare[t])]
     \/ spare[t] = 0 /\ acquire(t) /\ users' = [users EXCEPT ![u] = Opened(t, Acquired(t))]
  /\ spare' = [spare EXCEPT ![t] = 0]
  /\ RegisterTaskRuntimeStats(t, u)
  /\ UNCHANGED <<counts, throughout, sending, summary>>

\* addTask fails before Start: its deferred function closes the handle it was given.
\* (Where an instance of a pipeline cannot be built, err is a new variable of the
\* block and that function would see none; a compiled pipeline always can be.)
StartFails(t) ==
  /\ spare[t] # 0 /\ \A v \in Users : users[v].name # t
  /\ spare' = [spare EXCEPT ![t] = 0]
  /\ release(t)
  /\ UNCHANGED <<counts, users, registered, throughout, sending, summary>>

\* AddBytes finds the handle open.
AddBegin(u) ==
  /\ users[u].handle = "open" /\ users[u].add = "no"
  /\ seen[users[u].counter] + Cardinality({v \in Users : users[v].add = "checked"}) < MaxSamples
  /\ users' = [users EXCEPT ![u].add = "checked"]
  /\ UNCHANGED <<hub, counts, spare, registered, throughout, sending, summary>>

\* Whether the sample with this number is counted.
Hit(seq) == seq % Sample = 0

AddSeen(u) ==
  LET c == users[u].counter  next == IF Hit(seen[c] + 1) THEN "adding" ELSE "no" IN
  /\ users[u].add = "checked"
  /\ seen' = [seen EXCEPT ![c] = @ + 1]
  /\ users' = [users EXCEPT ![u] = Settled([@ EXCEPT !.add = next])]
  /\ UNCHANGED <<hub, packets, last, spare, registered, throughout, sending, summary>>

AddPackets(u) ==
  /\ users[u].add = "adding"
  /\ packets' = [packets EXCEPT ![users[u].counter] = @ + Sample]
  /\ users' = [users EXCEPT ![u] = Settled([@ EXCEPT !.add = "no"])]
  /\ UNCHANGED <<hub, seen, last, spare, registered, throughout, sending, summary>>

\* removeTask takes the handle out of a task that will be rebuilt.
DetachTrafficCounter(u) ==
  /\ users[u].handle = "open" /\ users[u].name \in Tasks
  /\ spare' = [spare EXCEPT ![users[u].name] = users[u].counter]
  /\ users' = [users EXCEPT ![u].handle = "detached"]
  /\ UNCHANGED <<hub, counts, registered, throughout, sending, summary>>

\* StopGraceful after inflight.Wait: by name, whoever registered.
UnregisterTask(u) ==
  LET i == users[u]  left == IF i.handle = "open" THEN "unregistered" ELSE "none" IN
  /\ i.name \in Tasks /\ i.handle \in {"open", "detached"} /\ i.add = "no"
  /\ registered' = [registered EXCEPT ![i.name] = None]
  /\ throughout' = throughout \ {i.name}
  /\ users' = [users EXCEPT ![u] = Settled([@ EXCEPT !.handle = left])]
  /\ UNCHANGED <<hub, counts, spare, sending, summary>>

\* Close: the swap of closed; the calls that lose it do nothing.
CloseBegin(u) ==
  LET i == users[u] IN
  /\ i.handle = (IF i.name \in Tasks THEN "unregistered" ELSE "open")
  /\ users' = [users EXCEPT ![u].handle = "closing"]
  /\ UNCHANGED <<hub, counts, spare, registered, throughout, sending, summary>>

CloseEnd(u) ==
  /\ users[u].handle = "closing"
  /\ release(users[u].name)
  /\ users' = [users EXCEPT ![u] = Settled([@ EXCEPT !.handle = "none"])]
  /\ UNCHANGED <<counts, spare, registered, throughout, sending, summary>>
-----------------------------------------------------------------------------
(* Senders.                                                                *)

RegisterSender(s) ==
  /\ sender[s] = "new"
  /\ sender' = [sender EXCEPT ![s] = "open"]
  /\ senderSeq' = senderSeq + 1 /\ senderId' = [senderId EXCEPT ![s] = senderSeq + 1]
  /\ senderEntry' = s
  /\ UNCHANGED <<hub, counts, users, spare, registered, throughout, summary>>

\* Mistake: whatever entry the name has goes.
DeleteEntry(s) == senderEntry' = None

DeleteOwnEntry(s) ==
  senderEntry' = IF senderEntry # None /\ senderId[senderEntry] = senderId[s] THEN None
                 ELSE senderEntry

UnregisterSender(s) ==
  /\ sender[s] = "open"
  /\ sender' = [sender EXCEPT ![s] = "closed"]
  /\ DeleteOwnEntry(s)
  /\ UNCHANGED <<hub, counts, users, spare, registered, throughout, senderSeq, senderId, summary>>
-----------------------------------------------------------------------------
(* flush, on the hub's one goroutine.                                      *)

listTaskRuntimeStats == {t \in Tasks : registered[t] # None}

FlushBegin ==
  /\ flush = "idle"
  /\ flush' = "adding"
  /\ cs' = {[name |-> n, counter |-> counters[n]] : n \in {m \in Names : counters[m] # 0}}
  /\ seenTask' = {} /\ listed' = [t \in Tasks |-> 0]
  /\ throughout' = listTaskRuntimeStats
  /\ UNCHANGED <<hub, counts, users, spare, registered, sending>>

\* Mistake: tasks without traffic are not remembered.
SeenBusyTasks(e) == IF packets[e.counter] > 0 THEN seenTask \cup {e.name} ELSE seenTask

SeenTasks(e) == seenTask \cup {e.name}

\* A counter of a receiver adds nothing to the summary.
FlushAdd(e) ==
  /\ flush = "adding" /\ e \in cs
  /\ cs' = cs \ {e}
  /\ \/ e.name \notin Tasks /\ UNCHANGED <<last, listed, seenTask>>
     \/ /\ e.name \in Tasks
        /\ last' = [last EXCEPT ![e.counter] = packets[e.counter]]
        /\ listed' = [listed EXCEPT ![e.name] = @ + 1]
        /\ seenTask' = SeenTasks(e)
  /\ UNCHANGED <<hub, seen, packets, users, spare, registered, throughout, sending, flush>>

\* The tasks that are registered and were not added.
addRuntimeOnlyTasks ==
  /\ flush = "adding" /\ cs = {}
  /\ listed' = [t \in Tasks |-> IF t \in listTaskRuntimeStats \ seenTask THEN listed[t] + 1
                                ELSE listed[t]]
  /\ flush' = "log"
  /\ UNCHANGED <<hub, counts, users, spare, registered, throughout, sending, cs, seenTask>>

FlushEnd ==
  /\ flush = "log"
  /\ flush' = "idle" /\ seenTask' = {} /\ listed' = [t \in Tasks |-> 0] /\ throughout' = {}
  /\ UNCHANGED <<hub, counts, users, spare, registered, sending, cs>>

UserStep(u) ==
  \/ AddBegin(u) \/ AddSeen(u) \/ AddPackets(u)
  \/ DetachTrafficCounter(u) \/ UnregisterTask(u) \/ CloseBegin(u) \/ CloseEnd(u)

FlushStep == FlushBegin \/ (\E e \in cs : FlushAdd(e)) \/ addRuntimeOnlyTasks \/ FlushEnd

Next ==
  \/ \E u \in Users : \/ UserStep(u)
                      \/ \E n \in Receivers : StartReceiver(u, n)
                      \/ \E t \in Tasks : StartTask(u, t)
  \/ \E t \in Tasks : StartFails(t)
  \/ \E s \in Senders : RegisterSender(s) \/ UnregisterSender(s)
  \/ FlushStep

Spec == Init /\ [][Next]_vars
-----------------------------------------------------------------------------
(* Properties.                                                             *)

\* All handles of a name that are not yet released, the one handed from a task to
\* its next instance included, share the counter of the hub, and refs is their
\* number, so a counter leaves the hub exactly with its last handle; and what a
\* counter counts are all full groups of samples seen, but for those that are being
\* added, and never less than flush last reported (traffic_agg.go:262-271, 378-408).
CountersShared ==
  /\ \A n \in Names :
       LET holders == {u \in Users : /\ users[u].name = n
                                     /\ users[u].handle \in {"open", "unregistered", "closing"}}
           passed == IF n \in Tasks /\ spare[n] # 0 THEN 1 ELSE 0
           c == counters[n]
       IN  /\ (IF c = 0 THEN 0 ELSE refs[c]) = Cardinality(holders) + passed
           /\ \A u \in holders : users[u].counter = c
           /\ passed = 1 => spare[n] = c
  /\ \A c \in Counters :
       LET adding == {u \in Users : users[u].counter = c /\ users[u].add = "adding"} IN
       /\ packets[c] = Sample * (seen[c] \div Sample - Cardinality(adding))
       /\ last[c] <= packets[c]

\* The summary shows what runs. A task is listed at most once, whatever was started,
\* stopped or rebuilt while flush was running, and exactly once if it was registered
\* all the time, with or without traffic (traffic_agg.go:440); the
\* instance registered for a task is the running one; the sender registered for a
\* name is the one that was built last, until it is closed, although older instances
\* of it are closed later. Nothing is said of an older instance that outlives the last
\* one, as after a reload that closes its replacements: it is not listed any more.
RunningListed ==
  /\ flush = "log" => \A t \in Tasks : /\ listed[t] <= 1
                                       /\ t \in throughout => listed[t] = 1
  /\ \A u \in Users : users[u].name \in Tasks /\ users[u].handle \in {"open", "detached"} =>
       registered[users[u].name] = u
  /\ \A s \in Senders : senderId[s] = senderSeq /\ sender[s] = "open" => senderEntry = s
  /\ senderEntry # None => sender[senderEntry] = "open"

=============================================================================
