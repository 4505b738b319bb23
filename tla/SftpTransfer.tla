---------------------------- MODULE SftpTransfer ----------------------------
(***************************************************************************)
(* The SFTP sender (src/sender/sftp.go): chunks of files are written into  *)
(* temporary files of the server, each transfer by one of several          *)
(* connections (shards); a file all of whose bytes were written is renamed *)
(* to its final path.                                                      *)
(*                                                                         *)
(* A file of the server is a sequence of bytes, each named by the transfer *)
(* it came from (None where nothing was written). OpenFile, WriteAt and    *)
(* Close of one chunk are one step of the server; they may fail before or  *)
(* after they took effect. Checksums and the making of paths are left out. *)
(* Restart is a Close or a crash, followed by a new sender: the process    *)
(* loses its state, the server keeps its files.                            *)
(*                                                                         *)
(* "Mistake:" marks a definition that is not part of the model but the one *)
(* after it with a programming error a property has to detect.             *)
(***************************************************************************)
EXTENDS Integers, Sequences, FiniteSetsExt

CONSTANTS
  Workers,      \* goroutines that call Send
  Transfers,    \* transfer ids
  Size,         \* TotalSize of each transfer
  Chunks,       \* its chunks: [start, end]; the one that ends at Size has EOF
  PathOf,       \* its final path
  Concurrency,  \* connections, a power of two
  Copies,       \* how often each chunk of a transfer may be sent
  MaxRestarts,  \* bound on the restarts
  Faults,       \* calls of the server that may fail
  None

Shards == 0..(Concurrency - 1)
Paths == {PathOf[t] : t \in Transfers}
FaultKinds == {"dial", "mkdir", "write", "rename", "answer"}

FileRange == [start : Nat, end : Nat]
States == [totalSize : Nat, eofSeen : BOOLEAN, ranges : Seq(FileRange), received : SUBSET Nat]

ASSUME TransfersAssumption ==
  /\ \A t \in Transfers : Size[t] \in Nat \ {0}
  /\ \A t \in Transfers : \A c \in Chunks[t] :
       c \in FileRange /\ c.end \in 1..Size[t] /\ c.start < c.end
ASSUME BoundsAssumption ==
  /\ Concurrency \in {1, 2, 4} /\ Copies \in [Transfers -> Nat] /\ MaxRestarts \in Nat
  /\ Faults \subseteq FaultKinds /\ None \notin Workers \cup Transfers
ASSUME NoneAssumption == None \notin States \cup Seq(Transfers \cup {None})

VARIABLES
  transferShard, nextIdx,
  lock,          \* locks: who holds the lock of each shard
  connReady,     \* whether its connection is up
  states,        \* of each shard: the state of each transfer, or None
  pc, job, idx,  \* of each worker: where it is, its chunk and its shard
  temp, final,   \* the server's files at tempPath and finalPath, or None
  sent,          \* history: how often each chunk was sent
  committed,     \* history: paths a rename put a file at
  renameFailed,  \* history: transfers whose rename failed
  split,         \* history: transfers that had a state in two shards at a time
  restarts

assignment == <<transferShard, nextIdx>>
worker == <<pc, job, idx>>
server == <<temp, final>>
history == <<sent, committed, renameFailed, split, restarts>>
vars == <<assignment, lock, connReady, states, worker, server, history>>

NoStates == [i \in Shards |-> [t \in Transfers |-> None]]

\* Memory of a new sender: NewSFTPSender has dialled every connection.
Fresh ==
  [transferShard |-> [t \in Transfers |-> None], nextIdx |-> 0,
   lock |-> [i \in Shards |-> None], connReady |-> [i \in Shards |-> TRUE],
   states |-> NoStates, pc |-> [w \in Workers |-> "idle"],
   job |-> [w \in Workers |-> None], idx |-> [w \in Workers |-> 0]]

Init ==
  /\ transferShard = Fresh.transferShard /\ nextIdx = Fresh.nextIdx
  /\ lock = Fresh.lock /\ connReady = Fresh.connReady /\ states = Fresh.states
  /\ pc = Fresh.pc /\ job = Fresh.job /\ idx = Fresh.idx
  /\ temp = [f \in Paths |-> None] /\ final = [f \in Paths |-> None]
  /\ sent = [t \in Transfers |-> [c \in Chunks[t] |-> 0]]
  /\ committed = {} /\ renameFailed = {} /\ split = {} /\ restarts = 0
-----------------------------------------------------------------------------
(* Ranges: what a transfer has received.                                   *)

\* Mistake: ranges that touch are not merged.
BeforeOrTouching(r, q) == r.end <= q.start

Before(r, q) == r.end < q.start

\* One turn of addRange's loop: acc is the merged list so far, the new range
\* as it has grown, and whether it was put into the list.
MergeOne(acc, cur) ==
  CASE Before(cur, acc.new) -> [acc EXCEPT !.merged = Append(@, cur)]
    [] Before(acc.new, cur) ->
         [acc EXCEPT !.merged = Append(IF acc.inserted THEN @ ELSE Append(@, acc.new), cur),
                     !.inserted = TRUE]
    [] OTHER ->
         [acc EXCEPT !.new.start = Min({@, cur.start}), !.new.end = Max({@, cur.end})]

Turns(ranges, r) ==
  LET acc[k \in 0..Len(ranges)] ==
        IF k = 0 THEN [merged |-> <<>>, new |-> r, inserted |-> FALSE]
        ELSE MergeOne(acc[k - 1], ranges[k])
  IN  acc

addRange(ranges, r) ==
  LET acc == Turns(ranges, r)[Len(ranges)]
  IN  IF acc.inserted THEN acc.merged ELSE Append(acc.merged, acc.new)

coveredBytes(ranges) ==
  LET sum[k \in 0..Len(ranges)] ==
        IF k = 0 THEN 0 ELSE sum[k - 1] + (ranges[k].end - ranges[k].start)
  IN  sum[Len(ranges)]

\* Mistake: the last chunk commits the file.
ReadyOnEOF(st) == st.eofSeen

readyToCommit(st) ==
  /\ st.eofSeen
  /\ Len(st.ranges) = 1
  /\ st.totalSize > 0 =>
       /\ coveredBytes(st.ranges) >= st.totalSize
       /\ st.ranges[1].start = 0 /\ st.ranges[1].end >= st.totalSize
-----------------------------------------------------------------------------
(* Send.                                                                   *)

Turn == IF Concurrency = 1 THEN nextIdx ELSE (nextIdx + 1) % Concurrency

\* Send up to pickShard: an assignment lasts until the transfer is committed.
PickShard(w, t, c) ==
  /\ pc[w] = "idle" /\ sent[t][c] < Copies[t]
  /\ sent' = [sent EXCEPT ![t][c] = @ + 1]
  /\ job' = [job EXCEPT ![w] = [transfer |-> t, chunk |-> c]]
  /\ pc' = [pc EXCEPT ![w] = "connect"]
  /\ \/ /\ transferShard[t] # None
        /\ idx' = [idx EXCEPT ![w] = transferShard[t]]
        /\ UNCHANGED assignment
     \/ /\ transferShard[t] = None
        /\ nextIdx' = Turn
        /\ idx' = [idx EXCEPT ![w] = Turn]
        /\ transferShard' = [transferShard EXCEPT ![t] = Turn]
  /\ UNCHANGED <<lock, connReady, states, server, committed, renameFailed, split, restarts>>

Goes(w, to) == pc' = [pc EXCEPT ![w] = to] /\ UNCHANGED <<job, idx>>
Return(w) ==
  /\ pc' = [pc EXCEPT ![w] = "idle"] /\ job' = [job EXCEPT ![w] = None]
  /\ idx' = [idx EXCEPT ![w] = 0]
  /\ lock' = [i \in Shards |-> IF lock[i] = w THEN None ELSE lock[i]]
Connection(w, up) == connReady' = [connReady EXCEPT ![idx[w]] = up]

\* The connection is looked at, and made under the lock if it is down.
EnsureConn(w) ==
  /\ pc[w] = "connect"
  /\ \/ connReady[idx[w]] /\ Goes(w, "lock") /\ UNCHANGED <<lock, connReady>>
     \/ /\ ~connReady[idx[w]] /\ lock[idx[w]] = None
        /\ \/ Goes(w, "lock") /\ Connection(w, TRUE) /\ UNCHANGED lock
           \/ "dial" \in Faults /\ Return(w) /\ UNCHANGED connReady
  /\ UNCHANGED <<assignment, states, server, history>>

NewState(t) == [totalSize |-> Size[t], eofSeen |-> FALSE, ranges |-> <<>>, received |-> {}]

\* sendLocked: the connection again, which another Send may have given up, and
\* the state of a transfer that has none.
Lock(w) ==
  LET i == idx[w]  t == job[w].transfer IN
  /\ pc[w] = "lock" /\ lock[i] = None
  /\ \/ /\ lock' = [lock EXCEPT ![i] = w]
        /\ Connection(w, TRUE)
        /\ states' = [states EXCEPT ![i][t] = IF @ = None THEN NewState(t) ELSE @]
        /\ split' = IF states[i][t] = None /\ \E j \in Shards : states[j][t] # None
                    THEN split \cup {t} ELSE split
        /\ Goes(w, "write")
     \/ /\ \/ "dial" \in Faults /\ ~connReady[i]
           \/ "mkdir" \in Faults /\ states[i][t] = None
        /\ Connection(w, FALSE)
        /\ Return(w)
        /\ UNCHANGED <<states, split>>
  /\ UNCHANGED <<assignment, server, sent, committed, renameFailed, restarts>>

\* The temporary file after OpenFile and after WriteAt.
Opened(f) == IF temp[f] = None THEN <<>> ELSE temp[f]
Written(f, t, c) ==
  LET old == Opened(f) IN
  [k \in 1..Max({Len(old), c.end}) |->
     IF k \in (c.start + 1)..c.end THEN t ELSE IF k <= Len(old) THEN old[k] ELSE None]

Received(st, t, c) ==
  [st EXCEPT !.ranges = addRange(@, c), !.eofSeen = @ \/ c.end = Size[t],
             !.received = @ \cup ((c.start + 1)..c.end)]

\* A chunk is written and noted; the file may then be complete.
WriteChunk(w) ==
  LET i == idx[w]  t == job[w].transfer  c == job[w].chunk  f == PathOf[t]
      st == Received(states[i][t], t, c)
  IN
  /\ pc[w] = "write"
  /\ temp' = [temp EXCEPT ![f] = Written(f, t, c)]
  /\ states' = [states EXCEPT ![i][t] = st]
  /\ \/ readyToCommit(st) /\ Goes(w, "remove") /\ UNCHANGED lock
     \/ ~readyToCommit(st) /\ Return(w)
  /\ UNCHANGED <<assignment, connReady, final, history>>

\* An error of OpenFile, WriteAt or Close, with or without effect on the file.
WriteFails(w) ==
  LET t == job[w].transfer  c == job[w].chunk  f == PathOf[t] IN
  /\ pc[w] = "write" /\ "write" \in Faults
  /\ \/ UNCHANGED temp
     \/ temp' = [temp EXCEPT ![f] = Opened(f)]
     \/ temp' = [temp EXCEPT ![f] = Written(f, t, c)]
  /\ Connection(w, FALSE)
  /\ Return(w)
  /\ UNCHANGED <<assignment, states, final, history>>

\* Remove of the file at the final path; its error is ignored.
RemoveFinal(w) ==
  LET f == PathOf[job[w].transfer] IN
  /\ pc[w] = "remove"
  /\ \/ final' = [final EXCEPT ![f] = None]
     \/ "rename" \in Faults /\ UNCHANGED final
  /\ Goes(w, "rename")
  /\ UNCHANGED <<assignment, lock, connReady, states, temp, history>>

\* The server renames a file that exists to a path that is free.
Moved(f) ==
  /\ temp[f] # None /\ final[f] = None
  /\ final' = [final EXCEPT ![f] = temp[f]]
  /\ temp' = [temp EXCEPT ![f] = None]
  /\ committed' = committed \cup {f}

Rename(w) ==
  /\ pc[w] = "rename" /\ Moved(PathOf[job[w].transfer])
  /\ Goes(w, "cleanup")
  /\ UNCHANGED <<assignment, lock, connReady, states, sent, renameFailed, split, restarts>>

\* Mistake: the temporary file is cleaned up.
GivesUpFile(f) == temp' = [temp EXCEPT ![f] = None] /\ UNCHANGED <<final, committed>>

\* What a rename that failed leaves: the files as they were.
KeepsFile(f) == UNCHANGED <<server, committed>>

\* The error of a rename that was not done, or whose answer was lost.
RenameFails(w) ==
  LET t == job[w].transfer  f == PathOf[t] IN
  /\ pc[w] = "rename"
  /\ \/ /\ "rename" \in Faults \/ temp[f] = None \/ final[f] # None
        /\ KeepsFile(f)
     \/ "answer" \in Faults /\ Moved(f)
  /\ renameFailed' = renameFailed \cup {t}
  /\ Connection(w, FALSE)
  /\ Return(w)
  /\ UNCHANGED <<assignment, states, sent, split, restarts>>

cleanupCommittedTransfer(w) ==
  LET t == job[w].transfer IN
  /\ pc[w] = "cleanup"
  /\ states' = [states EXCEPT ![idx[w]][t] = None]
  /\ transferShard' = [transferShard EXCEPT ![t] = None]
  /\ Return(w)
  /\ UNCHANGED <<nextIdx, connReady, server, history>>

\* Close, or a crash at any moment, and a new sender.
Restart ==
  /\ restarts < MaxRestarts
  /\ restarts' = restarts + 1
  /\ transferShard' = Fresh.transferShard /\ nextIdx' = Fresh.nextIdx
  /\ lock' = Fresh.lock /\ connReady' = Fresh.connReady /\ states' = Fresh.states
  /\ pc' = Fresh.pc /\ job' = Fresh.job /\ idx' = Fresh.idx
  /\ UNCHANGED <<server, sent, committed, renameFailed, split>>

SendStep(w) ==
  \/ EnsureConn(w) \/ Lock(w) \/ WriteChunk(w) \/ WriteFails(w) \/ RemoveFinal(w)
  \/ Rename(w) \/ RenameFails(w) \/ cleanupCommittedTransfer(w)

Next ==
  \/ Restart
  \/ \E w \in Workers :
       SendStep(w) \/ \E t \in Transfers : \E c \in Chunks[t] : PickShard(w, t, c)

Spec == Init /\ [][Next]_vars
-----------------------------------------------------------------------------
(* Properties.                                                             *)

Whole(file, t) == file = [k \in 1..Size[t] |-> t]
WholeAt(file, f) == \E t \in Transfers : PathOf[t] = f /\ Whole(file, t)

\* A Send that waits for its shard while the transfer is committed there makes a new state
\* in that shard, although the transfer's next Sends may be assigned another one. The two
\* states count chunks of one temporary file, and either rename takes it away.
Split(f) == \E t \in split : PathOf[t] = f

\* A file at its final path consists of all bytes of one transfer and nothing
\* else, whatever order its chunks came in, however often they were repeated and
\* whichever connections broke (docs/receivers-and-senders.md:253: the file gets
\* its final name once EOF was seen and all of its length was written). The exception are
\* transfers assembled in two shards at a time.
CommittedIntact == \A f \in Paths : final[f] # None => WholeAt(final[f], f) \/ Split(f)

\* A file that was once committed is never lost again, although a repetition
\* removes it before it renames its own copy, and may fail or crash in between:
\* the whole file is there, under its final or its temporary name.
CommittedKept == \A f \in committed : WholeAt(final[f], f) \/ WholeAt(temp[f], f) \/ Split(f)

\* The list of ranges is what was received, as sorted ranges with gaps between
\* them, so that "one range" means "no hole". And a file that is complete is
\* committed by the Send that completed it: a complete state without one at work
\* is that of a rename that failed (the next chunk tries again).
Canonical(ranges) ==
  /\ \A k \in DOMAIN ranges : ranges[k].start < ranges[k].end
  /\ \A k \in 1..(Len(ranges) - 1) : ranges[k].end < ranges[k + 1].start
Covered(ranges) == UNION {(ranges[k].start + 1)..ranges[k].end : k \in DOMAIN ranges}
ReceivedExact ==
  \A i \in Shards, t \in Transfers : states[i][t] # None =>
    LET st == states[i][t] IN
    /\ Canonical(st.ranges)
    /\ st.received = Covered(st.ranges)
    /\ (st.received = 1..Size[t] /\ t \notin renameFailed) =>
         lock[i] # None /\ job[lock[i]].transfer = t

=============================================================================
