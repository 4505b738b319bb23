----------------------------- MODULE FilePolling -----------------------------
(***************************************************************************)
(* The receivers that poll for files (src/receiver/sftp.go, oss.go): a     *)
(* scan lists the files, streams those whose signature it has not seen as  *)
(* chunks and remembers the signature; errors end the scan, not the loop.  *)
(*                                                                         *)
(* A file is a version and a number of chunks. Writing a file gives it a   *)
(* new version, hence a new signature (the modification time advances with *)
(* every write), and is seen by a stream that is reading it. Files are     *)
(* numbered in the order of their names. Dispatching a chunk returns.      *)
(*                                                                         *)
(* "Mistake:" marks a definition that is not part of the model but the one *)
(* after it with a programming error a property has to detect.             *)
(***************************************************************************)
EXTENDS Integers, Sequences, FiniteSets, Functions

CONSTANTS
  Kinds,      \* receivers: "sftp", "oss"
  NumFiles,   \* files that may exist
  MaxSize,    \* bound on the chunks of a file
  MaxWrites,  \* bound on the writes and deletions
  MaxFaults,  \* bound on the failures of the server
  SeenLimit   \* seenLimit of an OSS receiver

Files == 1..NumFiles

VARIABLES
  kind,
  dir,        \* each file on the server: version (0: there is none) and size
  poller,     \* where Start is
  cancelled,  \* its context was cancelled
  entries,    \* what is left of the scan
  offset,     \* chunks of the first entry read so far
  seen,       \* signature remembered for each file, 0 for none
  seenOrder,  \* the order in which an OSS receiver first saw them
  stopper,    \* where Stop is
  out,        \* history: the chunks of the latest stream of each file
  whole,      \* history: the latest version delivered as a whole
  repeated,   \* history: files delivered again in an unchanged version
  writes, faults

scan == <<entries, offset>>
memory == <<seen, seenOrder>>
history == <<out, whole, repeated>>
bounds == <<writes, faults>>
vars == <<kind, dir, poller, cancelled, scan, memory, stopper, history, bounds>>

Init ==
  /\ kind \in Kinds
  /\ dir \in [Files -> [ver : {1}, size : 0..MaxSize]]
  /\ poller = "new" /\ cancelled = FALSE
  /\ entries = <<>> /\ offset = 0
  /\ seen = [f \in Files |-> 0] /\ seenOrder = <<>>
  /\ stopper = "idle"
  /\ out = [f \in Files |-> <<>>] /\ whole = [f \in Files |-> 0]
  /\ repeated = {}
  /\ writes = 0 /\ faults = 0
-----------------------------------------------------------------------------
(* Start and the loop.                                                     *)

\* The section under mu that installs cancel and done.
Start ==
  /\ poller = "new"
  /\ poller' = "scan"
  /\ UNCHANGED <<kind, dir, cancelled, scan, memory, stopper, history, bounds>>

ScanError == poller' = "wait"

\* A call of the server fails in listing, opening or reading.
Fails ==
  /\ poller \in {"scan", "open", "stream"} /\ faults < MaxFaults
  /\ faults' = faults + 1
  /\ ScanError
  /\ entries' = <<>> /\ offset' = 0
  /\ UNCHANGED <<kind, dir, cancelled, memory, stopper, history, writes>>

\* The files there are, in the order of their names.
List ==
  /\ poller = "scan"
  /\ LET listed == {f \in Files : dir[f].ver # 0}
     IN  \E names \in [1..Cardinality(listed) -> listed] :
           /\ \A k, l \in DOMAIN names : k < l => names[k] < names[l]
           /\ entries' = [k \in DOMAIN names |-> [file |-> names[k], ver |-> dir[names[k]].ver,
                                                  size |-> dir[names[k]].size]]
  /\ poller' = "next"
  /\ UNCHANGED <<kind, dir, cancelled, offset, memory, stopper, history, bounds>>

\* The loop over the files that were listed.
NextFile ==
  /\ poller = "next"
  /\ \/ (entries = <<>> \/ cancelled) /\ poller' = "wait" /\ entries' = <<>>
     \/ /\ entries # <<>> /\ ~cancelled
        /\ \/ /\ seen[Head(entries).file] = Head(entries).ver
              /\ entries' = Tail(entries) /\ UNCHANGED poller
           \/ /\ seen[Head(entries).file] # Head(entries).ver
              /\ poller' = "open" /\ UNCHANGED entries
  /\ UNCHANGED <<kind, dir, cancelled, offset, memory, stopper, history, bounds>>

Open ==
  LET f == Head(entries).file IN
  /\ poller = "open"
  /\ \/ dir[f].ver # 0 /\ poller' = "stream" /\ UNCHANGED entries
     \/ dir[f].ver = 0 /\ ScanError /\ entries' = <<>>
  /\ out' = [out EXCEPT ![f] = <<>>]
  /\ UNCHANGED <<kind, dir, cancelled, offset, memory, stopper, whole, repeated, bounds>>

\* Mistake: the chunk behind the last one has the mark.
EOFBehind(o, size, end) == end \/ o + 1 > size

fileChunkEOF(o, size, end) == end \/ o + 1 >= size

\* A chunk is read and dispatched; io.EOF may come with the last one.
Read ==
  LET e == Head(entries)  f == e.file IN
  /\ poller = "stream" /\ ~cancelled /\ offset < dir[f].size
  /\ \E end \in {FALSE, offset + 1 = dir[f].size} :
       /\ out' = [out EXCEPT ![f] = Append(@, [ver |-> dir[f].ver, offset |-> offset,
                                               eof |-> fileChunkEOF(offset, e.size, end)])]
       /\ poller' = IF end THEN "mark" ELSE "stream"
  /\ offset' = offset + 1
  /\ UNCHANGED <<kind, dir, cancelled, entries, memory, stopper, whole, repeated, bounds>>

\* A read without data: the end of the file, or a context that was cancelled.
StreamEnds ==
  /\ poller = "stream"
  /\ cancelled \/ offset >= dir[Head(entries).file].size
  /\ poller' = "mark"
  /\ UNCHANGED <<kind, dir, cancelled, scan, memory, stopper, history, bounds>>

Queued(f) == IF seen[f] = 0 THEN Append(seenOrder, f) ELSE seenOrder

\* An OSS receiver forgets the oldest once it remembers too many.
Remembered(f, ver) ==
  LET all == [seen EXCEPT ![f] = ver]
      order == Queued(f)
      full == kind = "oss" /\ Cardinality({g \in Files : all[g] # 0}) > SeenLimit
  IN  /\ seen' = IF full THEN [all EXCEPT ![Head(order)] = 0] ELSE all
      /\ seenOrder' = IF kind = "sftp" THEN seenOrder ELSE IF full THEN Tail(order) ELSE order

Complete(ver, size) ==
  [k \in 1..size |-> [ver |-> ver, offset |-> k - 1, eof |-> k = size]]

markSeen ==
  LET e == Head(entries)  f == e.file IN
  /\ poller = "mark"
  /\ Remembered(f, e.ver)
  /\ entries' = Tail(entries) /\ offset' = 0
  /\ poller' = "next"
  /\ \/ /\ out[f] = Complete(e.ver, e.size)
        /\ repeated' = IF whole[f] = e.ver THEN repeated \cup {f} ELSE repeated
        /\ whole' = [whole EXCEPT ![f] = e.ver]
     \/ out[f] # Complete(e.ver, e.size) /\ UNCHANGED <<whole, repeated>>
  /\ UNCHANGED <<kind, dir, cancelled, stopper, out, bounds>>

\* The select between two scans; both branches may be ready.
Tick ==
  /\ poller = "wait"
  /\ poller' = "scan"
  /\ UNCHANGED <<kind, dir, cancelled, scan, memory, stopper, history, bounds>>

StartReturns ==
  /\ poller = "wait" /\ cancelled
  /\ poller' = "ended"
  /\ UNCHANGED <<kind, dir, cancelled, scan, memory, stopper, history, bounds>>
-----------------------------------------------------------------------------
(* Stop, and the server's files.                                           *)

\* Without a running Start there is nothing to cancel or to wait for.
Stop ==
  /\ stopper = "idle"
  /\ \/ poller \in {"new", "ended"} /\ stopper' = "returned" /\ UNCHANGED cancelled
     \/ poller \notin {"new", "ended"} /\ stopper' = "waiting" /\ cancelled' = TRUE
  /\ UNCHANGED <<kind, dir, poller, scan, memory, history, bounds>>

StopReturns ==
  /\ stopper = "waiting" /\ poller = "ended"
  /\ stopper' = "returned"
  /\ UNCHANGED <<kind, dir, poller, cancelled, scan, memory, history, bounds>>

StopTimesOut ==
  /\ stopper = "waiting"
  /\ stopper' = "timedOut"
  /\ UNCHANGED <<kind, dir, poller, cancelled, scan, memory, history, bounds>>

WriteFile(f, size) ==
  /\ writes < MaxWrites
  /\ writes' = writes + 1
  /\ dir' = [dir EXCEPT ![f] = [ver |-> writes + 2, size |-> size]]
  /\ UNCHANGED <<kind, poller, cancelled, scan, memory, stopper, history, faults>>

DeleteFile(f) ==
  /\ writes < MaxWrites /\ dir[f].ver # 0
  /\ writes' = writes + 1
  /\ dir' = [dir EXCEPT ![f] = [ver |-> 0, size |-> 0]]
  /\ UNCHANGED <<kind, poller, cancelled, scan, memory, stopper, history, faults>>

Poller == List \/ NextFile \/ Open \/ Read \/ StreamEnds \/ markSeen \/ Tick

Next ==
  \/ Start \/ Poller \/ Fails \/ StartReturns
  \/ Stop \/ StopReturns \/ StopTimesOut
  \/ \E f \in Files : DeleteFile(f) \/ \E size \in 0..MaxSize : WriteFile(f, size)

Spec == Init /\ [][Next]_vars

\* The loop goes on, and its select does not for ever prefer the timer to the
\* end of the context. Failures are finitely many.
Fairness == WF_vars(Poller) /\ SF_vars(StartReturns) /\ WF_vars(StopReturns)
-----------------------------------------------------------------------------
(* Properties.                                                             *)

\* A file that would be skipped by the next scan because its signature is known
\* was delivered as a whole in the version it has: every chunk once, in order,
\* of that version, the last and only the last marked EOF. So a scan that failed,
\* or a file written while it was read, is repeated (sftp.go:320-321). A receiver
\* that is being stopped is excepted: it marks the file it was reading. What is
\* remembered is exact: seenOrder lists the remembered files once each, no more
\* than the limit; and a file that did not change is not read twice (the purpose
\* docs/configuration.md:281 gives of the signatures), as long as an OSS receiver
\* has no more files than it remembers.
SeenDelivered ==
  /\ \A f \in Files :
       ~cancelled /\ dir[f].ver # 0 /\ seen[f] = dir[f].ver => whole[f] = dir[f].ver
  /\ kind = "oss" =>
       /\ Range(seenOrder) = {f \in Files : seen[f] # 0}
       /\ IsInjective(seenOrder) /\ Len(seenOrder) <= SeenLimit
  /\ kind = "sftp" \/ NumFiles <= SeenLimit => repeated = {}

\* A receiver that runs and is not stopped has delivered every file as a whole in
\* the version it has; and one that Stop waits for has ended.
Settled ==
  /\ poller # "new" /\ ~cancelled =>
       \A f \in Files : dir[f].ver # 0 => whole[f] = dir[f].ver
  /\ stopper # "idle" /\ cancelled => poller = "ended"

=============================================================================
