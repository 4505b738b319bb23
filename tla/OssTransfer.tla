---------------------------- MODULE OssTransfer ----------------------------
(***************************************************************************)
(* The OSS sender (src/sender/oss.go): one file, identified by its         *)
(* transfer id, assembled into one object by multipart upload while tasks  *)
(* hand its chunks to Send from several goroutines, in any order, some of  *)
(* them more than once.                                                    *)
(*                                                                         *)
(* A byte of the file is its offset, so a payload is an interval of        *)
(* numbers. An ossTransferState is a session; the sender's map holds at    *)
(* most one for the transfer id, others live on in the calls that hold     *)
(* them. Each lock section and each call of the store is one action; a     *)
(* call of the store is joined with the lock section that records its      *)
(* outcome, since only that section looks at it.                           *)
(*                                                                         *)
(* "Mistake:" marks a definition that is not part of the model but the one *)
(* after it with a programming error a property has to detect.             *)
(***************************************************************************)
EXTENDS Integers, FiniteSets, Functions, Sequences

CONSTANTS
  Workers,      \* goroutines in Send
  Chunks,       \* the chunks receivers make of the file
  FileSize,
  PartSize,     \* part_size
  Copies,       \* how often a chunk may be sent
  MaxSessions,  \* bound on the number of sessions
  NumNotifiers, \* entries of notify_on_success
  Faults,       \* which calls of the store may fail, and the making of a notifier
  None

FaultKinds == {"new", "put", "complete", "completeLost", "abort", "build"}

\* What receiver/oss.go and receiver/sftp.go put into Meta: the last chunk has
\* EOF set, every chunk the size of the file. No chunk is empty.
ASSUME ChunksAssumption ==
  /\ FileSize \in Nat
  /\ Chunks \subseteq [start : Nat, end : 1..FileSize]
  /\ \A c \in Chunks : c.start < c.end
ASSUME SizesAssumption ==
  /\ PartSize \in Nat \ {0} /\ Copies \in Nat /\ MaxSessions \in Nat
  /\ NumNotifiers \in Nat
  /\ Faults \subseteq FaultKinds

PendingLimit == PartSize * 2
Sessions == 1..MaxSessions
Notifiers == 1..NumNotifiers
ASSUME NoneAssumption == None \notin Sessions

Bytes(a, b) == [i \in 1..(b - a) |-> a + i - 1]

VARIABLES
  states,    \* OSSSender.states: the session of the transfer id, or None
  sessions,  \* number of sessions made
  transfer,  \* the ossTransferState of each session
  pc,        \* where each goroutine is in Send
  chunk,     \* the chunk it was given
  session,   \* the session it holds
  op,        \* the upload operation it has in hand
  upload,    \* the store: life cycle of each session's multipart upload,
  stored,    \*   the parts put so far,
  object,    \*   and the parts the object was completed from
  sent,      \* history: how often each chunk was sent
  failed,    \* history: what went wrong in each session
  notified,  \* history: calls of each notifier for each session
  notifiers, \* the notifiers: "none", "open", "closed"
  closed     \* Close was called, or the sender could not be made

worker == <<pc, chunk, session, op>>
store == <<upload, stored, object>>
history == <<sent, failed, notified>>
life == <<notifiers, closed>>
vars == <<states, sessions, transfer, worker, store, history, life>>

NewState ==
  [init |-> "pending", eofSeen |-> FALSE, totalSize |-> FileSize,
   covered |-> {}, nextOffset |-> 0, pendingPartBuffer |-> <<>>,
   pendingSegments |-> [o \in {} |-> 0], pendingBytes |-> 0,
   uploadedParts |-> <<>>, nextPartNumber |-> 1, uploading |-> FALSE]

Init ==
  /\ states = None /\ sessions = 0
  /\ transfer = [s \in Sessions |-> None]
  /\ pc = [w \in Workers |-> "idle"]
  /\ chunk = [w \in Workers |-> None]
  /\ session = [w \in Workers |-> None]
  /\ op = [w \in Workers |-> None]
  /\ upload = [s \in Sessions |-> "none"]
  /\ stored = [s \in Sessions |-> [n \in {} |-> <<>>]]
  /\ object = [s \in Sessions |-> <<>>]
  /\ sent = [c \in Chunks |-> 0]
  /\ failed = [s \in Sessions |-> {}]
  /\ notified = [s \in Sessions |-> [n \in Notifiers |-> 0]]
  /\ notifiers = [n \in Notifiers |-> "none"]
  /\ closed = FALSE

Goto(w, l) == pc' = [pc EXCEPT ![w] = l] /\ UNCHANGED <<chunk, session, op>>

\* Send returns, with or without an error.
Return(w) ==
  /\ pc' = [pc EXCEPT ![w] = "idle"]
  /\ chunk' = [chunk EXCEPT ![w] = None]
  /\ session' = [session EXCEPT ![w] = None]
  /\ op' = [op EXCEPT ![w] = None]

Fail(s, kind) == failed' = [failed EXCEPT ![s] = @ \cup {kind}]
-----------------------------------------------------------------------------
(* The transfer state, as functions of it.                                 *)

\* Mistake: the object is completed as soon as the last chunk was seen.
ReadyOnEOF(t) == t.eofSeen

\* coveredRanges is one range.
OneRange(S) == \E a, b \in S : S = a..b

readyToComplete(t) ==
  /\ t.eofSeen /\ DOMAIN t.pendingSegments = {} /\ OneRange(t.covered)
  /\ t.totalSize > 0 => /\ 0..(t.totalSize - 1) \subseteq t.covered
                        /\ t.nextOffset >= t.totalSize

hasUploadWork(t) ==
  Len(t.pendingPartBuffer) >= PartSize \/ readyToComplete(t)

uploadedEnd(t) ==
  IF t.uploadedParts = <<>> THEN 0
  ELSE t.uploadedParts[Len(t.uploadedParts)].end

\* What acceptPacket records of every chunk, wanted or not.
Noted(t, c) ==
  [t EXCEPT !.totalSize = FileSize,
            !.eofSeen = @ \/ c.end = FileSize,
            !.covered = @ \cup c.start..(c.end - 1)]

\* A chunk acceptChunk drops: written already, or its offset is waiting.
Ignored(t, c) ==
  \/ c.end <= t.nextOffset
  \/ c.start # t.nextOffset /\ c.start \in DOMAIN t.pendingSegments

\* drainContiguousSegments: the waiting segments D, laid end to end, lead from
\* one offset to another where none waits. (Their starts and the last end are
\* the first start and their ends; each is longer than nothing, so there is
\* exactly one such D.)
Chain(segments, from, D, to) ==
  /\ {from} \cup {segments[o] : o \in D} = D \cup {to}
  /\ to \notin DOMAIN segments

Appended(t, c, D, to) ==
  [t EXCEPT !.pendingPartBuffer = @ \o Bytes(c.start, to),
            !.nextOffset = to,
            !.pendingSegments = Restrict(@, DOMAIN @ \ D),
            !.pendingBytes = @ - (to - c.end)]

Stashed(t, c) ==
  [t EXCEPT !.pendingSegments =
              [o \in DOMAIN @ \cup {c.start} |-> IF o = c.start THEN c.end ELSE @[o]],
            !.pendingBytes = @ + (c.end - c.start)]

\* reservePartUploadLocked takes n bytes off the buffer.
Reserved(t, n) ==
  [t EXCEPT !.pendingPartBuffer = SubSeq(@, n + 1, Len(@))]
PartOp(t, n) ==
  [kind |-> "part", partNumber |-> t.nextPartNumber, partStart |-> uploadedEnd(t),
   payload |-> SubSeq(t.pendingPartBuffer, 1, n)]

\* finishPartUpload without and with an error.
Uploaded(t, o) ==
  [t EXCEPT !.uploadedParts =
              Append(@, [partNumber |-> o.partNumber, start |-> o.partStart,
                         end |-> o.partStart + Len(o.payload)]),
            !.nextPartNumber = @ + 1]

\* Mistake: a part that could not be put goes behind what came after it.
RequeuedBehind(t, o) ==
  [t EXCEPT !.pendingPartBuffer = @ \o o.payload, !.uploading = FALSE]

PutBack(t, o) ==
  [t EXCEPT !.pendingPartBuffer = o.payload \o @, !.uploading = FALSE]

Set(s, t) == transfer' = [transfer EXCEPT ![s] = t]
-----------------------------------------------------------------------------
(* The notifiers.                                                          *)

AllClosed == [n \in Notifiers |-> IF notifiers[n] = "open" THEN "closed" ELSE notifiers[n]]

\* buildOSSCommitNotifiers: one after the other; after an error those that were
\* made are closed, and there is no sender.
BuildNotifier(n) ==
  /\ ~closed /\ notifiers[n] = "none"
  /\ \A k \in 1..(n - 1) : notifiers[k] = "open"
  /\ \/ notifiers' = [notifiers EXCEPT ![n] = "open"] /\ UNCHANGED closed
     \/ "build" \in Faults /\ notifiers' = AllClosed /\ closed' = TRUE
  /\ UNCHANGED <<states, sessions, transfer, worker, store, history>>
-----------------------------------------------------------------------------
(* Send.                                                                   *)

Built == ~closed /\ \A n \in Notifiers : notifiers[n] = "open"

\* A task calls Send with a valid chunk; getOrCreateTransferState finds a
\* session, or makes one and opens its upload.
Join(w, c) ==
  /\ Built /\ pc[w] = "idle" /\ sent[c] < Copies
  /\ states # None
  /\ sent' = [sent EXCEPT ![c] = @ + 1]
  /\ pc' = [pc EXCEPT ![w] = "join"]
  /\ chunk' = [chunk EXCEPT ![w] = c]
  /\ session' = [session EXCEPT ![w] = states]
  /\ UNCHANGED <<states, sessions, transfer, op, store, failed, notified, life>>

Create(w, c) ==
  /\ Built /\ pc[w] = "idle" /\ sent[c] < Copies
  /\ states = None /\ sessions < MaxSessions
  /\ sent' = [sent EXCEPT ![c] = @ + 1]
  /\ sessions' = sessions + 1
  /\ states' = sessions'
  /\ Set(sessions', NewState)
  /\ pc' = [pc EXCEPT ![w] = "new"]
  /\ chunk' = [chunk EXCEPT ![w] = c]
  /\ session' = [session EXCEPT ![w] = sessions']
  /\ UNCHANGED <<op, store, failed, notified, life>>

NewMultipartUpload(w) ==
  LET s == session[w] IN
  /\ pc[w] = "new"
  /\ \/ /\ Set(s, [transfer[s] EXCEPT !.init = "done"])
        /\ upload' = [upload EXCEPT ![s] = "open"]
        /\ Goto(w, "accept")
        /\ UNCHANGED <<states, failed>>
     \/ /\ "new" \in Faults
        /\ Set(s, [transfer[s] EXCEPT !.init = "failed"])
        /\ states' = IF states = s THEN None ELSE states
        /\ Fail(s, "new")
        /\ Return(w)
        /\ UNCHANGED upload
  /\ UNCHANGED <<sessions, stored, object, sent, notified, life>>

\* The wait for initDone.
AwaitInit(w) ==
  /\ pc[w] = "join"
  /\ \/ transfer[session[w]].init = "done" /\ Goto(w, "accept")
     \/ transfer[session[w]].init = "failed" /\ Return(w)
  /\ UNCHANGED <<states, sessions, transfer, store, history, life>>

\* Mistake: a second goroutine starts uploading beside the first.
OfferUnguarded(w, s, t) ==
  /\ Set(s, [t EXCEPT !.uploading = @ \/ hasUploadWork(t)])
  /\ \/ hasUploadWork(t) /\ Goto(w, "next")
     \/ ~hasUploadWork(t) /\ Return(w)

\* The end of acceptPacket: whoever finds work that nobody does drives it.
Offer(w, s, t) ==
  LET drives == ~t.uploading /\ hasUploadWork(t) IN
  /\ Set(s, [t EXCEPT !.uploading = @ \/ drives])
  /\ \/ drives /\ Goto(w, "next")
     \/ ~drives /\ Return(w)

AcceptPacket(w) ==
  LET s == session[w]
      c == chunk[w]
      t == Noted(transfer[s], c)
      overflow == Stashed(t, c).pendingBytes > PendingLimit
  IN
  /\ pc[w] = "accept"
  /\ \/ /\ Ignored(t, c)
        /\ Offer(w, s, t)
        /\ UNCHANGED failed
     \/ /\ ~Ignored(t, c) /\ c.start = t.nextOffset
        /\ \E D \in SUBSET DOMAIN t.pendingSegments,
              to \in {c.end} \cup Range(t.pendingSegments) :
             /\ Chain(t.pendingSegments, c.end, D, to)
             /\ Offer(w, s, Appended(t, c, D, to))
        /\ UNCHANGED failed
     \/ /\ ~Ignored(t, c) /\ c.start # t.nextOffset /\ ~overflow
        /\ Offer(w, s, Stashed(t, c))
        /\ UNCHANGED failed
     \/ /\ ~Ignored(t, c) /\ c.start # t.nextOffset /\ overflow
        /\ Set(s, Stashed(t, c))
        /\ Goto(w, "fail")
        /\ Fail(s, "limit")
  /\ UNCHANGED <<states, sessions, store, sent, notified, life>>

\* nextUploadOperation: a full part, the rest of a complete file, completion,
\* or nothing.
NextUploadOperation(w) ==
  LET s == session[w]
      t == transfer[s]
      Take(n) == /\ Set(s, Reserved(t, n))
                 /\ op' = [op EXCEPT ![w] = PartOp(t, n)]
                 /\ pc' = [pc EXCEPT ![w] = "put"]
                 /\ UNCHANGED <<chunk, session>>
      size == Len(t.pendingPartBuffer)
  IN
  /\ pc[w] = "next"
  /\ \/ size >= PartSize /\ Take(PartSize)
     \/ size < PartSize /\ size > 0 /\ readyToComplete(t) /\ Take(size)
     \/ /\ size = 0 /\ readyToComplete(t)
        /\ op' = [op EXCEPT ![w] = [kind |-> "complete",
             parts |-> [i \in DOMAIN t.uploadedParts |-> t.uploadedParts[i].partNumber]]]
        /\ pc' = [pc EXCEPT ![w] = "complete"]
        /\ UNCHANGED <<transfer, chunk, session>>
     \/ /\ size < PartSize /\ ~readyToComplete(t)
        /\ Set(s, [t EXCEPT !.uploading = FALSE])
        /\ Return(w)
  /\ UNCHANGED <<states, sessions, store, history, life>>

AfterPart(w, s) ==
  /\ Set(s, Uploaded(transfer[s], op[w]))
  /\ pc' = [pc EXCEPT ![w] = "next"]
  /\ op' = [op EXCEPT ![w] = None]
  /\ UNCHANGED <<chunk, session>>

\* PutObjectPart and finishPartUpload. An upload that was completed or aborted
\* is unknown to the store; a failing call may have had its effect.
PutObjectPart(w) ==
  LET s == session[w]
      kept == [n \in DOMAIN stored[s] \cup {op[w].partNumber} |->
                 IF n = op[w].partNumber THEN op[w].payload ELSE stored[s][n]]
  IN
  /\ pc[w] = "put"
  /\ \/ /\ upload[s] = "open"
        /\ stored' = [stored EXCEPT ![s] = kept]
        /\ AfterPart(w, s)
        /\ UNCHANGED failed
     \/ /\ \/ upload[s] = "open" /\ "put" \in Faults
              /\ \E now \in {stored[s], kept} : stored' = [stored EXCEPT ![s] = now]
           \/ upload[s] # "open" /\ UNCHANGED stored
        /\ Set(s, PutBack(transfer[s], op[w]))
        /\ Fail(s, "put")
        /\ Return(w)
  /\ UNCHANGED <<states, sessions, upload, object, sent, notified, life>>

\* Mistake: an error of the completion is not looked at.
CompletionErrorIgnored(w, s) ==
  /\ Fail(s, "complete")
  /\ pc' = [pc EXCEPT ![w] = "delete"]
  /\ op' = [op EXCEPT ![w] = None]
  /\ UNCHANGED <<chunk, session>>

CompletionFailed(w, s) == Fail(s, "complete") /\ Return(w)

\* CompleteMultipartUpload and finishCompleteUpload. A failure may be one of
\* the answer only.
CompleteMultipartUpload(w) ==
  LET s == session[w]
      pieces == [i \in DOMAIN op[w].parts |-> stored[s][op[w].parts[i]]]
      effect == /\ upload' = [upload EXCEPT ![s] = "completed"]
                /\ object' = [object EXCEPT ![s] = pieces]
  IN
  /\ pc[w] = "complete"
  /\ Set(s, [transfer[s] EXCEPT !.uploading = FALSE])
  /\ \/ /\ upload[s] = "open" /\ effect
        /\ pc' = [pc EXCEPT ![w] = "delete"]
        /\ op' = [op EXCEPT ![w] = None]
        /\ UNCHANGED <<failed, chunk, session>>
     \/ /\ \/ upload[s] = "open" /\ "completeLost" \in Faults /\ effect
           \/ upload[s] = "open" /\ "complete" \in Faults /\ UNCHANGED <<upload, object>>
           \/ upload[s] # "open" /\ UNCHANGED <<upload, object>>
        /\ CompletionFailed(w, s)
  /\ UNCHANGED <<states, sessions, stored, sent, notified, life>>

\* Mistake: whatever session the map holds is removed.
DropAny(s) == None

\* The guarded removal from the map.
Drop(s) == IF states = s THEN None ELSE states

DeleteState(w) ==
  /\ pc[w] = "delete"
  /\ states' = Drop(session[w])
  /\ pc' = [pc EXCEPT ![w] = "notify"]
  /\ op' = [op EXCEPT ![w] = [kind |-> "notify", at |-> 1]]
  /\ UNCHANGED <<sessions, transfer, chunk, session, store, history, life>>

\* notifyOSSCommitSuccess: each notifier in turn, whether or not the one before it
\* failed; the errors only decide what Send returns.
NotifyFileReady(w) ==
  LET n == op[w].at IN
  /\ pc[w] = "notify" /\ n \in Notifiers
  /\ notified' = [notified EXCEPT ![session[w]][n] = @ + 1]
  /\ op' = [op EXCEPT ![w].at = n + 1]
  /\ UNCHANGED <<states, sessions, transfer, pc, chunk, session, store, sent, failed, life>>

Notified(w) ==
  /\ pc[w] = "notify" /\ op[w].at > NumNotifiers
  /\ Return(w)
  /\ UNCHANGED <<states, sessions, transfer, store, history, life>>

\* failTransfer: out of the map, then abort.
FailTransfer(w) ==
  /\ pc[w] = "fail"
  /\ states' = Drop(session[w])
  /\ Goto(w, "abort")
  /\ UNCHANGED <<sessions, transfer, store, history, life>>

\* AbortMultipartUpload, of an upload that may be gone already.
Aborted(s) ==
  \/ /\ upload[s] = "open"
     /\ upload' = [upload EXCEPT ![s] = "aborted"]
     /\ UNCHANGED failed
  \/ /\ upload[s] # "open" \/ "abort" \in Faults
     /\ Fail(s, "abort")
     /\ UNCHANGED upload

AbortTransfer(w) ==
  /\ pc[w] = "abort"
  /\ Aborted(session[w])
  /\ Return(w)
  /\ UNCHANGED <<states, sessions, transfer, stored, object, sent, notified, life>>

\* Close, called when no Send runs and none will (RuntimeStore!OpenWhileUsed).
Close ==
  /\ Built /\ \A w \in Workers : pc[w] = "idle"
  /\ closed' = TRUE /\ notifiers' = AllClosed
  /\ states' = None
  /\ \/ states # None /\ Aborted(states)
     \/ states = None /\ UNCHANGED <<upload, failed>>
  /\ UNCHANGED <<sessions, transfer, worker, stored, object, sent, notified>>

Step(w) ==
  \/ NewMultipartUpload(w) \/ AwaitInit(w) \/ AcceptPacket(w)
  \/ NextUploadOperation(w) \/ PutObjectPart(w) \/ CompleteMultipartUpload(w)
  \/ DeleteState(w) \/ NotifyFileReady(w) \/ Notified(w) \/ FailTransfer(w)
  \/ AbortTransfer(w)

Next ==
  \/ Close \/ \E n \in Notifiers : BuildNotifier(n)
  \/ \E w \in Workers : Step(w) \/ \E c \in Chunks : Join(w, c) \/ Create(w, c)

Spec == Init /\ [][Next]_vars
-----------------------------------------------------------------------------
(* Properties.                                                             *)

TransferStates ==
  [init : {"pending", "done", "failed"}, eofSeen : BOOLEAN, totalSize : Nat,
   covered : SUBSET (0..(FileSize - 1)), nextOffset : 0..FileSize,
   pendingPartBuffer : Seq(0..(FileSize - 1)),
   pendingSegments : UNION {[D -> 1..FileSize] : D \in SUBSET (0..(FileSize - 1))},
   pendingBytes : Nat,
   uploadedParts : Seq([partNumber : Nat, start : Nat, end : Nat]),
   nextPartNumber : Nat, uploading : BOOLEAN]

TypeOK ==
  /\ states \in Sessions \cup {None} /\ sessions \in 0..MaxSessions
  /\ \A s \in Sessions :
       /\ s <= sessions => transfer[s] \in TransferStates
       /\ s > sessions => transfer[s] = None
  /\ pc \in [Workers -> {"idle", "new", "join", "accept", "next", "put", "complete",
                         "delete", "notify", "fail", "abort"}]
  /\ chunk \in [Workers -> Chunks \cup {None}]
  /\ session \in [Workers -> 1..sessions \cup {None}]
  /\ upload \in [Sessions -> {"none", "open", "completed", "aborted"}]
  /\ sent \in [Chunks -> 0..Copies]
  /\ failed \in [Sessions -> SUBSET {"new", "put", "complete", "limit", "abort"}]
  /\ notified \in [Sessions -> [Notifiers -> Nat]]
  /\ notifiers \in [Notifiers -> {"none", "open", "closed"}]
  /\ closed \in BOOLEAN

At(s, labels) == {w \in Workers : session[w] = s /\ pc[w] \in labels}
Ready(s) == s <= sessions /\ transfer[s].init = "done"

\* Whatever order the chunks came in and whatever calls failed, an object that
\* was completed consists of all bytes of the file, in order, each once.
Consecutive(q) == \A i \in 1..(Len(q) - 1) : q[i + 1] = q[i] + 1
ObjectIntact ==
  \A s \in Sessions : upload[s] = "completed" =>
    LET o == object[s]  n == Len(o) IN
    /\ n > 0 /\ \A i \in 1..n : o[i] # <<>> /\ Consecutive(o[i])
    /\ o[1][1] = 0 /\ o[n][Len(o[n])] = FileSize - 1
    /\ \A i \in 1..(n - 1) : o[i + 1][1] = o[i][Len(o[i])] + 1

\* No byte is lost or doubled on its way from the contiguous prefix to the
\* store: the uploaded parts, the part in some goroutine's hands and the
\* buffer are the file up to nextOffset, and the store has the parts. Behind a
\* gap, pendingBytes is what waits, and it passes the limit only in a transfer
\* that is being given up: no later chunk finds it. (Exact as long as chunks do
\* not overlap.)
Waiting(t) ==
  UNION {o..(t.pendingSegments[o] - 1) : o \in DOMAIN t.pendingSegments}
PendingBounded(s) ==
  /\ transfer[s].pendingBytes = Cardinality(Waiting(transfer[s]))
  /\ transfer[s].pendingBytes > PendingLimit => states # s \/ At(s, {"fail"}) # {}
PartsTile(s, parts) ==
  \A i \in DOMAIN parts :
    /\ parts[i].partNumber = i
    /\ parts[i].start = IF i = 1 THEN 0 ELSE parts[i - 1].end
    /\ i \in DOMAIN stored[s]
    /\ stored[s][i] = Bytes(parts[i].start, parts[i].end)
BytesConserved ==
  \A s \in Sessions : Ready(s) =>
    LET t == transfer[s]
        rest == Bytes(uploadedEnd(t), t.nextOffset)
    IN  /\ PendingBounded(s)
        /\ PartsTile(s, t.uploadedParts)
        /\ t.nextPartNumber = Len(t.uploadedParts) + 1
        /\ \A w \in At(s, {"put"}) : op[w].payload \o t.pendingPartBuffer = rest
        /\ At(s, {"put"}) = {} => t.pendingPartBuffer = rest

\* uploading is a lock on the upload of a transfer: set exactly while one
\* goroutine takes, puts and completes, never two (the comment on
\* driveOSSUpload's loop relies on it: part numbers and buffer order do too).
\* And a goroutine that leaves its chunk to the driver may rely on it: bytes
\* ready for upload, or a file ready for completion, that nobody drives are
\* those of a transfer in which a call of the store failed (the next chunk
\* retries).
UploadDriven ==
  \A s \in Sessions : Ready(s) =>
    /\ Cardinality(At(s, {"next", "put", "complete"})) <= 1
    /\ transfer[s].uploading <=> At(s, {"next", "put", "complete"}) # {}
    /\ hasUploadWork(transfer[s]) /\ ~transfer[s].uploading =>
         upload[s] = "completed" \/ failed[s] # {}

\* After Close the store keeps no unfinished upload of this sender, except one
\* whose abort failed; and no notifier is left open, nor when a later one could
\* not be made.
NoLeakedUpload ==
  closed =>
    /\ \A s \in Sessions : upload[s] = "open" => "abort" \in failed[s]
    /\ \A n \in Notifiers : notifiers[n] # "open"

\* A file all of whose bytes arrived in one transfer, the last chunk among
\* them, is committed once the calls in progress are over, unless a call of
\* the store failed or the limit was passed. A commit that was answered is told to
\* every notifier, once, also when another one failed or a late duplicate finds
\* the session after its completion; and nothing is told before the commit.
Covered(s) == Ready(s) /\ transfer[s].covered = 0..(FileSize - 1)
CommittedOnce ==
  \A s \in Sessions :
    /\ Covered(s) /\ At(s, {"accept", "next", "put", "complete"}) = {} /\ failed[s] = {}
         => upload[s] = "completed"
    /\ upload[s] = "completed" /\ "complete" \notin failed[s] /\ At(s, {"delete", "notify"}) = {}
         => \A n \in Notifiers : notified[s][n] = 1
    /\ \A n \in Notifiers :
         notified[s][n] <= 1 /\ (notified[s][n] = 1 => upload[s] = "completed")

=============================================================================
