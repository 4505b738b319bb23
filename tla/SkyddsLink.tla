----------------------------- MODULE SkyddsLink -----------------------------
(***************************************************************************)
(* A topic of SkyDDS from end to end: the sender that gathers payloads     *)
(* into batches (src/sender/skydds.go), the bridge to the DDS library      *)
(* (src/skydds) and the receiver that drains it (src/receiver/skydds.go).  *)
(*                                                                         *)
(* One message stands for one call of Send, each by a goroutine of its     *)
(* own. The sender's mutex is not held while a batch is written: whoever   *)
(* drained the batch (a Send, a flush timer, Close) holds it meanwhile.    *)
(* The writer has a mutex of its own, so a write is one step; a batch is   *)
(* written message by message and may fail after any of them. DDS itself   *)
(* is external: it keeps what was written, in order, until it is taken.    *)
(*                                                                         *)
(* "Mistake:" marks a definition that is not part of the model but the one *)
(* after it with a programming error a property has to detect.             *)
(***************************************************************************)
EXTENDS Integers, Sequences, FiniteSets, Functions

CONSTANTS
  Messages,
  Size,       \* the length of each payload
  Models,     \* values of message_model
  BatchNum, BatchSize,
  Timers,     \* timer objects, a bound on those that exist at a time
  SoftLimit,  \* skydds_queue_soft_limit
  DrainItems, DrainBytes,  \* drain_max_items, drain_buffer_bytes
  MaxFaults,  \* bound on the writes DDS refuses
  Closer,     \* the goroutine that calls Close
  None

VARIABLES
  model,
  send, result,         \* where each Send is, and what it returned
  batch, batchBytes, closed, flushTimer,
  timer,                \* each timer and its callback
  hold,                 \* the payloads each Send, timer or Close is to write
  closing,              \* where Close is
  writer,               \* the native writer: open or nil
  topic,                \* samples in DDS
  queue, pumpError,     \* the native reader's queue and what its pump reports
  reader,               \* the native reader: open or nil
  loop, drained,        \* where Start is, and the payloads it is to emit
  faults,
  lost,                 \* history: messages of a failed write a caller was told of
  wrote, got, dropped   \* history: times each was written, emitted, not kept

sending == <<send, result>>
batching == <<batch, batchBytes, closed, flushTimer, timer>>
native == <<queue, pumpError, reader>>
receiving == <<loop, drained>>
vars == <<model, sending, batching, hold, closing, writer, topic, native, receiving,
          faults, lost, wrote, got, dropped>>

Zero == [m \in Messages |-> 0]

Init ==
  /\ model \in Models
  /\ send = [m \in Messages |-> "new"] /\ result = [m \in Messages |-> None]
  /\ batch = <<>> /\ batchBytes = 0 /\ closed = FALSE /\ flushTimer = None
  /\ timer = [t \in Timers |-> "idle"]
  /\ hold = [h \in Messages \cup Timers \cup {Closer} |-> <<>>]
  /\ closing = "idle" /\ writer = "open" /\ topic = <<>>
  /\ queue = <<>> /\ pumpError = FALSE /\ reader = "open"
  /\ loop = "new" /\ drained = <<>>
  /\ faults = 0 /\ lost = {} /\ wrote = Zero /\ got = Zero /\ dropped = Zero

Times(m, s) == Cardinality({k \in DOMAIN s : s[k] = m})

Bytes(s) ==
  LET upTo[k \in 0..Len(s)] == IF k = 0 THEN 0 ELSE upTo[k - 1] + Size[s[k]]
  IN  upTo[Len(s)]
-----------------------------------------------------------------------------
(* The writer.                                                             *)

Written(s) ==
  /\ topic' = topic \o s
  /\ wrote' = [m \in Messages |-> wrote[m] + Times(m, s)]

WriteSucceeds(s) == writer = "open" /\ Written(s) /\ UNCHANGED faults

\* DDS refuses one of the messages, its queue is full, or the writer is nil.
WriteFails(s) ==
  \/ /\ writer = "open" /\ faults < MaxFaults
     /\ faults' = faults + 1
     /\ \E k \in 0..(Len(s) - 1) : Written(SubSeq(s, 1, k))
  \/ writer = "nil" /\ UNCHANGED <<topic, wrote, faults>>
-----------------------------------------------------------------------------
(* The batch; every step that uses it is a section under the mutex.        *)

\* Stop on the timer in flushTimer; one that has fired is not stopped.
Stopped(timers) ==
  [t \in Timers |-> IF t = flushTimer /\ timers[t] = "armed" THEN "idle" ELSE timers[t]]

stopFlushTimer(timers) == timer' = Stopped(timers) /\ flushTimer' = None

\* The new timer is one that is not in use; there is none only at the bound Timers.
startFlushTimer(timers) ==
  LET stopped == Stopped(timers)
      spare == {t \in Timers : stopped[t] = "idle" /\ t # flushTimer}
      fresh == CHOOSE t \in spare : TRUE
  IN  spare # {} /\ timer' = [stopped EXCEPT ![fresh] = "armed"] /\ flushTimer' = fresh

drainBatch(h) ==
  /\ hold' = [hold EXCEPT ![h] = batch]
  /\ batch' = <<>> /\ batchBytes' = 0

\* Mistake: what was sent meanwhile is overwritten.
RestoresHeld(s) == s

RestoresBefore(s) == s \o batch

restoreBatch(t) ==
  /\ batch' = RestoresBefore(hold[t])
  /\ batchBytes' = Bytes(batch')
  /\ LET others == [timer EXCEPT ![t] = "idle"]
     IN  \/ batch' # <<>> /\ startFlushTimer(others)
         \/ batch' = <<>> /\ timer' = others /\ UNCHANGED flushTimer
-----------------------------------------------------------------------------
(* Send.                                                                   *)

Return(m, r) ==
  /\ send' = [send EXCEPT ![m] = "returned"]
  /\ result' = [result EXCEPT ![m] = r]

\* Under the mutex: the message is refused, written on its own because it is
\* too large for a batch, or gathered; a full batch is taken to be written.
sendBatch(m) ==
  \/ closed /\ Return(m, "error") /\ UNCHANGED <<batching, hold>>
  \/ /\ ~closed /\ Size[m] > BatchSize /\ batch = <<>>
     /\ hold' = [hold EXCEPT ![m] = <<m>>]
     /\ send' = [send EXCEPT ![m] = "flush"]
     /\ UNCHANGED <<result, batching>>
  \/ /\ ~closed /\ ~(Size[m] > BatchSize /\ batch = <<>>)
     /\ LET more == Append(batch, m)
            bytes == batchBytes + Size[m]
            full == Len(more) >= BatchNum \/ bytes >= BatchSize
        IN  \/ /\ full
               /\ hold' = [hold EXCEPT ![m] = more]
               /\ batch' = <<>> /\ batchBytes' = 0
               /\ stopFlushTimer(timer)
               /\ send' = [send EXCEPT ![m] = "flush"] /\ UNCHANGED result
            \/ /\ ~full
               /\ batch' = more /\ batchBytes' = bytes
               /\ \/ batch = <<>> /\ startFlushTimer(timer)
                  \/ batch # <<>> /\ UNCHANGED <<timer, flushTimer>>
               /\ Return(m, "ok") /\ UNCHANGED hold
     /\ UNCHANGED closed

SendBegin(m) ==
  /\ send[m] = "new"
  /\ \/ model = "batch_octet" /\ sendBatch(m)
     \/ /\ model = "octet"
        /\ hold' = [hold EXCEPT ![m] = IF Size[m] = 0 THEN <<>> ELSE <<m>>]
        /\ send' = [send EXCEPT ![m] = "flush"]
        /\ UNCHANGED <<result, batching>>
  /\ UNCHANGED <<model, closing, writer, topic, native, receiving, faults, lost, wrote,
                 got, dropped>>

\* Write or WriteBatch by a Send. A batch that fails is given up: the error is
\* this caller's, whoever sent the messages.
SendFlush(m) ==
  /\ send[m] = "flush"
  /\ \/ /\ hold[m] = <<>> \/ WriteSucceeds(hold[m])
        /\ hold[m] = <<>> => UNCHANGED <<topic, wrote, faults>>
        /\ Return(m, "ok") /\ UNCHANGED lost
     \/ /\ hold[m] # <<>> /\ WriteFails(hold[m])
        /\ Return(m, "error") /\ lost' = lost \cup Range(hold[m])
  /\ hold' = [hold EXCEPT ![m] = <<>>]
  /\ UNCHANGED <<model, batching, closing, writer, native, receiving, got, dropped>>
-----------------------------------------------------------------------------
(* flushByTimer.                                                           *)

TimerFires(t) ==
  /\ timer[t] = "armed"
  /\ timer' = [timer EXCEPT ![t] = "fired"]
  /\ UNCHANGED <<model, sending, batch, batchBytes, closed, flushTimer, hold, closing, writer,
                 topic, native, receiving, faults, lost, wrote, got, dropped>>

TimerTakes(t) ==
  /\ timer[t] = "fired"
  /\ \/ /\ closed
        /\ timer' = [timer EXCEPT ![t] = "idle"]
        /\ UNCHANGED <<batch, batchBytes, flushTimer, hold>>
     \/ /\ ~closed
        /\ drainBatch(t) /\ flushTimer' = None
        /\ timer' = [timer EXCEPT ![t] = IF batch = <<>> THEN "idle" ELSE "flush"]
  /\ UNCHANGED <<model, sending, closed, closing, writer, topic, native, receiving, faults,
                 lost, wrote, got, dropped>>

TimerFlushes(t) ==
  /\ timer[t] = "flush"
  /\ \/ /\ WriteSucceeds(hold[t])
        /\ timer' = [timer EXCEPT ![t] = "idle"]
        /\ hold' = [hold EXCEPT ![t] = <<>>]
     \/ /\ WriteFails(hold[t])
        /\ timer' = [timer EXCEPT ![t] = "failed"]
        /\ UNCHANGED hold
  /\ UNCHANGED <<model, sending, batch, batchBytes, closed, flushTimer, closing, writer,
                 native, receiving, lost, got, dropped>>

TimerRestores(t) ==
  /\ timer[t] = "failed"
  /\ restoreBatch(t)
  /\ hold' = [hold EXCEPT ![t] = <<>>]
  /\ UNCHANGED <<model, sending, closed, closing, writer, topic, native, receiving, faults,
                 lost, wrote, got, dropped>>

TimerStep(t) == TimerFires(t) \/ TimerTakes(t) \/ TimerFlushes(t) \/ TimerRestores(t)
-----------------------------------------------------------------------------
(* Close.                                                                  *)

CloseBegin ==
  /\ closing = "idle"
  /\ closed' = TRUE
  /\ drainBatch(Closer)
  /\ stopFlushTimer(timer)
  /\ closing' = IF batch = <<>> THEN "writer" ELSE "flush"
  /\ UNCHANGED <<model, sending, writer, topic, native, receiving, faults, lost, wrote, got,
                 dropped>>

\* After an error the writer is not closed.
CloseFlush ==
  /\ closing = "flush"
  /\ \/ WriteSucceeds(hold[Closer]) /\ closing' = "writer" /\ UNCHANGED lost
     \/ /\ WriteFails(hold[Closer])
        /\ closing' = "failed" /\ lost' = lost \cup Range(hold[Closer])
  /\ hold' = [hold EXCEPT ![Closer] = <<>>]
  /\ UNCHANGED <<model, sending, batching, writer, native, receiving, got, dropped>>

CloseWriter ==
  /\ closing = "writer"
  /\ writer' = "nil" /\ closing' = "returned"
  /\ UNCHANGED <<model, sending, batching, hold, topic, native, receiving, faults, lost, wrote,
                 got, dropped>>
-----------------------------------------------------------------------------
(* The native reader and the receiver.                                     *)

\* reader_pump: a full queue loses the sample and is reported by Wait.
Pump ==
  /\ reader = "open" /\ topic # <<>>
  /\ topic' = Tail(topic)
  /\ \/ /\ Len(queue) < SoftLimit
        /\ queue' = Append(queue, Head(topic)) /\ UNCHANGED <<pumpError, dropped>>
     \/ /\ Len(queue) >= SoftLimit
        /\ pumpError' = TRUE /\ dropped' = [dropped EXCEPT ![Head(topic)] = @ + 1]
        /\ UNCHANGED queue
  /\ UNCHANGED <<model, sending, batching, hold, closing, writer, reader, receiving, faults,
                 lost, wrote, got>>

Goes(to) == loop' = to /\ UNCHANGED drained

\* Start, and the select at the head of its loop; the context may have ended.
Begin ==
  /\ loop \in {"new", "check"}
  /\ Goes("wait") \/ Goes("ended")
  /\ UNCHANGED <<model, sending, batching, hold, closing, writer, topic, native, faults, lost,
                 wrote, got, dropped>>

Overflowed == queue = <<>> /\ pumpError

\* Wait: woken by a message, timed out, or an error, which ends the receiver.
Wait ==
  /\ loop = "wait"
  /\ \/ reader = "nil" /\ Goes("ended") /\ UNCHANGED pumpError
     \/ reader = "open" /\ Overflowed /\ pumpError' = FALSE /\ Goes("ended")
     \/ /\ reader = "open" /\ ~Overflowed
        /\ Goes(IF queue = <<>> THEN "check" ELSE "drain") /\ UNCHANGED pumpError
  /\ UNCHANGED <<model, sending, batching, hold, closing, writer, topic, queue, reader, faults,
                 lost, wrote, got, dropped>>

\* The messages of the queue that fit into the buffer, at most DrainItems.
Fit == CHOOSE n \in 0..Len(queue) :
         /\ n <= DrainItems /\ Bytes(SubSeq(queue, 1, n)) <= DrainBytes
         /\ n = Len(queue) \/ n = DrainItems \/ Bytes(SubSeq(queue, 1, n + 1)) > DrainBytes

Drain ==
  /\ loop = "drain"
  /\ \/ /\ reader = "nil" \/ (queue # <<>> /\ Fit = 0)
        /\ Goes("ended") /\ UNCHANGED queue
     \/ reader = "open" /\ queue = <<>> /\ Goes("check") /\ UNCHANGED queue
     \/ /\ reader = "open" /\ queue # <<>> /\ Fit > 0
        /\ drained' = SubSeq(queue, 1, Fit)
        /\ queue' = SubSeq(queue, Fit + 1, Len(queue))
        /\ loop' = "emit"
  /\ UNCHANGED <<model, sending, batching, hold, closing, writer, topic, pumpError, reader,
                 faults, lost, wrote, got, dropped>>

\* One payload becomes one packet; an empty one is skipped.
Emit ==
  /\ loop = "emit"
  /\ drained' = Tail(drained)
  /\ LET m == Head(drained)
     IN  \/ Size[m] > 0 /\ got' = [got EXCEPT ![m] = @ + 1] /\ UNCHANGED dropped
         \/ Size[m] = 0 /\ dropped' = [dropped EXCEPT ![m] = @ + 1] /\ UNCHANGED got
  /\ loop' = IF Len(drained) = 1 THEN "drain" ELSE "emit"
  /\ UNCHANGED <<model, sending, batching, hold, closing, writer, topic, native, faults,
                 lost, wrote>>

ReceiverStep == Wait \/ Drain \/ Emit \/ (loop = "check" /\ Begin)

\* reader.Close frees what is queued.
Stop ==
  /\ reader = "open"
  /\ reader' = "nil" /\ queue' = <<>>
  /\ dropped' = [m \in Messages |-> dropped[m] + Times(m, queue)]
  /\ UNCHANGED <<model, sending, batching, hold, closing, writer, topic, pumpError, receiving,
                 faults, lost, wrote, got>>
-----------------------------------------------------------------------------
CloseStep == CloseFlush \/ CloseWriter

Next ==
  \/ \E m \in Messages : SendBegin(m) \/ SendFlush(m)
  \/ \E t \in Timers : TimerStep(t)
  \/ CloseBegin \/ CloseStep
  \/ Pump \/ Begin \/ ReceiverStep
  \/ Stop

Spec == Init /\ [][Next]_vars

\* Time passes and goroutines go on; the pump is a thread of its own. Sends, timers,
\* Close and the pump have a bounded number of steps to take, so it is enough that
\* they do not all stop; the receiver's loop may turn for ever. Nothing is assumed
\* of the callers of Send, Close, Start and Stop.
Fairness ==
  /\ WF_vars((\E m \in Messages : SendFlush(m)) \/ (\E t \in Timers : TimerStep(t))
               \/ CloseStep \/ Pump)
  /\ WF_vars(ReceiverStep)
-----------------------------------------------------------------------------
(* Properties.                                                             *)

Holders(m) == {h \in DOMAIN hold : m \in Range(hold[h])}
Accepted(m) == result[m] = "ok" /\ (model = "octet" => Size[m] > 0)
Unwritten == {m \in Messages : Accepted(m) /\ wrote[m] = 0 /\ m \notin lost}
Underway == {m \in Messages : wrote[m] > got[m] + dropped[m]}

\* A batch of an open sender always has a timer that will flush it, also when
\* the timer that fired was stopped too late, when its successor was forgotten,
\* or when it restored the batch (skydds.go:102-104, 156-158).
TimerArmed ==
  ~closed /\ batch # <<>> =>
    flushTimer # None /\ timer[flushTimer] \in {"armed", "fired"}

\* Whoever drains, writes, fails and restores in whatever order: a message is in
\* the batch or with one holder, once; one that Send accepted is there, was
\* written, or is in a batch whose failure a caller was told of; it is written
\* again only after a write failed midway; batchBytes measures the batch; a
\* closed sender has a batch only when a timer's write failed and was restored
\* into it (docs/skydds.md:119-121). And what was written is in DDS, in the
\* native queue, with the receiver, emitted, or counted as dropped.
LinkAccounted ==
  /\ TimerArmed
  /\ batchBytes = Bytes(batch)
  /\ closed /\ batch # <<>> => faults > 0 \/ writer = "nil"
  /\ \A m \in Messages :
       /\ Times(m, batch) + Cardinality(Holders(m)) <= 1
       /\ \A h \in Holders(m) : Times(m, hold[h]) = 1
       /\ Accepted(m) =>
            m \in Range(batch) \/ Holders(m) # {} \/ wrote[m] > 0 \/ m \in lost
       /\ wrote[m] <= 1 + faults
       /\ wrote[m] = got[m] + dropped[m] + Times(m, topic \o queue \o drained)

\* Every message that was accepted is written or given up with an error that a
\* caller sees, as long as the sender is not closed; and what is written comes to
\* be emitted, unless the receiver is stopped or ended by an overflow.
Settled ==
  /\ Unwritten = {} \/ closed
  /\ Underway = {} \/ loop \in {"new", "ended"} \/ reader = "nil"

=============================================================================
