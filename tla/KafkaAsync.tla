----------------------------- MODULE KafkaAsync -----------------------------
(***************************************************************************)
(* The Kafka sender (src/sender/kafka.go): Send puts a record into the     *)
(* bounded queue of a shard, a worker per shard hands it to the producer,  *)
(* a callback reports what became of it; Close drains what it can in the   *)
(* time it has. In sync mode Send waits for the producer itself.           *)
(*                                                                         *)
(* One packet stands for one call of Send, each by a goroutine of its own  *)
(* (a pool task), and for its record. The producer (franz-go) is external: *)
(* a client buffers up to MaxBuffered records, answers each by its         *)
(* callback in any order, and fails what it still has when it is closed.   *)
(* Loops of Close over the shards are one step each: the shards share      *)
(* nothing. The sender is fully built when the model begins.               *)
(*                                                                         *)
(* "Mistake:" marks a definition that is not part of the model but the one *)
(* after it with a programming error a property has to detect.             *)
(***************************************************************************)
EXTENDS Integers, Sequences, FiniteSets

CONSTANTS
  Packets,
  Concurrency,  \* producer shards, a power of two
  QueueSize,    \* async_queue_size
  MaxBuffered,  \* records a client buffers before Produce blocks
  Closers,      \* goroutines that call Close
  Modes,        \* values of send_mode
  Backpressures, \* values of async_backpressure
  Expiring,     \* whether close_flush_timeout or the context of Close may end
  None

Shards == 0..(Concurrency - 1)

ASSUME SizesAssumption ==
  /\ Concurrency \in {1, 2, 4} /\ QueueSize \in Nat \ {0} /\ MaxBuffered \in Nat \ {0}
ASSUME OptionsAssumption ==
  /\ Modes \subseteq {"sync", "async"} /\ Backpressures \subseteq {"block", "error"}
  /\ Expiring \in BOOLEAN
  /\ None \notin Packets \cup {"ok", "closed", "full", "cancelled", "failed"}

VARIABLES
  mode, backpressure,  \* sendMode, asyncBackpressure
  ctxDone,      \* the context of the Send calls was cancelled
  send,         \* where each Send is
  result,       \* what it returned
  shard, nextIdx,
  queue,        \* queues
  worker,       \* where each asyncWorker is
  hold,         \* the record it is producing
  client,       \* clients: open or nil
  buffered,     \* records in the producer
  inflight,     \* the WaitGroup of callbacks
  closed, closeCh, once,
  closer,       \* where each Close is
  expired,      \* its waitCtx has ended
  dropped, sendErrors, sendSuccess,
  early,        \* history: records queued before closeCh was closed
  reported,     \* history: records whose callback was called
  cut           \* history: records the closing of the client failed

config == <<mode, backpressure>>
sending == <<send, result, shard, nextIdx>>
queueing == <<queue, worker, hold>>
producer == <<client, buffered, inflight>>
closing == <<closed, closeCh, once, closer, expired>>
counters == <<dropped, sendErrors, sendSuccess>>
history == <<early, reported, cut>>
vars == <<config, ctxDone, sending, queueing, producer, closing, counters, history>>

Init ==
  /\ mode \in Modes /\ backpressure \in Backpressures /\ ctxDone = FALSE
  /\ send = [p \in Packets |-> "new"] /\ result = [p \in Packets |-> None]
  /\ shard = [p \in Packets |-> 0] /\ nextIdx = 0
  /\ queue = [i \in Shards |-> <<>>]
  /\ worker = [i \in Shards |-> "loop"] /\ hold = [i \in Shards |-> None]
  /\ client = [i \in Shards |-> "open"] /\ buffered = [i \in Shards |-> {}]
  /\ inflight = 0
  /\ closed = FALSE /\ closeCh = FALSE /\ once = "free"
  /\ closer = [c \in Closers |-> "idle"] /\ expired = [c \in Closers |-> FALSE]
  /\ dropped = 0 /\ sendErrors = 0 /\ sendSuccess = 0
  /\ early = {} /\ reported = {} /\ cut = {}
-----------------------------------------------------------------------------
(* Send.                                                                   *)

\* The number nextShardIndex leaves in the counter, and the shard it picks.
Turn == IF Concurrency = 1 THEN nextIdx ELSE (nextIdx + 1) % Concurrency

Return(p, r) ==
  /\ send' = [send EXCEPT ![p] = "returned"]
  /\ result' = [result EXCEPT ![p] = r]

SendBegin(p) ==
  /\ send[p] = "new"
  /\ \/ closed /\ Return(p, "closed") /\ UNCHANGED <<shard, nextIdx>>
     \/ /\ ~closed
        /\ nextIdx' = Turn
        /\ shard' = [shard EXCEPT ![p] = Turn]
        /\ send' = [send EXCEPT ![p] = IF mode = "async" THEN "enqueue" ELSE "produce"]
        /\ UNCHANGED result
  /\ UNCHANGED <<config, ctxDone, queueing, producer, closing, counters, history>>

\* The select of enqueueAsync: any branch that is ready.
Enqueue(p) ==
  LET i == shard[p] IN
  /\ send[p] = "enqueue" /\ Len(queue[i]) < QueueSize
  /\ queue' = [queue EXCEPT ![i] = Append(@, p)]
  /\ early' = IF closeCh THEN early ELSE early \cup {p}
  /\ Return(p, "ok")
  /\ UNCHANGED <<config, ctxDone, shard, nextIdx, worker, hold, producer, closing, counters,
                 reported, cut>>

\* Mistake: a full queue is waited for without looking at closeCh.
QueueClosedUnseen(p) == closeCh /\ Len(queue[shard[p]]) < QueueSize

QueueClosed(p) == closeCh

EnqueueClosed(p) ==
  /\ send[p] = "enqueue" /\ QueueClosed(p)
  /\ Return(p, "closed")
  /\ UNCHANGED <<config, ctxDone, shard, nextIdx, queueing, producer, closing, counters, history>>

\* Its default branch ("error") and its ctx.Done branch ("block").
EnqueueDropped(p) ==
  /\ send[p] = "enqueue"
  /\ \/ /\ backpressure = "error" /\ ~closeCh /\ Len(queue[shard[p]]) = QueueSize
        /\ Return(p, "full")
     \/ backpressure = "block" /\ ctxDone /\ Return(p, "cancelled")
  /\ dropped' = dropped + 1
  /\ UNCHANGED <<config, ctxDone, shard, nextIdx, queueing, producer, closing, sendErrors,
                 sendSuccess, history>>

\* sync mode: ProduceSync, which a closed client fails.
ProduceSync(p) ==
  /\ send[p] = "produce"
  /\ \/ client[shard[p]] = "open" /\ Return(p, "ok")
     \/ Return(p, "failed")
  /\ UNCHANGED <<config, ctxDone, shard, nextIdx, queueing, producer, closing, counters, history>>

SendStep(p) == Enqueue(p) \/ EnqueueClosed(p) \/ EnqueueDropped(p) \/ ProduceSync(p)

\* The context of the task is cancelled at shutdown.
CancelContext ==
  /\ ~ctxDone
  /\ ctxDone' = TRUE
  /\ UNCHANGED <<config, sending, queueing, producer, closing, counters, history>>
-----------------------------------------------------------------------------
(* asyncWorker and the callbacks.                                          *)

\* A record is taken and inflight.Add(1) called for it.
WorkerTake(i) ==
  /\ mode = "async" /\ worker[i] \in {"loop", "draining"} /\ hold[i] = None
  /\ queue[i] # <<>>
  /\ hold' = [hold EXCEPT ![i] = Head(queue[i])]
  /\ queue' = [queue EXCEPT ![i] = Tail(@)]
  /\ inflight' = inflight + 1
  /\ UNCHANGED <<config, ctxDone, sending, worker, client, buffered, closing, counters,
                 history>>

\* The callback of a record: err or nil.
Reported(p, err) ==
  /\ inflight' = inflight - 1
  /\ reported' = reported \cup {p}
  /\ sendErrors' = IF err THEN sendErrors + 1 ELSE sendErrors
  /\ sendSuccess' = IF err THEN sendSuccess ELSE sendSuccess + 1
  /\ UNCHANGED <<dropped, early>>

\* produceAsync: a client that is closed calls back at once.
ProduceAsync(i) ==
  /\ hold[i] # None
  /\ hold' = [hold EXCEPT ![i] = None]
  /\ \/ /\ client[i] = "open" /\ Cardinality(buffered[i]) < MaxBuffered
        /\ buffered' = [buffered EXCEPT ![i] = @ \cup {hold[i]}]
        /\ UNCHANGED <<inflight, counters, history>>
     \/ /\ client[i] = "nil"
        /\ Reported(hold[i], TRUE) /\ cut' = cut \cup {hold[i]}
        /\ UNCHANGED buffered
  /\ UNCHANGED <<config, ctxDone, sending, queue, worker, client, closing>>

WorkerClosing(i) ==
  /\ mode = "async" /\ worker[i] = "loop" /\ hold[i] = None /\ closeCh
  /\ worker' = [worker EXCEPT ![i] = "draining"]
  /\ UNCHANGED <<config, ctxDone, sending, queue, hold, producer, closing, counters, history>>

\* Mistake: a worker leaves without draining its queue.
LeavesQueue(i) == TRUE

Drained(i) == queue[i] = <<>>

WorkerGone(i) ==
  /\ worker[i] = "draining" /\ hold[i] = None /\ Drained(i)
  /\ worker' = [worker EXCEPT ![i] = "gone"]
  /\ UNCHANGED <<config, ctxDone, sending, queue, hold, producer, closing, counters, history>>

WorkerStep(i) == WorkerTake(i) \/ ProduceAsync(i) \/ WorkerClosing(i) \/ WorkerGone(i)

\* The producer answers: the broker has the record, or it gave up, or it was
\* closed.
Callback(i, p) ==
  /\ p \in buffered[i]
  /\ buffered' = [buffered EXCEPT ![i] = @ \ {p}]
  /\ \/ client[i] = "open" /\ \E err \in BOOLEAN : Reported(p, err) /\ UNCHANGED cut
     \/ client[i] = "nil" /\ Reported(p, TRUE) /\ cut' = cut \cup {p}
  /\ UNCHANGED <<config, ctxDone, sending, queueing, client, closing>>
-----------------------------------------------------------------------------
(* Close.                                                                  *)

Goes(c, to) == closer' = [closer EXCEPT ![c] = to]

\* closeOnce, up to closed; a second caller waits for the first.
CloseBegin(c) ==
  /\ closer[c] = "idle"
  /\ \/ mode = "sync" /\ closed' = TRUE /\ Goes(c, "clients") /\ UNCHANGED once
     \/ /\ mode = "async" /\ once = "free"
        /\ once' = "running" /\ closed' = TRUE /\ Goes(c, "closeCh")
     \/ mode = "async" /\ once = "done" /\ Goes(c, "workers") /\ UNCHANGED <<closed, once>>
  /\ UNCHANGED <<config, ctxDone, sending, queueing, producer, closeCh, expired, counters,
                 history>>

CloseChannel(c) ==
  /\ closer[c] = "closeCh"
  /\ closeCh' = TRUE /\ once' = "done" /\ Goes(c, "workers")
  /\ UNCHANGED <<config, ctxDone, sending, queueing, producer, closed, expired, counters,
                 history>>

\* Mistake: the callbacks are waited for, the workers are not.
WorkersForgotten == TRUE

WorkersDone == \A i \in Shards : worker[i] = "gone"

\* Each wait ends when it is over or the waitCtx has ended.
WaitWorkers(c) ==
  /\ closer[c] = "workers" /\ (WorkersDone \/ expired[c])
  /\ Goes(c, "flush")
  /\ UNCHANGED <<config, ctxDone, sending, queueing, producer, closed, closeCh, once, expired,
                 counters, history>>

Flush(c) ==
  /\ closer[c] = "flush"
  /\ \A i \in Shards : client[i] = "nil" \/ buffered[i] = {} \/ expired[c]
  /\ Goes(c, "callbacks")
  /\ UNCHANGED <<config, ctxDone, sending, queueing, producer, closed, closeCh, once, expired,
                 counters, history>>

\* waitGroupDone(&s.inflight). The WaitGroup is its counter: that Go panics if one is
\* used again before a Wait has returned is left out.
WaitCallbacks(c) ==
  /\ closer[c] = "callbacks" /\ (inflight = 0 \/ expired[c])
  /\ Goes(c, "clients")
  /\ UNCHANGED <<config, ctxDone, sending, queueing, producer, closed, closeCh, once, expired,
                 counters, history>>

CloseClients(c) ==
  /\ closer[c] = "clients"
  /\ client' = [i \in Shards |-> "nil"]
  /\ Goes(c, "returned")
  /\ UNCHANGED <<config, ctxDone, sending, queueing, buffered, inflight, closed, closeCh, once,
                 expired, counters, history>>

Expire(c) ==
  /\ Expiring /\ closer[c] \in {"workers", "flush", "callbacks"} /\ ~expired[c]
  /\ expired' = [expired EXCEPT ![c] = TRUE]
  /\ UNCHANGED <<config, ctxDone, sending, queueing, producer, closed, closeCh, once, closer,
                 counters, history>>

CloseStep(c) ==
  CloseChannel(c) \/ WaitWorkers(c) \/ Flush(c) \/ WaitCallbacks(c) \/ CloseClients(c)

Next ==
  \/ CancelContext
  \/ \E p \in Packets : SendBegin(p) \/ SendStep(p)
  \/ \E i \in Shards : WorkerStep(i) \/ \E p \in Packets : Callback(i, p)
  \/ \E c \in Closers : CloseBegin(c) \/ CloseStep(c) \/ Expire(c)

Spec == Init /\ [][Next]_vars

\* Goroutines go on and the producer answers every record (request and retry
\* timeouts bound it). Each of these steps brings a Send, a record or a Close
\* nearer to its end, so it is enough that they do not all stop. That a wait of
\* Close expires is not assumed.
Fairness == WF_vars(\/ \E p \in Packets : SendStep(p)
                    \/ \E i \in Shards : WorkerStep(i) \/ \E p \in Packets : Callback(i, p)
                    \/ \E c \in Closers : CloseStep(c))

-----------------------------------------------------------------------------
(* Properties.                                                             *)

Queued(i) == {queue[i][k] : k \in DOMAIN queue[i]}
Held(i) == {hold[i]} \ {None}
Inside(i) == Queued(i) \cup Held(i) \cup buffered[i]
Returned(rs) == {p \in Packets : result[p] \in rs}

\* Every packet Send accepted is in one place of one shard or was reported by
\* its callback, the WaitGroup counts the open callbacks, and the counters that
\* documentation calls the record of what async mode lost are exact. The one
\* way to lose a packet silently is a Send that runs into Close: it chose the
\* queue although closeCh was closed and its worker is gone.
Accounted ==
  mode = "async" =>
    /\ Returned({"ok"}) = reported \cup UNION {Inside(i) : i \in Shards}
    /\ \A i \in Shards :
         /\ Inside(i) \cap reported = {}
         /\ Cardinality(Inside(i)) =
              Len(queue[i]) + Cardinality(Held(i)) + Cardinality(buffered[i])
         /\ worker[i] = "gone" => Queued(i) \cap early = {}
    /\ inflight = Cardinality(UNION {Held(i) \cup buffered[i] : i \in Shards})
    /\ sendSuccess + sendErrors = Cardinality(reported)
    /\ dropped = Cardinality(Returned({"full", "cancelled"}))

\* A Close whose time did not run out leaves no packet behind that was accepted
\* before: each was reported. And as long as no Close ran out of time, none of
\* them failed because the client was closed under it.
CloseDelivers ==
  mode = "async" =>
    /\ \A c \in Closers :
         closer[c] = "returned" /\ ~expired[c] => early \subseteq reported
    /\ (\A c \in Closers : ~expired[c]) => cut \cap early = {}

\* Every Send and every Close that was begun has returned, and every packet that
\* was accepted before Close is reported.
Settled ==
  /\ \A p \in Packets : send[p] \in {"new", "returned"}
  /\ \A c \in Closers : closer[c] \in {"idle", "returned"}
  /\ early \subseteq reported

\* A packet is released when it is done with (packet.go:96, 103-104), and the
\* task releases it as soon as Send has returned (task.go:226-231): no record
\* that is yet to be sent refers to the payload of a packet that is released.
PayloadKept ==
  \A i \in Shards, p \in Packets : send[p] = "returned" => p \notin Inside(i)

=============================================================================
