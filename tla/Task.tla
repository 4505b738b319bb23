-------------------------------- MODULE Task --------------------------------
(***************************************************************************)
(* One forwarding task (src/task/task.go): the admission gate in front of  *)
(* Handle, the three execution models behind it (fastpath, pool, channel), *)
(* the release of every packet, and the graceful stop.                     *)
(*                                                                         *)
(* Receiver goroutines (Callers) call Handle; each packet then walks       *)
(* through its own little program, recorded in stage[p]:                   *)
(*                                                                         *)
(*   "new"       not handed to the task yet                                *)
(*   "offered"   Handle entered, accepting not read yet                    *)
(*   "admitted"  inflight incremented, snapshot of pool/ch taken           *)
(*   "queued"    in the bounded channel                                    *)
(*   "running"   runPacket entered, pipelines not run yet                  *)
(*   "sending"   pipelines done, todo[p] = senders still to be called      *)
(*   "freed"     processAndSend returned, pkt.Release() called             *)
(*   "counted"   inflightCount decremented, inflight.Done() still to come  *)
(*   "dropping"  an error branch of Handle was taken                       *)
(*   "dropDone"  ... its inflight.Done() called                            *)
(*   "dropCount" ... its inflightCount.Add(-1) called                      *)
(*   "done"      nothing left to do for this packet                        *)
(*                                                                         *)
(* The two exits call the same three functions in opposite orders          *)
(* (runPacket: Release, count, Done; drop: Done, count, Release), and the  *)
(* stop waits for Done only: the orders are kept apart here.               *)
(*                                                                         *)
(* Every critical section of stateMu is one action.                        *)
(*                                                                         *)
(* A definition whose comment starts with "Mistake:" is not part of the    *)
(* model: it is the definition after it with a plausible programming error *)
(* that one of the properties has to detect.                               *)
(***************************************************************************)
EXTENDS Integers, Sequences, FiniteSets

CONSTANTS
  Packets,                  \* the packets receivers hand to this task
  Callers,                  \* the goroutines that call Handle
  Senders,                  \* t.Senders
  ConfiguredModels,         \* values of execution_model found in task configs
  PoolSize,                 \* configured pool size; <= 0 means "use the default"
  ChannelQueueSize,         \* configured queue size; <= 0 means "use the default"
  DefaultPoolSize,          \* defaultPoolSize
  DefaultChannelQueueSize,  \* defaultChannelQueueSize
  None                      \* "no packet" / "no caller"

ASSUME PacketsAssumption == IsFiniteSet(Packets) /\ None \notin Packets
ASSUME CallersAssumption == None \notin Callers
ASSUME SizesAssumption ==
  /\ PoolSize \in Int /\ ChannelQueueSize \in Int
  /\ DefaultPoolSize \in Nat \ {0} /\ DefaultChannelQueueSize \in Nat \ {0}

VARIABLES
  model,          \* t.ExecutionModel
  accepting,      \* t.accepting
  inflight,       \* the sync.WaitGroup counter t.inflight
  inflightCount,  \* t.inflightCount, the mirror used by the statistics
  pool,           \* "nil", "attached" (t.pool), "taken" (by the stop), "released"
  ch,             \* "nil", "open", "closed" (t.ch still set), "gone" (t.ch = nil)
  queue,          \* the content of the channel
  worker,         \* the packet channelWorker is running, or None
  workerAlive,    \* channelWorker has not returned
  sendStats,      \* "nil", "attached", "detached", "taken", "closed"
  uncounted,      \* the <<packet, sender>> calls no counter recorded (history)
  registered,     \* the task is in logx' runtime statistics registry
  routeSenderMiss,\* t.routeSenderMiss
  stop,           \* where the lifecycle thread is in Start/StopGraceful
  ctxDone,        \* the run context has been cancelled
  stage,          \* see above
  snap,           \* snap[p]: the pool/ch pointer read by Handle(p) is not nil
  todo,           \* todo[p]: the senders processAndSend still has to call
  sent,           \* sent[p]: the senders whose Send(p) was called (history)
  released,       \* released[p]: how often pkt.Release() was called (history)
  caller,         \* caller[p]: the goroutine that called Handle(p)
  turn,           \* turn[p]: position of that call in the order of calls (history)
  calls           \* number of Handle calls so far (history)

life == <<model, accepting, pool, ch, sendStats, registered, stop>>
lane == <<queue, worker, workerAlive>>
work == <<todo, sent, uncounted, routeSenderMiss>>
hist == <<caller, turn, calls>>
vars == <<model, accepting, inflight, inflightCount, pool, ch, queue, worker,
          workerAlive, sendStats, uncounted, registered, routeSenderMiss, stop,
          ctxDone, stage, snap, todo, sent, released, caller, turn, calls>>

-----------------------------------------------------------------------------
ExecutionModels == {"fastpath", "pool", "channel"}

Stages == {"new", "offered", "admitted", "queued", "running", "sending",
           "freed", "counted", "dropping", "dropDone", "dropCount", "done"}

\* Stages between inflight.Add(1) and inflight.Done().
Inflight == {"admitted", "queued", "running", "sending", "freed", "counted",
             "dropping"}

\* Stages in which runPacket of the packet is on some goroutine's stack.
Executing == {"running", "sending", "freed", "counted"}

\* Stages in which the packet is counted in inflightCount.
Mirrored == {"admitted", "queued", "running", "sending", "freed", "dropping",
             "dropDone"}

StopSteps == {"built", "serving", "draining", "drained", "taken", "closing",
              "joined", "stopped"}

\* Mistake: the fallback is not a model Start knows.
resolveExecutionModelUnknown(m) == IF m \in ExecutionModels THEN m ELSE "workers"

\* Unset and unknown models both fall back to the pool.
resolveExecutionModel(m) == IF m \in ExecutionModels THEN m ELSE "pool"

EffectiveSize(configured, default) ==
  IF configured <= 0 THEN default ELSE configured

PoolCap  == EffectiveSize(PoolSize, DefaultPoolSize)
QueueCap == EffectiveSize(ChannelQueueSize, DefaultChannelQueueSize)

InStage(S) == {p \in Packets : stage[p] \in S}

\* A receiver goroutine is inside Handle; in the fastpath model it also runs
\* the packet itself.
CallerHolds(p) ==
  \/ stage[p] \in {"offered", "admitted", "dropping", "dropDone", "dropCount"}
  \/ model = "fastpath" /\ stage[p] \in Executing

CallerBusy(c) == \E p \in Packets : caller[p] = c /\ CallerHolds(p)

Move(p, from, to) ==
  /\ stage[p] = from
  /\ stage' = [stage EXCEPT ![p] = to]

Release(p) == released' = [released EXCEPT ![p] = @ + 1]

-----------------------------------------------------------------------------
(* Lifecycle thread: Start, then (much later) StopGraceful.                *)

Init ==
  /\ model \in ConfiguredModels
  /\ accepting = FALSE /\ inflight = 0 /\ inflightCount = 0
  /\ pool = "nil" /\ ch = "nil"
  /\ queue = <<>> /\ worker = None /\ workerAlive = FALSE
  /\ sendStats \in {"nil", "attached"}     \* attached: ReuseTrafficCounter
  /\ uncounted = {} /\ registered = FALSE /\ routeSenderMiss = 0
  /\ stop = "built" /\ ctxDone = FALSE
  /\ stage = [p \in Packets |-> "new"]
  /\ snap = [p \in Packets |-> FALSE]
  /\ todo = [p \in Packets |-> {}]
  /\ sent = [p \in Packets |-> {}]
  /\ released = [p \in Packets |-> 0]
  /\ caller = [p \in Packets |-> None]
  /\ turn = [p \in Packets |-> 0]
  /\ calls = 0

\* Start runs before the task is published, so nothing interleaves with it.
\* A missing counter is acquired only when the log level asks for it.
Start ==
  /\ stop = "built"
  /\ stop' = "serving"
  /\ model' = resolveExecutionModel(model)
  /\ pool' = IF model' = "pool" THEN "attached" ELSE "nil"
  /\ ch' = IF model' = "channel" THEN "open" ELSE "nil"
  /\ workerAlive' = (model' = "channel")
  /\ accepting' = TRUE
  /\ \/ sendStats' = "attached"
     \/ sendStats = "nil" /\ sendStats' = "nil"
  /\ registered' = TRUE
  /\ UNCHANGED <<inflight, inflightCount, queue, worker, ctxDone, stage, snap,
                 released, work, hist>>

\* runtime.removeTask takes the counter away before the stop when the task is
\* about to be rebuilt under the same name; the counter stays open.
DetachTrafficCounter ==
  /\ stop = "serving"
  /\ sendStats = "attached"
  /\ sendStats' = "detached"
  /\ UNCHANGED <<model, accepting, pool, ch, registered, stop, inflight,
                 inflightCount, lane, ctxDone, stage, snap, released, work, hist>>

\* First critical section of StopGraceful.
StopRefuse ==
  /\ stop = "serving"
  /\ stop' = "draining"
  /\ accepting' = FALSE
  /\ UNCHANGED <<model, pool, ch, sendStats, registered, inflight,
                 inflightCount, lane, ctxDone, stage, snap, released, work, hist>>

\* Mistake: no inflight.Wait().
StopWaitNot ==
  /\ stop = "draining"
  /\ stop' = "drained"
  /\ registered' = FALSE
  /\ UNCHANGED <<model, accepting, pool, ch, sendStats, inflight,
                 inflightCount, lane, ctxDone, stage, snap, released, work, hist>>

\* inflight.Wait() returns, then the runtime statistics are unregistered.
StopWait ==
  /\ stop = "draining"
  /\ inflight = 0
  /\ stop' = "drained"
  /\ registered' = FALSE
  /\ UNCHANGED <<model, accepting, pool, ch, sendStats, inflight,
                 inflightCount, lane, ctxDone, stage, snap, released, work, hist>>

\* Second critical section: pool and counter become locals of StopGraceful.
StopTake ==
  /\ stop = "drained"
  /\ stop' = "taken"
  /\ pool' = IF pool = "attached" THEN "taken" ELSE pool
  /\ sendStats' = IF sendStats = "attached" THEN "taken" ELSE sendStats
  /\ UNCHANGED <<model, accepting, ch, registered, inflight, inflightCount,
                 lane, ctxDone, stage, snap, released, work, hist>>

\* Mistake: the channel is not closed.
StopReleasePoolOnly ==
  /\ stop = "taken"
  /\ stop' = "closing"
  /\ pool' = IF pool = "taken" THEN "released" ELSE pool
  /\ UNCHANGED <<model, accepting, ch, sendStats, registered, inflight,
                 inflightCount, lane, ctxDone, stage, snap, released, work, hist>>

\* pool.Release(), close(ch).
StopRelease ==
  /\ stop = "taken"
  /\ stop' = "closing"
  /\ pool' = IF pool = "taken" THEN "released" ELSE pool
  /\ ch' = IF ch = "open" THEN "closed" ELSE ch
  /\ UNCHANGED <<model, accepting, sendStats, registered, inflight,
                 inflightCount, lane, ctxDone, stage, snap, released, work, hist>>

\* wg.Wait() on the channel worker, then t.ch = nil.
StopJoin ==
  /\ stop = "closing"
  /\ ~workerAlive
  /\ stop' = "joined"
  /\ ch' = IF ch = "closed" THEN "gone" ELSE ch
  /\ UNCHANGED <<model, accepting, pool, sendStats, registered, inflight,
                 inflightCount, lane, ctxDone, stage, snap, released, work, hist>>

\* sendStats.Close() for a counter that was not detached; StopGraceful returns.
StopFinish ==
  /\ stop = "joined"
  /\ stop' = "stopped"
  /\ sendStats' = IF sendStats = "taken" THEN "closed" ELSE sendStats
  /\ UNCHANGED <<model, accepting, pool, ch, registered, inflight,
                 inflightCount, lane, ctxDone, stage, snap, released, work, hist>>

\* The run context is cancelled (process shutdown).
CancelContext ==
  /\ ~ctxDone
  /\ ctxDone' = TRUE
  /\ UNCHANGED <<life, inflight, inflightCount, lane, stage, snap, released,
                 work, hist>>

-----------------------------------------------------------------------------
(* Handle.                                                                 *)

\* dispatchToSelector calls Handle. Compiled selectors keep pointing at the
\* task after it was stopped, so calls may come at any time after Start.
HandleEnter(c, p) ==
  /\ stop # "built"
  /\ ~CallerBusy(c)
  /\ Move(p, "new", "offered")
  /\ calls' = calls + 1
  /\ caller' = [caller EXCEPT ![p] = c]
  /\ turn' = [turn EXCEPT ![p] = calls + 1]
  /\ UNCHANGED <<life, inflight, inflightCount, lane, ctxDone, snap, released,
                 work>>

\* Mistake: accepting is not looked at.
HandleAdmitAlways(p) ==
  /\ Move(p, "offered", "admitted")
  /\ inflight' = inflight + 1
  /\ inflightCount' = inflightCount + 1
  /\ snap' = [snap EXCEPT ![p] = IF model = "pool" THEN pool = "attached"
                                                   ELSE ch \in {"open", "closed"}]
  /\ UNCHANGED <<life, lane, ctxDone, released, work, hist>>

\* The read-locked section when accepting holds.
HandleAdmit(p) ==
  /\ accepting
  /\ Move(p, "offered", "admitted")
  /\ inflight' = inflight + 1
  /\ inflightCount' = inflightCount + 1
  /\ snap' = [snap EXCEPT ![p] = IF model = "pool" THEN pool = "attached"
                                                   ELSE ch \in {"open", "closed"}]
  /\ UNCHANGED <<life, lane, ctxDone, released, work, hist>>

\* Mistake: the refused packet is not released.
HandleRejectLeaks(p) ==
  /\ ~accepting
  /\ Move(p, "offered", "done")
  /\ UNCHANGED <<life, inflight, inflightCount, lane, ctxDone, snap, released,
                 work, hist>>

\* accepting is false: release and return.
HandleReject(p) ==
  /\ ~accepting
  /\ Move(p, "offered", "done")
  /\ Release(p)
  /\ UNCHANGED <<life, inflight, inflightCount, lane, ctxDone, snap, work, hist>>

\* fastpath: runPacket on the caller's goroutine.
HandleFastPath(p) ==
  /\ model = "fastpath"
  /\ Move(p, "admitted", "running")
  /\ UNCHANGED <<life, inflight, inflightCount, lane, ctxDone, snap, released,
                 work, hist>>

\* pool: Submit blocks while all workers are busy. It fails on a released
\* pool, and a nil pool is never submitted to: both drop the packet.
HandlePool(p) ==
  /\ model = "pool"
  /\ IF snap[p] /\ pool # "released"
     THEN /\ Cardinality(InStage(Executing)) < PoolCap
          /\ Move(p, "admitted", "running")
     ELSE Move(p, "admitted", "dropping")
  /\ UNCHANGED <<life, inflight, inflightCount, lane, ctxDone, snap, released,
                 work, hist>>

\* channel: the send case of the select. A send on a closed channel panics;
\* ResourceSafe below says that this send never meets one.
HandleChannel(p) ==
  /\ model = "channel"
  /\ IF snap[p]
     THEN /\ Len(queue) < QueueCap
          /\ Move(p, "admitted", "queued")
          /\ queue' = Append(queue, p)
     ELSE /\ Move(p, "admitted", "dropping")
          /\ UNCHANGED queue
  /\ UNCHANGED <<life, inflight, inflightCount, worker, workerAlive, ctxDone,
                 snap, released, work, hist>>

\* channel: the ctx.Done() case of the select.
HandleCancelled(p) ==
  /\ model = "channel"
  /\ ctxDone
  /\ Move(p, "admitted", "dropping")
  /\ UNCHANGED <<life, inflight, inflightCount, lane, ctxDone, snap, released,
                 work, hist>>

\* Mistake: an error branch returns without inflight.Done().
DropDoneForgotten(p) ==
  /\ Move(p, "dropping", "dropDone")
  /\ UNCHANGED <<life, inflight, inflightCount, lane, ctxDone, snap, released,
                 work, hist>>

\* The three calls of every error branch, in the order the branches make them.
DropDone(p) ==
  /\ Move(p, "dropping", "dropDone")
  /\ inflight' = inflight - 1
  /\ UNCHANGED <<life, inflightCount, lane, ctxDone, snap, released, work, hist>>

DropCount(p) ==
  /\ Move(p, "dropDone", "dropCount")
  /\ inflightCount' = inflightCount - 1
  /\ UNCHANGED <<life, inflight, lane, ctxDone, snap, released, work, hist>>

DropRelease(p) ==
  /\ Move(p, "dropCount", "done")
  /\ Release(p)
  /\ UNCHANGED <<life, inflight, inflightCount, lane, ctxDone, snap, work, hist>>

-----------------------------------------------------------------------------
(* channelWorker: takes the head of the queue, one packet at a time.       *)

\* Mistake: the next packet is taken while one is being processed.
WorkerTakeBusy ==
  /\ workerAlive /\ queue # <<>>
  /\ worker' = Head(queue)
  /\ queue' = Tail(queue)
  /\ Move(Head(queue), "queued", "running")
  /\ UNCHANGED <<life, inflight, inflightCount, workerAlive, ctxDone, snap,
                 released, work, hist>>

WorkerTake ==
  /\ workerAlive /\ worker = None /\ queue # <<>>
  /\ worker' = Head(queue)
  /\ queue' = Tail(queue)
  /\ Move(Head(queue), "queued", "running")
  /\ UNCHANGED <<life, inflight, inflightCount, workerAlive, ctxDone, snap,
                 released, work, hist>>

\* The range loop ends when the channel is closed and drained.
WorkerExit ==
  /\ workerAlive /\ worker = None /\ queue = <<>>
  /\ ch = "closed"
  /\ workerAlive' = FALSE
  /\ UNCHANGED <<life, inflight, inflightCount, queue, worker, ctxDone, stage,
                 snap, released, work, hist>>

-----------------------------------------------------------------------------
(* runPacket and processAndSend.                                           *)

\* The pipelines drop the packet, route it to one sender of the task, route it
\* to a sender the task does not have, or leave it for all senders.
RunPipelines(p) ==
  /\ Move(p, "running", "sending")
  /\ \/ /\ todo' = [todo EXCEPT ![p] = {}]
        /\ routeSenderMiss' \in {routeSenderMiss, routeSenderMiss + 1}
     \/ /\ \E T \in {{s} : s \in Senders} \cup {Senders} :
             todo' = [todo EXCEPT ![p] = T]
        /\ UNCHANGED routeSenderMiss
  /\ UNCHANGED <<life, inflight, inflightCount, lane, ctxDone, snap, released,
                 sent, uncounted, hist>>

\* sendToSender: the counter is read without a lock, then Send is called; its
\* error is only logged.
sendToSender(p, s) ==
  /\ stage[p] = "sending"
  /\ s \in todo[p]
  /\ todo' = [todo EXCEPT ![p] = @ \ {s}]
  /\ sent' = [sent EXCEPT ![p] = @ \cup {s}]
  /\ uncounted' = IF sendStats = "attached" THEN uncounted
                                            ELSE uncounted \cup {<<p, s>>}
  /\ UNCHANGED <<life, inflight, inflightCount, lane, ctxDone, stage, snap,
                 released, routeSenderMiss, hist>>

\* The deferred calls of runPacket, last in first out.
RunRelease(p) ==
  /\ todo[p] = {}
  /\ Move(p, "sending", "freed")
  /\ Release(p)
  /\ UNCHANGED <<life, inflight, inflightCount, lane, ctxDone, snap, work, hist>>

RunCount(p) ==
  /\ Move(p, "freed", "counted")
  /\ inflightCount' = inflightCount - 1
  /\ UNCHANGED <<life, inflight, lane, ctxDone, snap, released, work, hist>>

RunDone(p) ==
  /\ Move(p, "counted", "done")
  /\ inflight' = inflight - 1
  /\ worker' = IF worker = p THEN None ELSE worker
  /\ UNCHANGED <<life, inflightCount, queue, workerAlive, ctxDone, snap,
                 released, work, hist>>

-----------------------------------------------------------------------------
Lifecycle ==
  \/ Start \/ DetachTrafficCounter \/ StopRefuse \/ StopWait \/ StopTake
  \/ StopRelease \/ StopJoin \/ StopFinish \/ CancelContext

Handle(p) ==
  \/ HandleAdmit(p) \/ HandleReject(p) \/ HandleFastPath(p) \/ HandlePool(p)
  \/ HandleChannel(p) \/ HandleCancelled(p)
  \/ DropDone(p) \/ DropCount(p) \/ DropRelease(p)

channelWorker == WorkerTake \/ WorkerExit

runPacket(p) ==
  \/ RunPipelines(p) \/ (\E s \in Senders : sendToSender(p, s))
  \/ RunRelease(p) \/ RunCount(p) \/ RunDone(p)

Next ==
  \/ Lifecycle
  \/ channelWorker
  \/ \E p \in Packets :
       \/ \E c \in Callers : HandleEnter(c, p)
       \/ Handle(p)
       \/ runPacket(p)

Spec == Init /\ [][Next]_vars

\* The Go scheduler runs every runnable goroutine, and senders return from
\* Send; nobody has to call Handle, stop the task or cancel the context.
Fairness ==
  /\ \A p \in Packets : WF_vars(Handle(p)) /\ WF_vars(runPacket(p))
  /\ WF_vars(channelWorker)
  /\ WF_vars(StopWait \/ StopTake \/ StopRelease \/ StopJoin \/ StopFinish)

FairSpec == Spec /\ Fairness
-----------------------------------------------------------------------------
(* Properties.                                                             *)

TypeFlags ==
  /\ accepting \in BOOLEAN
  /\ workerAlive \in BOOLEAN
  /\ registered \in BOOLEAN
  /\ ctxDone \in BOOLEAN
  /\ snap \in [Packets -> BOOLEAN]

TypeLife ==
  /\ model \in ConfiguredModels \cup ExecutionModels
  /\ inflight \in Int /\ inflightCount \in Int
  /\ pool \in {"nil", "attached", "taken", "released"}
  /\ ch \in {"nil", "open", "closed", "gone"}
  /\ queue \in Seq(Packets)
  /\ worker \in Packets \cup {None}
  /\ sendStats \in {"nil", "attached", "detached", "taken", "closed"}
  /\ stop \in StopSteps

TypePackets ==
  /\ uncounted \subseteq Packets \X Senders
  /\ routeSenderMiss \in Nat
  /\ stage \in [Packets -> Stages]
  /\ todo \in [Packets -> SUBSET Senders]
  /\ sent \in [Packets -> SUBSET Senders]
  /\ released \in [Packets -> Nat]
  /\ caller \in [Packets -> Callers \cup {None}]
  /\ turn \in [Packets -> Nat]
  /\ calls \in Nat

TypeOK == TypeFlags /\ TypeLife /\ TypePackets

\* Every path through Handle pairs inflight.Add with one inflight.Done and
\* inflightCount.Add(1) with one Add(-1): the WaitGroup that StopGraceful waits
\* on counts exactly the packets a goroutine still works for, and never goes
\* negative (which would panic).
InflightExact ==
  /\ inflight = Cardinality(InStage(Inflight))
  /\ inflightCount = Cardinality(InStage(Mirrored))

\* Release is called once per packet, on whichever path the packet leaves, and
\* not before the pipelines and senders are through with its payload.
ReleasedOnce ==
  \A p \in Packets :
    released[p] = IF stage[p] \in {"freed", "counted", "done"} THEN 1 ELSE 0

\* A Handle that was admitted finds the pool or channel of its snapshot alive:
\* it never submits to a released pool, never sends on a closed channel and
\* never takes the "not initialised" error branches.
ResourceSafe ==
  \A p \in Packets : stage[p] = "admitted" =>
    /\ model = "pool" => snap[p] /\ pool = "attached"
    /\ model = "channel" => snap[p] /\ ch = "open"

\* Once StopGraceful is past its wait no packet is queued, running or inside
\* Send: the runtime may close the task's senders when StopGraceful returns.
QuietAfterDrain ==
  stop \notin {"built", "serving", "draining"} =>
    /\ InStage(Inflight) = {}
    /\ queue = <<>> /\ worker = None

\* In the channel and fastpath models a receiver goroutine's packets are sent
\* in the order of its Handle calls: while one is being processed no earlier
\* one is still waiting or being processed.
OrderedPerCaller ==
  model \in {"channel", "fastpath"} =>
    \A p, q \in Packets :
      (/\ caller[p] = caller[q] /\ turn[p] < turn[q]
       /\ stage[q] \in {"running", "sending"})
        => stage[p] \notin {"offered", "admitted", "queued", "running", "sending"}

\* The channel worker is the only one that runs packets, one at a time, and the
\* pool never runs more than its configured number.
ConcurrencyBound ==
  /\ model = "channel" /\ stop # "built" =>
       InStage(Executing) = IF worker = None THEN {} ELSE {worker}
  /\ model = "pool" => Cardinality(InStage(Executing)) <= PoolCap

\* A task that keeps its counter until StopGraceful closes it counts every Send.
CountedUnlessDetached ==
  sendStats \in {"attached", "taken", "closed"} => uncounted = {}

\* A stop that was begun ends, whatever is queued or running at that time, and
\* every packet given to Handle is eventually finished with (and by ReleasedOnce
\* released), in every model, also across stop and cancellation.
Progress ==
  /\ stop = "draining" ~> stop = "stopped"
  /\ \A p \in Packets : stage[p] = "offered" ~> stage[p] = "done"
-----------------------------------------------------------------------------
(* Strengthening of the invariants above to an inductive one.              *)

\* The gate is open exactly while the task serves, and the resource of the
\* execution model lives until StopGraceful is past its wait.
LifeInv ==
  /\ accepting <=> stop = "serving"
  /\ stop = "built" => \A p \in Packets : stage[p] = "new"
  /\ stop # "built" => model \in ExecutionModels
  /\ model = "pool" /\ stop \in {"serving", "draining", "drained"}
       => pool = "attached"
  /\ model = "channel" /\ stop \in {"serving", "draining", "drained", "taken"}
       => ch = "open"

\* The channel holds exactly the queued packets, each once; in the channel
\* model the worker's packet is the only one being executed.
LaneInv ==
  /\ \A i \in DOMAIN queue : stage[queue[i]] = "queued"
  /\ \A i, j \in DOMAIN queue : i # j => queue[i] # queue[j]
  /\ \A p \in Packets : stage[p] = "queued" =>
       model = "channel" /\ \E i \in DOMAIN queue : queue[i] = p
  /\ worker # None => stage[worker] \in Executing
  /\ model = "channel" => \A p \in Packets : stage[p] \in Executing => worker = p

\* Calls are numbered without repetition; a packet still in the hands of its
\* caller is that caller's latest; a caller's packets queue up in call order,
\* behind the one the worker runs.
TurnInv ==
  /\ \A p \in Packets : stage[p] # "new" => turn[p] \in 1..calls
  /\ \A p, q \in Packets :
       stage[p] # "new" /\ stage[q] # "new" /\ p # q => turn[p] # turn[q]
  /\ \A p, q \in Packets :
       /\ CallerHolds(p) /\ stage[q] # "new" /\ caller[p] = caller[q] /\ p # q
         => turn[q] < turn[p]
  /\ \A i, j \in DOMAIN queue :
       i < j /\ caller[queue[i]] = caller[queue[j]]
         => turn[queue[i]] < turn[queue[j]]
  /\ worker # None => \A i \in DOMAIN queue :
       caller[worker] = caller[queue[i]] => turn[worker] < turn[queue[i]]

SafetyInv ==
  /\ TypeOK /\ LifeInv /\ LaneInv
  /\ InflightExact /\ ReleasedOnce /\ ResourceSafe /\ QuietAfterDrain

OrderInv == LifeInv /\ LaneInv /\ TurnInv

=============================================================================
