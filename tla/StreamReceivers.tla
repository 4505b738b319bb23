-------------------------- MODULE StreamReceivers --------------------------
(***************************************************************************)
(* The receivers of streams (src/receiver): Kafka (kafka.go), the local    *)
(* generator with an interval or a rate (local_timer.go), and the UDP and  *)
(* TCP listeners (gnet_udp.go, gnet_tcp.go): Start, which emits packets    *)
(* until it returns, Stop by another goroutine, and the handle of the      *)
(* traffic statistics both may close. SkyddsLink and FilePolling have the  *)
(* others, TcpLink the frames.                                             *)
(*                                                                         *)
(* A section under the mutex is one step. External: a poll of Kafka gives  *)
(* records, fails, or sees that its context ended; the engine of gnet      *)
(* calls OnBoot, then OnTraffic until it is stopped, and Engine.Stop       *)
(* returns when the engine is down or the context ends. Credit is counted  *)
(* in parts of a packet, exactly.                                          *)
(*                                                                         *)
(* "Mistake:" marks a definition that is not part of the model but the one *)
(* after it with a programming error a property has to detect.             *)
(***************************************************************************)
EXTENDS Integers

CONSTANTS
  Kinds,         \* "kafka", "interval", "rate", "gnet"
  Totals,        \* values of total_packets, 0 for no bound
  Unit, PerTick, \* parts of a packet, and the parts a tick adds
  MaxTicks,      \* bound on the ticks of the generator
  MaxPolls,      \* bound on the polls and on what a poll or the engine gives
  MaxErrors      \* bound on the polls that fail

VARIABLES
  kind, total,
  start,        \* where Start is
  cancelled,    \* its context was cancelled, or its engine told to stop
  left,         \* records of a poll not yet emitted
  credit, ticks, sent,
  polls, errors,
  stats,        \* the handle: "none" or "open"
  closes,       \* history: how often a handle was closed
  stop,         \* where Stop is
  found         \* it found something to stop

generator == <<credit, ticks, sent>>
source == <<left, polls, errors>>
statistics == <<stats, closes>>
stopping == <<stop, found>>
vars == <<kind, total, start, cancelled, generator, source, statistics, stopping>>

Init ==
  /\ kind \in Kinds /\ total \in Totals
  /\ kind \notin {"interval", "rate"} => total = 0
  /\ start = "new" /\ cancelled = FALSE
  /\ left = 0 /\ polls = 0 /\ errors = 0
  /\ credit = 0 /\ ticks = 0 /\ sent = 0
  /\ stats = "none" /\ closes = 0
  /\ stop = "idle" /\ found = FALSE

Timer == kind \in {"interval", "rate"}
-----------------------------------------------------------------------------
(* The handle of the statistics.                                           *)

\* Swap(nil) and Close of what it gave.
CloseStats ==
  /\ stats' = "none"
  /\ closes' = IF stats = "open" THEN closes + 1 ELSE closes
-----------------------------------------------------------------------------
(* Start.                                                                  *)

\* Up to the end of the section that installs cancel and done, or to gnet.Run.
Start ==
  /\ start = "new"
  /\ stats' = "open"
  /\ start' = IF kind = "gnet" THEN "boot" ELSE IF Timer THEN "delay" ELSE "loop"
  /\ UNCHANGED <<kind, total, cancelled, generator, source, closes, stopping>>

\* gnet.Run fails, or OnBoot installs stopFn.
OnBoot ==
  /\ start = "boot"
  /\ start' \in {"loop", "exit"}
  /\ UNCHANGED <<kind, total, cancelled, generator, source, statistics, stopping>>

\* start_delay.
Delayed ==
  /\ start = "delay"
  /\ start' = "loop" \/ (cancelled /\ start' = "exit")
  /\ UNCHANGED <<kind, total, cancelled, generator, source, statistics, stopping>>

\* The context ended (in a select that may prefer the ticker), or the engine
\* was stopped.
SeesCancel ==
  /\ start = "loop" /\ cancelled
  /\ start' = "exit"
  /\ UNCHANGED <<kind, total, cancelled, generator, source, statistics, stopping>>

\* PollFetches with records, or an error that is only logged.
Poll ==
  /\ kind = "kafka" /\ start = "loop" /\ ~cancelled /\ polls < MaxPolls
  /\ \/ /\ \E n \in 1..MaxPolls : left' = n
        /\ polls' = polls + 1 /\ start' = "emit" /\ UNCHANGED errors
     \/ /\ errors < MaxErrors /\ errors' = errors + 1
        /\ UNCHANGED <<left, polls, start>>
  /\ UNCHANGED <<kind, total, cancelled, generator, statistics, stopping>>

\* EachRecord does not look at the context.
EmitRecord ==
  /\ kind = "kafka" /\ start = "emit"
  /\ left' = left - 1
  /\ start' = IF left = 1 THEN "loop" ELSE "emit"
  /\ UNCHANGED <<kind, total, cancelled, generator, polls, errors, statistics, stopping>>

OnTraffic ==
  /\ kind = "gnet" /\ start = "loop" /\ polls < MaxPolls
  /\ polls' = polls + 1
  /\ UNCHANGED <<kind, total, start, cancelled, generator, left, errors, statistics, stopping>>

reachedTotal(n) == total > 0 /\ n >= total

\* runInterval.
IntervalTick ==
  /\ kind = "interval" /\ start = "loop" /\ ticks < MaxTicks
  /\ ticks' = ticks + 1 /\ sent' = sent + 1
  /\ start' = IF reachedTotal(sent') THEN "exit" ELSE "loop"
  /\ UNCHANGED <<kind, total, cancelled, credit, source, statistics, stopping>>

\* runRate.
RateTick ==
  /\ kind = "rate" /\ start = "loop" /\ ticks < MaxTicks
  /\ ticks' = ticks + 1 /\ credit' = credit + PerTick
  /\ start' = IF credit' >= Unit THEN "emit" ELSE "loop"
  /\ UNCHANGED <<kind, total, cancelled, sent, source, statistics, stopping>>

RateEmit ==
  /\ kind = "rate" /\ start = "emit"
  /\ sent' = sent + 1 /\ credit' = credit - Unit
  /\ start' = IF reachedTotal(sent') \/ cancelled THEN "exit"
              ELSE IF credit' >= Unit THEN "emit" ELSE "loop"
  /\ UNCHANGED <<kind, total, cancelled, ticks, source, statistics, stopping>>

\* The deferred section: handle, client, cancel, done.
Exit ==
  /\ start = "exit"
  /\ start' = "ended"
  /\ CloseStats
  /\ UNCHANGED <<kind, total, cancelled, generator, source, stopping>>
-----------------------------------------------------------------------------
(* Stop.                                                                   *)

\* What Stop finds: done is there while Start runs, stopFn once OnBoot was called.
Running ==
  IF kind = "gnet" THEN start \notin {"new", "boot"} ELSE start \notin {"new", "ended"}

Stop ==
  /\ stop = "idle"
  /\ \/ Running /\ cancelled' = TRUE /\ found' = TRUE /\ stop' = "wait"
     \/ ~Running /\ stop' = "returned" /\ UNCHANGED <<cancelled, found>>
  /\ \/ kind = "gnet" /\ CloseStats
     \/ kind # "gnet" /\ UNCHANGED statistics
  /\ UNCHANGED <<kind, total, start, generator, source>>

\* Mistake: Stop does not wait.
AnyTime == TRUE

\* <-done, or Engine.Stop sees that the engine is down.
Down == IF kind = "gnet" THEN start \in {"exit", "ended"} ELSE start = "ended"

StopReturns ==
  /\ stop = "wait" /\ Down
  /\ stop' = "returned"
  /\ UNCHANGED <<kind, total, start, cancelled, generator, source, statistics, found>>

StopTimesOut ==
  /\ stop = "wait"
  /\ stop' = "timedOut"
  /\ UNCHANGED <<kind, total, start, cancelled, generator, source, statistics, found>>
-----------------------------------------------------------------------------
StartStep ==
  \/ OnBoot \/ Delayed \/ SeesCancel \/ Poll \/ EmitRecord \/ IntervalTick \/ RateTick
  \/ RateEmit \/ Exit

Next == Start \/ StartStep \/ OnTraffic \/ Stop \/ StopReturns \/ StopTimesOut

Spec == Init /\ [][Next]_vars

\* Start goes on, and its select does not prefer the ticker for ever.
Fairness == WF_vars(StartStep)
-----------------------------------------------------------------------------
(* Properties.                                                             *)

\* A Stop that found the receiver running and returned in time ends it: it emits
\* nothing more; one that came before there was anything to stop changes nothing.
\* Whoever of Start and Stop closes the handle of the statistics, it is closed
\* once, and none is left open when Start is over (gnet_udp.go:107-108). And the
\* generator never emits more than its total, nor more or less than its rate:
\* between two ticks less than one packet is owed.
ReceiverStops ==
  /\ stop = "returned" /\ found =>
       start = "ended" \/ (kind = "gnet" /\ start = "exit")
  /\ closes <= 1 /\ (closes = 1 => stats = "none")
  /\ start = "ended" => closes = 1
  /\ total > 0 /\ sent >= total => sent = total /\ start \in {"exit", "ended"}
  /\ kind = "rate" => /\ sent * Unit + credit = ticks * PerTick
                      /\ start = "loop" => credit < Unit

\* A receiver whose Stop found it running has come to its end.
Settled == found => start = "ended"

=============================================================================
