------------------------------ MODULE Schedule ------------------------------
(***************************************************************************)
(* The schedule manager (src/schedule): a manager starts groups of jobs    *)
(* and stops them; a local group runs its jobs from start to stop, a       *)
(* leader_only group while this instance is the leader; an interval job    *)
(* starts a run of its function at each tick.                              *)
(*                                                                         *)
(* A context is whether it was cancelled. A select in which both the       *)
(* context's end and a tick are ready takes either. Registrars have run    *)
(* before the model begins, and Start is called once, as Run does; a       *)
(* Group.Start then cannot fail.                                           *)
(*                                                                         *)
(* "Mistake:" marks a definition that is not part of the model but the one *)
(* after it with a programming error a property has to detect.             *)
(***************************************************************************)
EXTENDS Integers

CONSTANTS
  Local, LeaderOnly, NoElector,  \* groups: local, leader_only with an elector
                                 \*   and without one
  Jobs,        \* interval jobs
  JobsOf,      \* the jobs of each group
  Immediate,   \* jobs made with WithImmediateStart
  Overlapping, \* jobs made with WithAllowOverlap
  MaxTicks,    \* bound on the runs of a job
  MaxChanges,  \* bound on the changes of leadership
  MaxStops,    \* bound on the calls of Stop
  Timeouts     \* whether the context given to Stop may end

Groups == Local \cup LeaderOnly \cup NoElector

ASSUME JobsAssumption ==
  /\ JobsOf \in [Groups -> SUBSET Jobs]
  /\ \A g, h \in Groups : g # h => JobsOf[g] \cap JobsOf[h] = {}
  /\ Immediate \subseteq Jobs /\ Overlapping \subseteq Jobs
ASSUME KindsAssumption ==
  Local \cap LeaderOnly = {} /\ Local \cap NoElector = {} /\ LeaderOnly \cap NoElector = {}
ASSUME BoundsAssumption ==
  /\ MaxTicks \in Nat /\ MaxChanges \in Nat /\ MaxStops \in Nat
  /\ Timeouts \in BOOLEAN

VARIABLES
  started, stopped,  \* the manager's flags
  cancelled,         \* runCtx was cancelled
  starter,           \* where Manager.Start is
  toStart,           \* groups it has yet to start
  toCount,           \* a group it started but has not added to wg
  wg,                \* the groups the manager's WaitGroup waits for
  stopper, stops,    \* where Manager.Stop is; how often it was called
  group,             \* where each group's goroutine is
  running,           \* leader_only: startJobs without stopJobs
  jobsCancelled,     \* the context of its jobs was cancelled
  isLeader,          \* what the elector says
  changes,
  job,               \* where the loop of each job is
  busy,              \* IntervalJob.running
  active,            \* runs of its function going on
  ticks

manager == <<started, stopped, cancelled, starter, toStart, toCount, wg, stopper, stops>>
groups == <<group, running, jobsCancelled>>
election == <<isLeader, changes>>
jobs == <<job, busy, active, ticks>>
vars == <<manager, groups, election, jobs>>

Init ==
  /\ started = FALSE /\ stopped = FALSE /\ cancelled = FALSE
  /\ starter = "idle" /\ toStart = {} /\ toCount = {} /\ wg = {}
  /\ stopper = "idle" /\ stops = 0
  /\ group = [g \in Groups |-> "new"]
  /\ running = [g \in Groups |-> FALSE]
  /\ jobsCancelled = [g \in Groups |-> FALSE]
  /\ isLeader \in BOOLEAN /\ changes = 0
  /\ job = [j \in Jobs |-> "off"]
  /\ busy = [j \in Jobs |-> FALSE]
  /\ active = [j \in Jobs |-> 0]
  /\ ticks = [j \in Jobs |-> 0]
-----------------------------------------------------------------------------
(* Manager.                                                                *)

\* Start, up to the lock section that sets started; registrars have run.
Start ==
  /\ starter = "idle" /\ ~started
  /\ started' = TRUE
  /\ toStart' = Groups
  /\ starter' = "launching"
  /\ UNCHANGED <<stopped, cancelled, toCount, wg, stopper, stops, groups, election, jobs>>

BeginJobs(g) == [j \in Jobs |-> IF j \in JobsOf[g] THEN "begin" ELSE job[j]]

\* Group.Start: the group's goroutine.
StartGroup(g) ==
  /\ starter = "launching" /\ toCount = {} /\ g \in toStart
  /\ toStart' = toStart \ {g}
  /\ toCount' = {g}
  /\ \/ g \in Local /\ group' = [group EXCEPT ![g] = "jobs"] /\ job' = BeginJobs(g)
     \/ g \in LeaderOnly /\ group' = [group EXCEPT ![g] = "check"] /\ UNCHANGED job
     \/ g \in NoElector /\ group' = [group EXCEPT ![g] = "idle"] /\ UNCHANGED job
  /\ UNCHANGED <<started, stopped, cancelled, starter, wg, stopper, stops, running,
                 jobsCancelled, election, busy, active, ticks>>

\* m.wg.Add and the goroutine that waits for the group.
CountGroup ==
  /\ starter = "launching" /\ toCount # {}
  /\ wg' = wg \cup toCount
  /\ toCount' = {}
  /\ UNCHANGED <<started, stopped, cancelled, starter, toStart, stopper, stops, groups,
                 election, jobs>>

StartReturns ==
  /\ starter = "launching" /\ toStart = {} /\ toCount = {}
  /\ starter' = "returned"
  /\ UNCHANGED <<started, stopped, cancelled, toStart, toCount, wg, stopper, stops,
                 groups, election, jobs>>

GroupWaited(g) ==
  /\ g \in wg /\ group[g] = "done"
  /\ wg' = wg \ {g}
  /\ UNCHANGED <<started, stopped, cancelled, starter, toStart, toCount, stopper, stops,
                 groups, election, jobs>>

\* Stop, which Run calls after Start. Only the first call cancels.
Stop ==
  /\ stopper \in {"idle", "returned", "timedOut"} /\ stops < MaxStops
  /\ starter = "returned"
  /\ stops' = stops + 1
  /\ stopped' = TRUE
  /\ stopper' = IF ~started THEN "returned" ELSE IF stopped THEN "waiting" ELSE "cancel"
  /\ UNCHANGED <<started, cancelled, starter, toStart, toCount, wg, groups, election, jobs>>

\* Mistake: the context of the groups is not cancelled.
NotCancelled == cancelled

Cancelled == TRUE

StopCancels ==
  /\ stopper = "cancel"
  /\ cancelled' = Cancelled
  /\ stopper' = "waiting"
  /\ UNCHANGED <<started, stopped, starter, toStart, toCount, wg, stops, groups,
                 election, jobs>>

StopReturns ==
  /\ stopper = "waiting" /\ wg = {}
  /\ stopper' = "returned"
  /\ UNCHANGED <<started, stopped, cancelled, starter, toStart, toCount, wg, stops,
                 groups, election, jobs>>
\* waitStop gives up when the context of the call ends.
StopTimesOut ==
  /\ Timeouts /\ stopper = "waiting"
  /\ stopper' = "timedOut"
  /\ UNCHANGED <<started, stopped, cancelled, starter, toStart, toCount, wg, stops,
                 groups, election, jobs>>

\* Run cancels the context it gave to Start before it calls Stop.
CancelRun ==
  /\ starter = "returned" /\ ~cancelled
  /\ cancelled' = TRUE
  /\ UNCHANGED <<started, stopped, starter, toStart, toCount, wg, stopper, stops,
                 groups, election, jobs>>
-----------------------------------------------------------------------------
(* Group.                                                                  *)

\* Mistake: the jobs are told to stop and not waited for.
JobsAbandoned(g) == TRUE

\* runJobs has returned.
JobsEnded(g) == \A j \in JobsOf[g] : job[j] = "ended"

GroupDone(g) == group' = [group EXCEPT ![g] = "done"]

\* runLocal after its jobs; a leader_only group without elector.
LocalEnds(g) ==
  /\ cancelled
  /\ \/ group[g] = "jobs" /\ JobsEnded(g)
     \/ group[g] = "idle"
  /\ GroupDone(g)
  /\ UNCHANGED <<manager, running, jobsCancelled, election, jobs>>

StopJobs(g, then) ==
  /\ jobsCancelled' = [jobsCancelled EXCEPT ![g] = TRUE]
  /\ group' = [group EXCEPT ![g] = then]
  /\ UNCHANGED <<running, job>>

LeadershipLost(g) == StopJobs(g, "stopJobs")

\* checkLeader.
CheckLeader(g) ==
  /\ group[g] = "check"
  /\ \/ /\ isLeader /\ ~running[g]
        /\ running' = [running EXCEPT ![g] = TRUE]
        /\ jobsCancelled' = [jobsCancelled EXCEPT ![g] = FALSE]
        /\ job' = BeginJobs(g)
        /\ group' = [group EXCEPT ![g] = "wait"]
     \/ ~isLeader /\ running[g] /\ LeadershipLost(g)
     \/ /\ isLeader = running[g]
        /\ group' = [group EXCEPT ![g] = "wait"]
        /\ UNCHANGED <<running, jobsCancelled, job>>
  /\ UNCHANGED <<manager, election, busy, active, ticks>>

CheckTick(g) ==
  /\ group[g] = "wait"
  /\ group' = [group EXCEPT ![g] = "check"]
  /\ UNCHANGED <<manager, running, jobsCancelled, election, jobs>>

\* The context's end in runLeaderOnly.
LeaderOnlyEnds(g) ==
  /\ group[g] = "wait" /\ cancelled
  /\ \/ running[g] /\ StopJobs(g, "finish")
     \/ ~running[g] /\ GroupDone(g) /\ UNCHANGED <<running, jobsCancelled, job>>
  /\ UNCHANGED <<manager, election, busy, active, ticks>>

\* The end of stopJobs: <-jobsDone.
JobsStopped(g) ==
  /\ JobsEnded(g)
  /\ \/ group[g] = "stopJobs" /\ group' = [group EXCEPT ![g] = "wait"]
     \/ group[g] = "finish" /\ GroupDone(g)
  /\ running' = [running EXCEPT ![g] = FALSE]
  /\ UNCHANGED <<manager, jobsCancelled, election, jobs>>

ChangeLeader ==
  /\ changes < MaxChanges
  /\ changes' = changes + 1
  /\ isLeader' = ~isLeader
  /\ UNCHANGED <<manager, groups, jobs>>
-----------------------------------------------------------------------------
(* IntervalJob.                                                            *)

ContextDone(j) ==
  cancelled \/ \E g \in LeaderOnly : j \in JobsOf[g] /\ jobsCancelled[g]

\* Mistake: a tick starts a run whatever goes on.
MayAlwaysRun(j) == TRUE

\* The compare-and-swap of startRun.
MayRun(j) == j \in Overlapping \/ ~busy[j]

StartRun(j) ==
  /\ ticks[j] < MaxTicks /\ MayRun(j)
  /\ ticks' = [ticks EXCEPT ![j] = @ + 1]
  /\ busy' = [busy EXCEPT ![j] = j \notin Overlapping]
  /\ active' = [active EXCEPT ![j] = @ + 1]

\* The beginning of Start, with the immediate run of a job that has one.
JobBegins(j) ==
  /\ job[j] = "begin"
  /\ job' = [job EXCEPT ![j] = "loop"]
  /\ \/ j \in Immediate /\ StartRun(j)
     \/ /\ j \notin Immediate \/ ticks[j] = MaxTicks \/ ~MayRun(j)
        /\ UNCHANGED <<busy, active, ticks>>
  /\ UNCHANGED <<manager, groups, election>>

JobTick(j) ==
  /\ job[j] = "loop"
  /\ StartRun(j)
  /\ UNCHANGED <<manager, groups, election, job>>

Done(j) == active[j] - 1

\* A run ends: the function returns an error or nil or panics.
RunEnds(j) ==
  /\ active[j] > 0
  /\ active' = [active EXCEPT ![j] = Done(j)]
  /\ busy' = [busy EXCEPT ![j] = FALSE]
  /\ UNCHANGED <<manager, groups, election, job, ticks>>

JobContextDone(j) ==
  /\ job[j] = "loop" /\ ContextDone(j)
  /\ job' = [job EXCEPT ![j] = "draining"]
  /\ UNCHANGED <<manager, groups, election, busy, active, ticks>>

\* Mistake: the job leaves with runs going on.
LeavesRuns(j) == TRUE

RunsOver(j) == active[j] = 0

JobEnds(j) ==
  /\ job[j] = "draining" /\ RunsOver(j)
  /\ job' = [job EXCEPT ![j] = "ended"]
  /\ UNCHANGED <<manager, groups, election, busy, active, ticks>>

Manager ==
  \/ Start \/ CountGroup \/ StartReturns \/ StopCancels \/ StopReturns
  \/ \E g \in Groups : StartGroup(g) \/ GroupWaited(g)
GroupStep(g) == LocalEnds(g) \/ CheckLeader(g) \/ JobsStopped(g)
JobStep(j) == JobBegins(j) \/ JobContextDone(j) \/ JobEnds(j)

Next ==
  \/ Manager \/ Stop \/ StopTimesOut \/ CancelRun \/ ChangeLeader
  \/ \E g \in Groups : GroupStep(g) \/ CheckTick(g) \/ LeaderOnlyEnds(g)
  \/ \E j \in Jobs : JobStep(j) \/ JobTick(j) \/ RunEnds(j)

Spec == Init /\ [][Next]_vars

\* Goroutines go on, functions return, tickers tick; a select does not for
\* ever prefer the ticker to the context's end.
FairSpec ==
  /\ Spec /\ WF_vars(Manager)
  /\ \A g \in Groups :
       WF_vars(GroupStep(g)) /\ WF_vars(CheckTick(g)) /\ SF_vars(LeaderOnlyEnds(g))
  /\ \A j \in Jobs : WF_vars(JobStep(j)) /\ WF_vars(RunEnds(j))
-----------------------------------------------------------------------------
(* Properties.                                                             *)

\* A job that does not allow it never runs twice at once, not even when its
\* group lost the leadership and won it again while a run was going on.
NoOverlap == \A j \in Jobs \ Overlapping : active[j] <= 1

\* When Stop has returned in time, everything the manager started is over: no
\* group, no job, no run is left, and none is still to come ("Stop waits for
\* all groups to end", manager.go:55).
Quiet ==
  /\ toStart = {} /\ toCount = {} /\ wg = {}
  /\ \A g \in Groups : group[g] = "done"
  /\ \A j \in Jobs : active[j] = 0 /\ job[j] \in {"off", "ended"}
StopQuiesces == stopper = "returned" => Quiet

\* A job of a leader_only group is at work only between startJobs and the end
\* of stopJobs. So nothing of one term of leadership is left when the next
\* begins, nothing goes on in a group that is over, and a group without an
\* elector never does anything.
OnlyLeadersRun ==
  \A g \in LeaderOnly \cup NoElector : \A j \in JobsOf[g] :
    active[j] > 0 \/ job[j] \notin {"off", "ended"} => running[g]

\* After a call of Stop everything ends, provided that the functions of the jobs
\* return, also when the call itself gave up waiting; and an instance that is not
\* the leader any more comes to have no leader_only job at work, neither a run
\* nor a loop that would start one.
JobsEnd ==
  /\ stopper = "cancel" ~> Quiet
  /\ <>[]~isLeader =>
       <>[](\A g \in LeaderOnly : \A j \in JobsOf[g] :
              active[j] = 0 /\ job[j] \in {"off", "ended"})

=============================================================================
