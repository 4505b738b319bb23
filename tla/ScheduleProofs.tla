--------------------------- MODULE ScheduleProofs ---------------------------
(***************************************************************************)
(* Proofs about Schedule, for any groups, jobs and bounds: jobs that do    *)
(* not allow it never overlap, Stop returns in time only when everything   *)
(* is over, and leader_only jobs work between startJobs and stopJobs only. *)
(***************************************************************************)
EXTENDS Schedule, TLAPS

TypeInv ==
  /\ started \in BOOLEAN /\ stopped \in BOOLEAN /\ cancelled \in BOOLEAN
  /\ starter \in {"idle", "launching", "returned"}
  /\ toStart \subseteq Groups /\ toCount \subseteq Groups /\ wg \subseteq Groups
  /\ stopper \in {"idle", "cancel", "waiting", "returned", "timedOut"}
  /\ group \in [Groups -> {"new", "jobs", "check", "wait", "stopJobs", "finish",
                           "idle", "done"}]
  /\ running \in [Groups -> BOOLEAN]
  /\ job \in [Jobs -> {"off", "begin", "loop", "draining", "ended"}]
  /\ busy \in [Jobs -> BOOLEAN]
  /\ active \in [Jobs -> Nat]

\* IntervalJob.running is taken exactly while the one run goes on, and only a loop
\* that has begun and not ended has runs.
RunInv ==
  \A j \in Jobs :
    /\ j \notin Overlapping => active[j] = (IF busy[j] THEN 1 ELSE 0)
    /\ active[j] > 0 => job[j] \in {"loop", "draining"}

AtRest(j) == job[j] \in {"off", "ended"}

\* What a group at each place of its goroutine has at work.
GroupInv ==
  /\ \A g \in Local :
       /\ group[g] \in {"new", "jobs", "done"}
       /\ group[g] = "done" => \A j \in JobsOf[g] : AtRest(j)
  /\ \A g \in LeaderOnly :
       /\ group[g] \in {"new", "check", "wait", "stopJobs", "finish", "done"}
       /\ group[g] \in {"new", "done"} => ~running[g]
       /\ ~running[g] => \A j \in JobsOf[g] : AtRest(j)
  /\ \A g \in NoElector :
       /\ group[g] \in {"new", "idle", "done"}
       /\ \A j \in JobsOf[g] : AtRest(j)
  /\ \A g \in Groups : group[g] = "new" => \A j \in JobsOf[g] : AtRest(j)
  /\ \A j \in Jobs : (\A g \in Groups : j \notin JobsOf[g]) => AtRest(j)

\* A group that Start has launched is counted, about to be counted, or over: Stop,
\* which comes after Start, has nothing to wait for only when all groups are over.
ManagerInv ==
  /\ started <=> starter # "idle"
  /\ \A g \in Groups : group[g] = "new" <=> starter = "idle" \/ g \in toStart
  /\ \A g \in Groups : group[g] \in {"new", "done"} \/ g \in toCount \cup wg
  /\ starter # "launching" => toStart = {} /\ toCount = {}
  /\ stopper # "idle" => starter = "returned"
  /\ stopper = "returned" => wg = {}

SchedInv == TypeInv /\ RunInv /\ GroupInv /\ ManagerInv

-----------------------------------------------------------------------------
LEMMA SchedInit == Init => SchedInv
  <1> SUFFICES ASSUME Init PROVE SchedInv
    OBVIOUS
  <1>1. TypeInv BY DEF Init, TypeInv
  <1>2. RunInv BY DEF Init, RunInv
  <1>3. GroupInv BY JobsAssumption DEF Init, GroupInv, AtRest, Groups
  <1>4. ManagerInv BY DEF Init, ManagerInv
  <1> QED BY <1>1, <1>2, <1>3, <1>4 DEF SchedInv

LEMMA StartStep ==
  ASSUME SchedInv, Start
  PROVE  SchedInv'
  <1> USE DEF SchedInv, Start, manager, groups, election, jobs
  <1>1. TypeInv' BY JobsAssumption DEF TypeInv
  <1>2. RunInv' BY DEF TypeInv, RunInv
  <1>3. GroupInv' BY JobsAssumption, KindsAssumption DEF TypeInv, GroupInv, AtRest, Groups
  <1>4. ManagerInv' BY DEF TypeInv, ManagerInv
  <1> QED BY <1>1, <1>2, <1>3, <1>4

LEMMA StartGroupStep ==
  ASSUME SchedInv, NEW g \in Groups, StartGroup(g)
  PROVE  SchedInv'
  <1> USE DEF SchedInv, StartGroup, BeginJobs, manager, groups, election, jobs
  <1>1. TypeInv' BY JobsAssumption DEF TypeInv
  <1>2. RunInv'
    <2>1. \A i \in JobsOf[g] : AtRest(i)
      BY DEF TypeInv, GroupInv, ManagerInv
    <2>2. \A i \in Jobs : active[i] > 0 => i \notin JobsOf[g] /\ job[i] \in {"loop", "draining"}
      BY <2>1 DEF RunInv, AtRest
    <2>3. \A i \in Jobs : i \notin JobsOf[g] => job'[i] = job[i]
      BY DEF TypeInv
    <2> QED BY <2>2, <2>3 DEF TypeInv, RunInv
  <1>3. GroupInv' BY JobsAssumption, KindsAssumption DEF TypeInv, GroupInv, AtRest, Groups
  <1>4. ManagerInv' BY DEF TypeInv, ManagerInv
  <1> QED BY <1>1, <1>2, <1>3, <1>4

LEMMA CountGroupStep ==
  ASSUME SchedInv, CountGroup
  PROVE  SchedInv'
  <1> USE DEF SchedInv, CountGroup, manager, groups, election, jobs
  <1>1. TypeInv' BY JobsAssumption DEF TypeInv
  <1>2. RunInv' BY DEF TypeInv, RunInv
  <1>3. GroupInv' BY JobsAssumption, KindsAssumption DEF TypeInv, GroupInv, AtRest, Groups
  <1>4. ManagerInv' BY DEF TypeInv, ManagerInv
  <1> QED BY <1>1, <1>2, <1>3, <1>4

LEMMA StartReturnsStep ==
  ASSUME SchedInv, StartReturns
  PROVE  SchedInv'
  <1> USE DEF SchedInv, StartReturns, manager, groups, election, jobs
  <1>1. TypeInv' BY JobsAssumption DEF TypeInv
  <1>2. RunInv' BY DEF TypeInv, RunInv
  <1>3. GroupInv' BY JobsAssumption, KindsAssumption DEF TypeInv, GroupInv, AtRest, Groups
  <1>4. ManagerInv' BY DEF TypeInv, ManagerInv
  <1> QED BY <1>1, <1>2, <1>3, <1>4

LEMMA GroupWaitedStep ==
  ASSUME SchedInv, NEW g \in Groups, GroupWaited(g)
  PROVE  SchedInv'
  <1> USE DEF SchedInv, GroupWaited, manager, groups, election, jobs
  <1>1. TypeInv' BY JobsAssumption DEF TypeInv
  <1>2. RunInv' BY DEF TypeInv, RunInv
  <1>3. GroupInv' BY JobsAssumption, KindsAssumption DEF TypeInv, GroupInv, AtRest, Groups
  <1>4. ManagerInv' BY DEF TypeInv, ManagerInv
  <1> QED BY <1>1, <1>2, <1>3, <1>4

LEMMA StopStep ==
  ASSUME SchedInv, Stop
  PROVE  SchedInv'
  <1> USE DEF SchedInv, Stop, manager, groups, election, jobs
  <1>1. TypeInv' BY JobsAssumption DEF TypeInv
  <1>2. RunInv' BY DEF TypeInv, RunInv
  <1>3. GroupInv' BY JobsAssumption, KindsAssumption DEF TypeInv, GroupInv, AtRest, Groups
  <1>4. ManagerInv' BY DEF TypeInv, ManagerInv
  <1> QED BY <1>1, <1>2, <1>3, <1>4

LEMMA StopCancelsStep ==
  ASSUME SchedInv, StopCancels
  PROVE  SchedInv'
  <1> USE DEF SchedInv, StopCancels, Cancelled, manager, groups, election, jobs
  <1>1. TypeInv' BY JobsAssumption DEF TypeInv
  <1>2. RunInv' BY DEF TypeInv, RunInv
  <1>3. GroupInv' BY JobsAssumption, KindsAssumption DEF TypeInv, GroupInv, AtRest, Groups
  <1>4. ManagerInv' BY DEF TypeInv, ManagerInv
  <1> QED BY <1>1, <1>2, <1>3, <1>4

LEMMA StopReturnsStep ==
  ASSUME SchedInv, StopReturns
  PROVE  SchedInv'
  <1> USE DEF SchedInv, StopReturns, manager, groups, election, jobs
  <1>1. TypeInv' BY JobsAssumption DEF TypeInv
  <1>2. RunInv' BY DEF TypeInv, RunInv
  <1>3. GroupInv' BY JobsAssumption, KindsAssumption DEF TypeInv, GroupInv, AtRest, Groups
  <1>4. ManagerInv' BY DEF TypeInv, ManagerInv
  <1> QED BY <1>1, <1>2, <1>3, <1>4

LEMMA StopTimesOutStep ==
  ASSUME SchedInv, StopTimesOut
  PROVE  SchedInv'
  <1> USE DEF SchedInv, StopTimesOut, manager, groups, election, jobs
  <1>1. TypeInv' BY JobsAssumption DEF TypeInv
  <1>2. RunInv' BY DEF TypeInv, RunInv
  <1>3. GroupInv' BY JobsAssumption, KindsAssumption DEF TypeInv, GroupInv, AtRest, Groups
  <1>4. ManagerInv' BY DEF TypeInv, ManagerInv
  <1> QED BY <1>1, <1>2, <1>3, <1>4

LEMMA CancelRunStep ==
  ASSUME SchedInv, CancelRun
  PROVE  SchedInv'
  <1> USE DEF SchedInv, CancelRun, manager, groups, election, jobs
  <1>1. TypeInv' BY JobsAssumption DEF TypeInv
  <1>2. RunInv' BY DEF TypeInv, RunInv
  <1>3. GroupInv' BY JobsAssumption, KindsAssumption DEF TypeInv, GroupInv, AtRest, Groups
  <1>4. ManagerInv' BY DEF TypeInv, ManagerInv
  <1> QED BY <1>1, <1>2, <1>3, <1>4

LEMMA ChangeLeaderStep ==
  ASSUME SchedInv, ChangeLeader
  PROVE  SchedInv'
  <1> USE DEF SchedInv, ChangeLeader, manager, groups, election, jobs
  <1>1. TypeInv' BY JobsAssumption DEF TypeInv
  <1>2. RunInv' BY DEF TypeInv, RunInv
  <1>3. GroupInv' BY JobsAssumption, KindsAssumption DEF TypeInv, GroupInv, AtRest, Groups
  <1>4. ManagerInv' BY DEF TypeInv, ManagerInv
  <1> QED BY <1>1, <1>2, <1>3, <1>4

LEMMA LocalEndsStep ==
  ASSUME SchedInv, NEW g \in Groups, LocalEnds(g)
  PROVE  SchedInv'
  <1> USE DEF SchedInv, LocalEnds, JobsEnded, GroupDone,
          manager, groups, election, jobs
  <1>1. TypeInv' BY JobsAssumption DEF TypeInv
  <1>2. RunInv' BY DEF TypeInv, RunInv
  <1>3. GroupInv' BY JobsAssumption, KindsAssumption DEF TypeInv, GroupInv, AtRest, Groups
  <1>4. ManagerInv' BY DEF TypeInv, ManagerInv
  <1> QED BY <1>1, <1>2, <1>3, <1>4

LEMMA CheckLeaderStep ==
  ASSUME SchedInv, NEW g \in Groups, CheckLeader(g)
  PROVE  SchedInv'
  <1> USE DEF SchedInv, CheckLeader, BeginJobs, LeadershipLost, StopJobs,
          manager, groups, election, jobs
  <1>1. TypeInv' BY JobsAssumption DEF TypeInv
  <1>2. RunInv'
    <2>1. CASE isLeader /\ ~running[g]
      <3>1. g \in LeaderOnly
        BY DEF GroupInv, Groups
      <3>2. \A i \in JobsOf[g] : AtRest(i)
        BY <2>1, <3>1 DEF GroupInv
      <3>3. \A i \in Jobs : active[i] > 0 => i \notin JobsOf[g] /\ job[i] \in {"loop", "draining"}
        BY <3>2 DEF RunInv, AtRest
      <3>4. \A i \in Jobs : i \notin JobsOf[g] => job'[i] = job[i]
        BY <2>1 DEF TypeInv
      <3> QED BY <3>3, <3>4 DEF TypeInv, RunInv
    <2>2. CASE ~(isLeader /\ ~running[g])
      BY <2>2 DEF TypeInv, RunInv
    <2> QED BY <2>1, <2>2
  <1>3. GroupInv' BY JobsAssumption, KindsAssumption DEF TypeInv, GroupInv, AtRest, Groups
  <1>4. ManagerInv' BY DEF TypeInv, ManagerInv
  <1> QED BY <1>1, <1>2, <1>3, <1>4

LEMMA CheckTickStep ==
  ASSUME SchedInv, NEW g \in Groups, CheckTick(g)
  PROVE  SchedInv'
  <1> USE DEF SchedInv, CheckTick, manager, groups, election, jobs
  <1>1. TypeInv' BY JobsAssumption DEF TypeInv
  <1>2. RunInv' BY DEF TypeInv, RunInv
  <1>3. GroupInv' BY JobsAssumption, KindsAssumption DEF TypeInv, GroupInv, AtRest, Groups
  <1>4. ManagerInv' BY DEF TypeInv, ManagerInv
  <1> QED BY <1>1, <1>2, <1>3, <1>4

LEMMA LeaderOnlyEndsStep ==
  ASSUME SchedInv, NEW g \in Groups, LeaderOnlyEnds(g)
  PROVE  SchedInv'
  <1> USE DEF SchedInv, LeaderOnlyEnds, StopJobs, GroupDone,
          manager, groups, election, jobs
  <1>1. TypeInv' BY JobsAssumption DEF TypeInv
  <1>2. RunInv' BY DEF TypeInv, RunInv
  <1>3. GroupInv' BY JobsAssumption, KindsAssumption DEF TypeInv, GroupInv, AtRest, Groups
  <1>4. ManagerInv' BY DEF TypeInv, ManagerInv
  <1> QED BY <1>1, <1>2, <1>3, <1>4

LEMMA JobsStoppedStep ==
  ASSUME SchedInv, NEW g \in Groups, JobsStopped(g)
  PROVE  SchedInv'
  <1> USE DEF SchedInv, JobsStopped, JobsEnded, GroupDone,
          manager, groups, election, jobs
  <1>1. TypeInv' BY JobsAssumption DEF TypeInv
  <1>2. RunInv' BY DEF TypeInv, RunInv
  <1>3. GroupInv' BY JobsAssumption, KindsAssumption DEF TypeInv, GroupInv, AtRest, Groups
  <1>4. ManagerInv' BY DEF TypeInv, ManagerInv
  <1> QED BY <1>1, <1>2, <1>3, <1>4

LEMMA JobBeginsStep ==
  ASSUME SchedInv, NEW j \in Jobs, JobBegins(j)
  PROVE  SchedInv'
  <1> USE DEF SchedInv, JobBegins, StartRun, MayRun,
          manager, groups, election, jobs
  <1>1. TypeInv'
    <2>1. active[j] + 1 \in Nat /\ (j \notin Overlapping) \in BOOLEAN
      BY DEF TypeInv
    <2>2. active' \in [Jobs -> Nat] /\ busy' \in [Jobs -> BOOLEAN]
      BY <2>1 DEF TypeInv
    <2> QED BY <2>2 DEF TypeInv
  <1>2. RunInv'
    <2> SUFFICES ASSUME NEW i \in Jobs
                 PROVE  /\ i \notin Overlapping => active'[i] = (IF busy'[i] THEN 1 ELSE 0)
                        /\ active'[i] > 0 => job'[i] \in {"loop", "draining"}
      BY DEF RunInv
    <2>1. active[i] \in Nat /\ busy[i] \in BOOLEAN
      BY DEF TypeInv
    <2>2. /\ i \notin Overlapping => active[i] = (IF busy[i] THEN 1 ELSE 0)
          /\ active[i] > 0 => job[i] \in {"loop", "draining"}
      BY DEF RunInv
    <2>3. job'[i] = (IF i = j THEN "loop" ELSE job[i])
      BY DEF TypeInv
    <2>4. CASE UNCHANGED <<busy, active>>
      BY <2>2, <2>3, <2>4
    <2>5. CASE StartRun(j)
      <3>1. /\ active'[i] = (IF i = j THEN active[i] + 1 ELSE active[i])
            /\ busy'[i] = (IF i = j THEN (i \notin Overlapping) ELSE busy[i])
        BY <2>5 DEF TypeInv
      <3>2. i \in Overlapping \/ ~busy[i] \/ i # j
        BY <2>5
      <3>3. CASE i = j
        <4>1. i \notin Overlapping => active[i] = 0
          BY <2>2, <3>2, <3>3
        <4>2. i \notin Overlapping => active'[i] = 1
          BY <3>1, <3>3, <4>1
        <4>3. busy'[i] = (i \notin Overlapping)
          BY <3>1, <3>3
        <4>4. i \notin Overlapping => busy'[i]
          BY <4>3, Zenon
        <4> QED BY <2>3, <3>3, <4>2, <4>4
      <3> QED BY <2>2, <2>3, <3>1, <3>3
    <2> QED BY <2>4, <2>5
  <1>3. GroupInv' BY JobsAssumption, KindsAssumption DEF TypeInv, GroupInv, AtRest, Groups
  <1>4. ManagerInv' BY DEF TypeInv, ManagerInv
  <1> QED BY <1>1, <1>2, <1>3, <1>4

LEMMA JobTickStep ==
  ASSUME SchedInv, NEW j \in Jobs, JobTick(j)
  PROVE  SchedInv'
  <1> USE DEF SchedInv, JobTick, StartRun, MayRun, manager, groups, election, jobs
  <1>1. TypeInv' BY JobsAssumption DEF TypeInv
  <1>2. RunInv'
    <2> SUFFICES ASSUME NEW i \in Jobs
                 PROVE  /\ i \notin Overlapping => active'[i] = (IF busy'[i] THEN 1 ELSE 0)
                        /\ active'[i] > 0 => job'[i] \in {"loop", "draining"}
      BY DEF RunInv
    <2>1. active[i] \in Nat /\ busy[i] \in BOOLEAN
      BY DEF TypeInv
    <2>2. /\ i \notin Overlapping => active[i] = (IF busy[i] THEN 1 ELSE 0)
          /\ active[i] > 0 => job[i] \in {"loop", "draining"}
      BY DEF RunInv
    <2>3. /\ active'[i] = (IF i = j THEN active[i] + 1 ELSE active[i])
          /\ busy'[i] = (IF i = j THEN (i \notin Overlapping) ELSE busy[i])
      BY DEF TypeInv
    <2>4. CASE i = j
      <3>1. i \notin Overlapping => active[i] = 0
        BY <2>2, <2>4
      <3>2. i \notin Overlapping => active'[i] = 1
        BY <2>3, <2>4, <3>1
      <3>3. busy'[i] = (i \notin Overlapping)
        BY <2>3, <2>4
      <3>4. i \notin Overlapping => busy'[i]
        BY <3>3, Zenon
      <3>5. job'[i] = "loop"
        BY <2>4
      <3> QED BY <3>2, <3>4, <3>5
    <2> QED BY <2>2, <2>3, <2>4
  <1>3. GroupInv' BY JobsAssumption, KindsAssumption DEF TypeInv, GroupInv, AtRest, Groups
  <1>4. ManagerInv' BY DEF TypeInv, ManagerInv
  <1> QED BY <1>1, <1>2, <1>3, <1>4

LEMMA RunEndsStep ==
  ASSUME SchedInv, NEW j \in Jobs, RunEnds(j)
  PROVE  SchedInv'
  <1> USE DEF SchedInv, RunEnds, Done, manager, groups, election, jobs
  <1>1. TypeInv' BY JobsAssumption DEF TypeInv
  <1>2. RunInv' BY DEF TypeInv, RunInv
  <1>3. GroupInv' BY JobsAssumption, KindsAssumption DEF TypeInv, GroupInv, AtRest, Groups
  <1>4. ManagerInv' BY DEF TypeInv, ManagerInv
  <1> QED BY <1>1, <1>2, <1>3, <1>4

LEMMA JobContextDoneStep ==
  ASSUME SchedInv, NEW j \in Jobs, JobContextDone(j)
  PROVE  SchedInv'
  <1> USE DEF SchedInv, JobContextDone, manager, groups, election, jobs
  <1>1. TypeInv' BY JobsAssumption DEF TypeInv
  <1>2. RunInv' BY DEF TypeInv, RunInv
  <1>3. GroupInv' BY JobsAssumption, KindsAssumption DEF TypeInv, GroupInv, AtRest, Groups
  <1>4. ManagerInv' BY DEF TypeInv, ManagerInv
  <1> QED BY <1>1, <1>2, <1>3, <1>4

LEMMA JobEndsStep ==
  ASSUME SchedInv, NEW j \in Jobs, JobEnds(j)
  PROVE  SchedInv'
  <1> USE DEF SchedInv, JobEnds, RunsOver, manager, groups, election, jobs
  <1>1. TypeInv' BY JobsAssumption DEF TypeInv
  <1>2. RunInv' BY DEF TypeInv, RunInv
  <1>3. GroupInv' BY JobsAssumption, KindsAssumption DEF TypeInv, GroupInv, AtRest, Groups
  <1>4. ManagerInv' BY DEF TypeInv, ManagerInv
  <1> QED BY <1>1, <1>2, <1>3, <1>4

LEMMA SchedNext == ASSUME SchedInv, [Next]_vars PROVE SchedInv'
  <1>1. CASE UNCHANGED vars
    <2> USE <1>1 DEF SchedInv, vars, manager, groups, election, jobs
    <2>1. TypeInv' BY DEF TypeInv
    <2>2. RunInv' BY DEF RunInv
    <2>3. GroupInv' BY DEF GroupInv, AtRest
    <2>4. ManagerInv' BY DEF ManagerInv
    <2> QED BY <2>1, <2>2, <2>3, <2>4
  <1>2. CASE Manager
    BY <1>2, StartStep, CountGroupStep, StartReturnsStep, StopCancelsStep, StopReturnsStep,
       StartGroupStep, GroupWaitedStep DEF Manager
  <1>3. CASE Stop \/ StopTimesOut \/ CancelRun \/ ChangeLeader
    BY <1>3, StopStep, StopTimesOutStep, CancelRunStep, ChangeLeaderStep
  <1>4. CASE \E g \in Groups : GroupStep(g) \/ CheckTick(g) \/ LeaderOnlyEnds(g)
    BY <1>4, LocalEndsStep, CheckLeaderStep, JobsStoppedStep, CheckTickStep,
       LeaderOnlyEndsStep DEF GroupStep
  <1>5. CASE \E j \in Jobs : JobStep(j) \/ JobTick(j) \/ RunEnds(j)
    BY <1>5, JobBeginsStep, JobContextDoneStep, JobEndsStep, JobTickStep, RunEndsStep
    DEF JobStep
  <1> QED BY <1>1, <1>2, <1>3, <1>4, <1>5 DEF Next

\* The manager's WaitGroup, the groups' goroutines and the jobs' loops stay in step
\* through every interleaving of starts, stops, ticks and changes of leadership.
THEOREM SchedInvariant == Spec => []SchedInv
  <1> QED BY SchedInit, SchedNext, PTL DEF Spec

-----------------------------------------------------------------------------
\* The compare-and-swap of startRun excludes overlapping runs of a job also over a
\* restart of its loop, because a loop waits for its runs before it ends.
THEOREM JobsNeverOverlap == Spec => []NoOverlap
  <1>1. SchedInv => NoOverlap
    <2> SUFFICES ASSUME SchedInv, NEW j \in Jobs \ Overlapping PROVE active[j] <= 1
      BY DEF NoOverlap
    <2>1. active[j] \in {0, 1}
      BY DEF SchedInv, RunInv
    <2> QED BY <2>1
  <1> QED BY <1>1, SchedInvariant, PTL

\* A Stop that returns in time leaves no group, no job and no run behind: each group
\* is counted before Start returns, and is done only when its jobs are at rest.
THEOREM StopIsQuiescent == Spec => []StopQuiesces
  <1>1. SchedInv => StopQuiesces
    <2> SUFFICES ASSUME SchedInv, stopper = "returned" PROVE Quiet
      BY DEF StopQuiesces
    <2>1. toStart = {} /\ toCount = {} /\ wg = {} /\ starter = "returned"
      BY DEF SchedInv, ManagerInv
    <2>2. \A g \in Groups : group[g] = "done"
      BY <2>1 DEF SchedInv, TypeInv, ManagerInv
    <2>3. \A g \in Groups : \A j \in JobsOf[g] : AtRest(j)
      BY <2>2 DEF SchedInv, GroupInv, Groups
    <2>4. \A j \in Jobs : AtRest(j)
      BY <2>3 DEF SchedInv, GroupInv
    <2>5. \A j \in Jobs : active[j] = 0
      BY <2>4 DEF SchedInv, TypeInv, RunInv, AtRest
    <2> QED BY <2>1, <2>2, <2>4, <2>5 DEF Quiet, AtRest
  <1> QED BY <1>1, SchedInvariant, PTL

\* A leader_only job is at work only between startJobs and the end of stopJobs, and
\* one of a group without an elector never is.
THEOREM LeadersOnly == Spec => []OnlyLeadersRun
  <1>1. SchedInv => OnlyLeadersRun
    <2> SUFFICES ASSUME SchedInv, NEW g \in LeaderOnly \cup NoElector, NEW j \in JobsOf[g],
                        active[j] > 0 \/ ~AtRest(j)
                 PROVE  running[g]
      BY DEF OnlyLeadersRun, AtRest
    <2>1. j \in Jobs /\ g \in Groups
      BY JobsAssumption DEF Groups
    <2>2. ~AtRest(j)
      BY <2>1 DEF SchedInv, RunInv, AtRest
    <2>3. g \notin NoElector
      BY <2>2 DEF SchedInv, GroupInv
    <2> QED BY <2>1, <2>2, <2>3 DEF SchedInv, TypeInv, GroupInv
  <1> QED BY <1>1, SchedInvariant, PTL

=============================================================================
