---------------------------- MODULE RuntimeStore ----------------------------
(***************************************************************************)
(* The runtime store (src/runtime): one update thread that applies a       *)
(* configuration to the running objects (cold start, delta update,         *)
(* shutdown), concurrent with receivers that dispatch packets through the  *)
(* selector snapshots compiled for them.                                   *)
(*                                                                         *)
(* The update thread keeps a map per kind of object (receivers, senders,   *)
(* tasks, selectors, task sets, pipelines). The objects themselves outlive *)
(* their map entry: a replaced receiver still dispatches, a removed task   *)
(* still drains, a replaced sender is still held by a task. An update      *)
(* builds at most one object per name, so an object is identified by       *)
(* <<name, number of the update that built it>>.                           *)
(*                                                                         *)
(* A task is the gate of TaskGate (proved of Task): it lets packets in     *)
(* while open, and it is shut when StopGraceful has waited for them.       *)
(* Only the update thread touches the maps, so several of its lock         *)
(* sections between two effects other goroutines can see are one action.   *)
(* The stage cache is a map of the same thread: from the signature of a    *)
(* stage, which is its configuration, to the names of tasks that refer to  *)
(* it (TaskRefs is their number).                                          *)
(*                                                                         *)
(* "Mistake:" marks a definition that is not part of the model but the one *)
(* after it with a programming error a property has to detect.             *)
(***************************************************************************)
EXTENDS Integers, FiniteSets, Functions

CONSTANTS
  Configs,     \* the business configurations that may be loaded
  Keys,        \* match keys receivers compute
  Packets,     \* packets received
  MaxUpdates,  \* bound on the number of updates, cold start included
  Faults,      \* which builders may return an error
  None

\* What config.Validate guarantees of a configuration that reaches UpdateCache.
ValidConfig(c) ==
  /\ DOMAIN c.tasks # {}
  /\ \A t \in DOMAIN c.tasks :
       /\ c.tasks[t].senders # {} /\ c.tasks[t].senders \subseteq DOMAIN c.senders
       /\ c.tasks[t].pipelines \subseteq DOMAIN c.pipelines
  /\ \A ts \in DOMAIN c.taskSets :
       c.taskSets[ts] # {} /\ c.taskSets[ts] \subseteq DOMAIN c.tasks
  /\ \A s \in DOMAIN c.selectors :
       /\ DOMAIN c.selectors[s].matches \subseteq Keys
       /\ \A k \in DOMAIN c.selectors[s].matches :
            c.selectors[s].matches[k] \in DOMAIN c.taskSets
       /\ c.selectors[s].default \in DOMAIN c.taskSets \cup {None}
  /\ \A r \in DOMAIN c.receivers : c.receivers[r].selector \in DOMAIN c.selectors

\* The sections of a configuration are maps with finitely many entries.
IsMap(f) == f = [n \in DOMAIN f |-> f[n]]
ConfigMaps(c) ==
  /\ IsMap(c.senders) /\ IsMap(c.pipelines) /\ IsMap(c.tasks)
  /\ IsMap(c.taskSets) /\ IsMap(c.selectors) /\ IsMap(c.receivers)
  /\ IsFiniteSet(DOMAIN c.tasks)

ASSUME ConfigsAssumption == \A c \in Configs : ValidConfig(c) /\ ConfigMaps(c)
ASSUME BoundsAssumption ==
  MaxUpdates \in Nat /\ Faults \subseteq {"pipeline", "receiver", "sender"}

Gens == 1..MaxUpdates
SenderNames   == UNION {DOMAIN c.senders   : c \in Configs}
TaskNames     == UNION {DOMAIN c.tasks     : c \in Configs}
ReceiverNames == UNION {DOMAIN c.receivers : c \in Configs}
SenderIds   == SenderNames \X Gens
TaskIds     == TaskNames \X Gens
ReceiverIds == ReceiverNames \X Gens

\* What planBusinessDelta returns: the sections that change, and the tasks to
\* remove and to add.
Plans == [receivers : BOOLEAN, routing : BOOLEAN, senders : BOOLEAN,
          pipelines : BOOLEAN, removed : SUBSET TaskNames, added : SUBSET TaskNames]

ASSUME NoneAssumption == None \notin TaskIds \cup ReceiverIds \cup Plans

VARIABLES
  receivers,  \* st.receivers: name -> [cfg, gen]
  selectors,  \* st.selectors
  taskSets,   \* st.taskSets
  senders,    \* st.senders: name -> [cfg, gen, refs]
  tasks,      \* st.tasks: name -> [cfg, gen]
  pipelines,  \* st.pipelineCfg, and with it st.pipelines and pipelineStageSigs
  stageCache, \* st.stageCache: signature -> names of tasks
  snd,        \* sender objects: "unbuilt", "open", "closing" (go Close), "closed"
  gate,       \* task objects: "none", "open", "closing", "shut"
  uses,       \* uses[t]: the sender objects in Task.Senders
  runs,       \* runs[t]: the pipelines the task was built with
  inside,     \* inside[t]: the packets admitted by the task and not finished
  phase,      \* receiver objects: "none", "built", "starting" (startReceiver's
              \* goroutine exists, Start not called), "running", "stopped"
  routes,     \* routes[r]: the compiled selector of the receiver, by key
  stopCalls,  \* receivers with a pending "go Stop"
  pc,         \* where the update thread is
  gen,        \* number of updates begun
  next,       \* the configuration being applied, or applied last
  plan,       \* the businessDeltaPlan of the update
  built,      \* receivers built and not yet committed
  toClose,    \* senderClosers
  busy,       \* the task being stopped
  result,     \* of the last update: "none", "running", "ok", "failed"
  before,     \* what was in effect when the update began (history)
  failures,   \* some update failed (history)
  todo        \* todo[p]: task objects a dispatch still has to call Handle of

maps == <<receivers, selectors, taskSets, senders, tasks, pipelines>>
store == <<maps, stageCache>>
taskHeap == <<gate, uses, runs, inside>>
recvHeap == <<phase, routes, stopCalls>>
update == <<gen, next, plan, before>>
vars == <<receivers, selectors, taskSets, senders, tasks, pipelines, snd, gate,
          uses, runs, inside, phase, routes, stopCalls, pc, gen, next, plan,
          built, toClose, busy, result, before, failures, todo, stageCache>>

-----------------------------------------------------------------------------
Empty == [n \in {} |-> None]
With(f, g) == [n \in DOMAIN f \cup DOMAIN g |-> IF n \in DOMAIN g THEN g[n] ELSE f[n]]
Without(f, S) == Restrict(f, DOMAIN f \ S)

\* The objects registered under the names of a map.
Objects(m) == {<<n, m[n].gen>> : n \in DOMAIN m}
SetObjects(f, S, v) == [i \in DOMAIN f |-> IF i \in S THEN v ELSE f[i]]

Cfgs(m) == [n \in DOMAIN m |-> m[n].cfg]

\* splitDeltaWithReplace: a change counts as removed and added.
AddedIn(old, new) ==
  {n \in DOMAIN new : ~(n \in DOMAIN old /\ old[n] = new[n])}
RemovedIn(old, new) ==
  {n \in DOMAIN old : ~(n \in DOMAIN new /\ old[n] = new[n])}
ChangedIn(old, new) == AddedIn(old, new) \cup RemovedIn(old, new)

\* Mistake: a changed sender does not rebuild the tasks that use it.
DependentsOfPipelines(old, new, changedSenders, changedPipelines) ==
  {n \in DOMAIN old \cap DOMAIN new : \E tc \in {old[n], new[n]} :
     tc.pipelines \cap changedPipelines # {}}

\* Mistake: any change of a sender rebuilds every task.
DependentsAll(old, new, changedSenders, changedPipelines) ==
  IF changedSenders = {} THEN {} ELSE DOMAIN old \cap DOMAIN new

\* expandTaskDeltaForSenderChanges, ...PipelineChanges: tasks that stay but use
\* something that changed are rebuilt.
Dependents(old, new, changedSenders, changedPipelines) ==
  {n \in DOMAIN old \cap DOMAIN new : \E tc \in {old[n], new[n]} :
     \/ tc.senders \cap changedSenders # {}
     \/ tc.pipelines \cap changedPipelines # {}}

planBusinessDelta(c) ==
  LET old == Cfgs(tasks)
      changedSenders == ChangedIn(Cfgs(senders), c.senders)
      changedPipelines == ChangedIn(pipelines, c.pipelines)
      rebuilt == Dependents(old, c.tasks, changedSenders, changedPipelines)
  IN  [receivers |-> ChangedIn(Cfgs(receivers), c.receivers) # {},
       routing   |-> \/ ChangedIn(selectors, c.selectors) # {}
                     \/ ChangedIn(taskSets, c.taskSets) # {},
       senders   |-> changedSenders # {},
       pipelines |-> changedPipelines # {},
       removed   |-> RemovedIn(old, c.tasks) \cup rebuilt,
       added     |-> AddedIn(old, c.tasks) \cup rebuilt]

\* selector.Compiled.Match: the task set of a key, or None.
Match(sel, k) == IF k \in DOMAIN sel.matches THEN sel.matches[k] ELSE sel.default

\* resolveTaskSetStates: a missing task set is an empty one, a missing task an
\* error.
TasksOfSet(sets, ts) == IF ts \in DOMAIN sets THEN sets[ts] ELSE {}
Resolvable(tks, sels, sets) ==
  \A s \in DOMAIN sels :
    /\ \A k \in DOMAIN sels[s].matches :
         TasksOfSet(sets, sels[s].matches[k]) \subseteq DOMAIN tks
    /\ TasksOfSet(sets, sels[s].default) \subseteq DOMAIN tks

CompiledSelector(tks, sels, sets, s) ==
  [k \in Keys |->
     IF s \in DOMAIN sels
     THEN {<<n, tks[n].gen>> : n \in TasksOfSet(sets, Match(sels[s], k))}
     ELSE {}]

\* rebuildReceiverSelectors stores a snapshot in every receiver of the map.
Rebuilt(rcvs, tks, sels, sets) ==
  [i \in ReceiverIds |->
     IF i \in Objects(rcvs)
     THEN CompiledSelector(tks, sels, sets, rcvs[i[1]].cfg.selector)
     ELSE routes[i]]

\* The stage cache. compilePipelinesWithStageCache adds what it does not find.
Compiled(cache, cfgs) ==
  With([sig \in UNION {Range(cfgs[p]) : p \in DOMAIN cfgs} |-> {}], cache)

\* Tasks refer to the stages the pipelines have now; those the cache does not
\* hold are passed over.
StagesOf(tc, pipes) == UNION {Range(pipes[p]) : p \in tc.pipelines \cap DOMAIN pipes}
Retained(cache, cfgs, pipes) ==
  [sig \in DOMAIN cache |->
     cache[sig] \cup {n \in DOMAIN cfgs : sig \in StagesOf(cfgs[n], pipes)}]
Released(cache, n) ==
  [sig \in DOMAIN cache |->
     IF sig \in StagesOf(tasks[n].cfg, pipelines) THEN cache[sig] \ {n} ELSE cache[sig]]

\* gcUnusedStageCache.
Collected(cache) == Restrict(cache, {sig \in DOMAIN cache : cache[sig] # {}})

\* rebuildStageTaskRefs.
Recounted(cache) == Retained([sig \in DOMAIN cache |-> {}], Cfgs(tasks), pipelines)

\* Receiver.Stop on a set of receivers: Start must have installed the means to
\* stop it, or Stop returns without effect.
Stopped(S) ==
  [i \in ReceiverIds |->
     IF i \in S /\ phase[i] = "running" THEN "stopped" ELSE phase[i]]

\* What packets experience: the live objects and the routes between them.
Effective ==
  [receivers |-> receivers, senders |-> senders, tasks |-> tasks,
   pipelines |-> pipelines, open |-> {i \in SenderIds : snd[i] = "open"},
   accepting |-> {i \in TaskIds : gate[i] = "open"},
   routes |-> [i \in Objects(receivers) |-> routes[i]]]

-----------------------------------------------------------------------------
Init ==
  /\ receivers = Empty /\ selectors = Empty /\ taskSets = Empty
  /\ senders = Empty /\ tasks = Empty /\ pipelines = Empty /\ stageCache = Empty
  /\ snd = [i \in SenderIds |-> "unbuilt"]
  /\ gate = [i \in TaskIds |-> "none"]
  /\ uses = [i \in TaskIds |-> {}]
  /\ runs = [i \in TaskIds |-> Empty]
  /\ inside = [i \in TaskIds |-> {}]
  /\ phase = [i \in ReceiverIds |-> "none"]
  /\ routes = [i \in ReceiverIds |-> [k \in Keys |-> {}]]
  /\ stopCalls = {}
  /\ pc = "idle" /\ gen = 0 /\ next = None /\ plan = None
  /\ built = Empty /\ toClose = {} /\ busy = None
  /\ result = "none" /\ before = None /\ failures = FALSE
  /\ todo = [p \in Packets |-> None]

\* UpdateCache: an empty store is filled by replaceAll, any other by
\* applyBusinessDelta, which first compares it with the new configuration.
UpdateCache(c) ==
  /\ pc = "idle" /\ gen < MaxUpdates
  /\ gen' = gen + 1
  /\ next' = c
  /\ result' = "running"
  /\ before' = Effective
  /\ IF DOMAIN receivers \cup DOMAIN senders \cup DOMAIN tasks = {}
     THEN pc' = "replaceAll" /\ plan' = None
     ELSE pc' = "prepare" /\ plan' = planBusinessDelta(c)
  /\ UNCHANGED <<store, snd, taskHeap, recvHeap, built, toClose, busy, failures,
                 todo>>

\* An error return. Run answers a failed cold start by StopAll, a failed reload
\* by going on.
Fail ==
  /\ pc' = IF plan = None THEN "stopReceivers" ELSE "idle"
  /\ result' = "failed"
  /\ failures' = TRUE
  /\ built' = Empty

-----------------------------------------------------------------------------
(* replaceAll: nothing else runs before its receivers are started.         *)

InstallSenders(S) ==
  /\ senders' = [n \in S |->
       [cfg |-> next.senders[n], gen |-> gen,
        refs |-> Cardinality({t \in DOMAIN tasks' : n \in next.tasks[t].senders})]]
  /\ snd' = SetObjects(snd, S \X {gen}, "open")

InstallTasks(T) ==
  /\ tasks' = [n \in T |-> [cfg |-> next.tasks[n], gen |-> gen]]
  /\ gate' = SetObjects(gate, T \X {gen}, "open")
  /\ uses' = [i \in TaskIds |-> IF i \in T \X {gen}
                                THEN next.tasks[i[1]].senders \X {gen} ELSE uses[i]]
  /\ runs' = [i \in TaskIds |-> IF i \in T \X {gen}
                THEN Restrict(next.pipelines, next.tasks[i[1]].pipelines) ELSE runs[i]]
  /\ stageCache' = Retained(Collected(Compiled(stageCache, next.pipelines)),
                            Restrict(next.tasks, T), next.pipelines)

InstallReceivers(R, ph) ==
  /\ receivers' = [n \in R |-> [cfg |-> next.receivers[n], gen |-> gen]]
  /\ phase' = SetObjects(phase, R \X {gen}, ph)

InstallRouting ==
  selectors' = next.selectors /\ taskSets' = next.taskSets
    /\ pipelines' = next.pipelines

ReplaceAll ==
  /\ pc = "replaceAll"
  /\ InstallRouting
  /\ InstallTasks(DOMAIN next.tasks)
  /\ InstallSenders(DOMAIN next.senders)
  /\ InstallReceivers(DOMAIN next.receivers, "starting")
  /\ routes' = Rebuilt(receivers', tasks', selectors', taskSets')
  /\ pc' = "idle" /\ result' = "ok"
  /\ UNCHANGED <<inside, stopCalls, update, built, toClose, busy, failures, todo>>

\* The error returns of replaceAll leave what was built so far in the store: no
\* pipelines, some of the senders, or all tasks and some of the receivers.
ReplaceAllFails ==
  /\ pc = "replaceAll"
  /\ \/ /\ "pipeline" \in Faults
        /\ UNCHANGED <<store, snd, gate, uses, runs, phase>>
     \/ /\ "sender" \in Faults
        /\ InstallRouting
        /\ InstallTasks({})
        /\ \E S \in SUBSET DOMAIN next.senders :
             S # DOMAIN next.senders /\ InstallSenders(S)
        /\ InstallReceivers({}, "built")
     \/ /\ "receiver" \in Faults
        /\ InstallRouting
        /\ InstallTasks(DOMAIN next.tasks)
        /\ InstallSenders(DOMAIN next.senders)
        /\ \E R \in SUBSET DOMAIN next.receivers :
             R # DOMAIN next.receivers /\ InstallReceivers(R, "built")
  /\ Fail
  /\ UNCHANGED <<inside, routes, stopCalls, update, toClose, busy, todo>>

-----------------------------------------------------------------------------
(* applyBusinessDelta.                                                     *)

\* compilePipelinesWithStageCache and prepareReceiverDelta build new pipelines
\* and receivers aside; an error of either returns before anything is published.
Prepare ==
  /\ pc = "prepare"
  /\ LET changed == IF plan.receivers
                    THEN AddedIn(Cfgs(receivers), next.receivers) ELSE {}
     IN  /\ built' = [n \in changed |-> [cfg |-> next.receivers[n], gen |-> gen]]
         /\ phase' = SetObjects(phase, changed \X {gen}, "built")
  /\ stageCache' = IF plan.pipelines THEN Compiled(stageCache, next.pipelines) ELSE stageCache
  /\ pc' = "publish"
  /\ UNCHANGED <<maps, snd, taskHeap, routes, stopCalls, update, toClose, busy,
                 result, failures, todo>>

\* Stages compiled before the one that failed are taken back. Receivers built
\* before the one that failed are dropped without a Stop, the stages stay.
PrepareFails ==
  /\ pc = "prepare"
  /\ \/ "pipeline" \in Faults /\ plan.pipelines /\ UNCHANGED <<phase, stageCache>>
     \/ /\ "receiver" \in Faults
        /\ stageCache' = IF plan.pipelines THEN Compiled(stageCache, next.pipelines)
                         ELSE stageCache
        /\ \E R \in SUBSET AddedIn(Cfgs(receivers), next.receivers) :
             /\ R # AddedIn(Cfgs(receivers), next.receivers)
             /\ phase' = SetObjects(phase, R \X {gen}, "built")
  /\ Fail
  /\ UNCHANGED <<maps, snd, taskHeap, routes, stopCalls, update, toClose, busy,
                 todo>>

PublishRouting ==
  /\ pc = "publish"
  /\ selectors' = IF plan.routing THEN next.selectors ELSE selectors
  /\ taskSets' = IF plan.routing THEN next.taskSets ELSE taskSets
  /\ pc' = "senders"
  /\ UNCHANGED <<receivers, senders, tasks, pipelines, stageCache, snd, taskHeap,
                 recvHeap, update, built, toClose, busy, result, failures, todo>>

\* The new pipelines take effect; stages to which no task refers are collected.
Publish ==
  /\ pipelines' = IF plan.pipelines THEN next.pipelines ELSE pipelines
  /\ stageCache' = IF plan.pipelines THEN Collected(stageCache) ELSE stageCache

\* Mistake: a replaced sender starts without references.
ApplySendersNoRefs ==
  /\ pc = "senders"
  /\ LET fresh == IF plan.senders THEN AddedIn(Cfgs(senders), next.senders) ELSE {}
     IN  /\ senders' = With(senders,
               [n \in fresh |-> [cfg |-> next.senders[n], gen |-> gen, refs |-> 0]])
         /\ toClose' = {<<n, senders[n].gen>> : n \in fresh \cap DOMAIN senders}
         /\ snd' = SetObjects(snd, fresh \X {gen}, "open")
  /\ Publish
  /\ pc' = "tasks"
  /\ UNCHANGED <<receivers, selectors, taskSets, tasks, taskHeap, recvHeap,
                 update, built, busy, result, failures, todo>>

\* applySenderDelta: every new or changed sender is built, then all are swapped
\* in, keeping the reference counts of the names they replace; senders without
\* a name in the configuration and without a reference are closed by a new
\* goroutine.
ApplySenders ==
  /\ pc = "senders"
  /\ LET fresh == IF plan.senders THEN AddedIn(Cfgs(senders), next.senders) ELSE {}
         gone  == IF plan.senders
                  THEN {n \in DOMAIN senders \ DOMAIN next.senders : senders[n].refs = 0}
                  ELSE {}
         refsOf(n) == IF n \in DOMAIN senders THEN senders[n].refs ELSE 0
     IN  /\ senders' = Without(With(senders,
               [n \in fresh |-> [cfg |-> next.senders[n], gen |-> gen,
                                 refs |-> refsOf(n)]]), gone)
         /\ toClose' = {<<n, senders[n].gen>> : n \in fresh \cap DOMAIN senders}
         /\ snd' = SetObjects(SetObjects(snd, fresh \X {gen}, "open"),
                              {<<n, senders[n].gen>> : n \in gone}, "closing")
  /\ Publish
  /\ pc' = "tasks"
  /\ UNCHANGED <<receivers, selectors, taskSets, tasks, taskHeap, recvHeap,
                 update, built, busy, result, failures, todo>>

\* A sender cannot be built: those built before it in this update are closed.
ApplySendersFails ==
  /\ pc = "senders"
  /\ "sender" \in Faults
  /\ LET fresh == AddedIn(Cfgs(senders), next.senders)
     IN  \E S \in SUBSET fresh :
           S # fresh /\ snd' = SetObjects(snd, S \X {gen}, "closed")
  /\ Fail
  /\ UNCHANGED <<store, taskHeap, recvHeap, update, toClose, busy, todo>>

\* Every task to remove is gone; those to rebuild are back.
RemovalsDone == \A n \in plan.removed : n \in DOMAIN tasks => tasks[n].gen = gen

\* Mistake: StopGraceful is left to a goroutine.
RemoveTaskAsync(n) ==
  /\ pc = "tasks" /\ busy = None
  /\ n \in plan.removed \cap DOMAIN tasks
  /\ tasks[n].gen # gen
  /\ plan.removed \cap plan.added \subseteq DOMAIN tasks
  /\ tasks' = Without(tasks, {n})
  /\ senders' = [s \in DOMAIN senders |->
       IF s \in tasks[n].cfg.senders
       THEN [senders[s] EXCEPT !.refs = @ - 1] ELSE senders[s]]
  /\ stageCache' = Released(stageCache, n)
  /\ gate' = [gate EXCEPT ![<<n, tasks[n].gen>>] = "closing"]
  /\ UNCHANGED <<receivers, selectors, taskSets, pipelines, snd, uses, runs,
                 inside, recvHeap, pc, update, built, toClose, busy, result,
                 failures, todo>>

\* removeTask: out of the map, references dropped by name, then StopGraceful
\* refuses new packets ...
RemoveTask(n) ==
  /\ pc = "tasks" /\ busy = None
  /\ n \in plan.removed \cap DOMAIN tasks
  /\ tasks[n].gen # gen
  /\ plan.removed \cap plan.added \subseteq DOMAIN tasks
  /\ tasks' = Without(tasks, {n})
  /\ senders' = [s \in DOMAIN senders |->
       IF s \in tasks[n].cfg.senders
       THEN [senders[s] EXCEPT !.refs = @ - 1] ELSE senders[s]]
  /\ stageCache' = Released(stageCache, n)
  /\ gate' = [gate EXCEPT ![<<n, tasks[n].gen>>] = "closing"]
  /\ busy' = <<n, tasks[n].gen>>
  /\ UNCHANGED <<receivers, selectors, taskSets, pipelines, snd, uses, runs,
                 inside, recvHeap, pc, update, built, toClose, result, failures,
                 todo>>

\* ... and returns when the packets inside are finished.
RemoveTaskDone ==
  /\ pc \in {"tasks", "stopTasks"} /\ busy # None
  /\ inside[busy] = {}
  /\ gate' = [gate EXCEPT ![busy] = "shut"]
  /\ busy' = None
  /\ UNCHANGED <<store, snd, uses, runs, inside, recvHeap, pc, update, built,
                 toClose, result, failures, todo>>

\* addTask: binds the pipelines and senders now in the store. New tasks are
\* added after every removal, rebuilt ones right after their own.
AddTask(n) ==
  /\ pc = "tasks" /\ busy = None
  /\ n \in plan.added \ DOMAIN tasks
  /\ n \in plan.removed \/ RemovalsDone
  /\ LET tc == next.tasks[n]
         id == <<n, gen>>
     IN  IF tc.pipelines \subseteq DOMAIN pipelines /\ tc.senders \subseteq DOMAIN senders
         THEN /\ tasks' = With(tasks, [t \in {n} |-> [cfg |-> tc, gen |-> gen]])
              /\ senders' = [s \in DOMAIN senders |->
                   IF s \in tc.senders
                   THEN [senders[s] EXCEPT !.refs = @ + 1] ELSE senders[s]]
              /\ gate' = [gate EXCEPT ![id] = "open"]
              /\ uses' = [uses EXCEPT ![id] =
                            {<<s, senders[s].gen>> : s \in tc.senders}]
              /\ runs' = [runs EXCEPT ![id] = Restrict(pipelines, tc.pipelines)]
              /\ stageCache' = Retained(stageCache, Restrict(next.tasks, {n}), pipelines)
              /\ UNCHANGED <<pc, result, failures, built>>
         ELSE Fail /\ UNCHANGED <<tasks, senders, gate, uses, runs, stageCache>>
  /\ UNCHANGED <<receivers, selectors, taskSets, pipelines, snd, inside,
                 recvHeap, update, toClose, busy, todo>>

TasksUpdated == busy = None /\ RemovalsDone /\ plan.added \subseteq DOMAIN tasks

\* rebuildStageTaskRefs and gcUnusedStageCache, and between them gcUnusedSenders:
\* senders without references leave the map and are closed.
CollectSenders ==
  /\ pc = "tasks" /\ TasksUpdated
  /\ LET unused == {n \in DOMAIN senders : senders[n].refs <= 0}
     IN  /\ senders' = Without(senders, unused)
         /\ snd' = SetObjects(snd, {<<n, senders[n].gen>> : n \in unused}, "closed")
  /\ stageCache' = Collected(Recounted(stageCache))
  /\ pc' = "collected"
  /\ UNCHANGED <<receivers, selectors, taskSets, tasks, pipelines, taskHeap,
                 recvHeap, update, built, toClose, busy, result, failures, todo>>

\* commitReceiverDelta: the receivers that are gone are stopped by goroutines ...
DropReceivers ==
  /\ pc = "collected"
  /\ LET gone == IF plan.receivers
                 THEN DOMAIN receivers \ DOMAIN next.receivers ELSE {}
     IN  /\ receivers' = Without(receivers, gone)
         /\ stopCalls' = stopCalls \cup {<<n, receivers[n].gen>> : n \in gone}
  /\ pc' = "commit"
  /\ UNCHANGED <<selectors, taskSets, senders, tasks, pipelines, stageCache, snd,
                 taskHeap, phase, routes, update, built, toClose, busy, result, failures,
                 todo>>

\* ... then, one built receiver at a time: registered, selectors rebuilt, Start
\* spawned (startReceiver acknowledges before it calls Start), and the receiver
\* it replaces is stopped next.
CommitReceiver(n) ==
  /\ pc = "commit" /\ busy = None
  /\ n \in DOMAIN built
  /\ IF Resolvable(tasks, selectors, taskSets)
     THEN /\ receivers' = With(receivers, [r \in {n} |-> built[n]])
          /\ routes' = Rebuilt(receivers', tasks, selectors, taskSets)
          /\ phase' = [phase EXCEPT ![<<n, gen>>] = "starting"]
          /\ busy' = IF n \in DOMAIN receivers THEN <<n, receivers[n].gen>> ELSE None
          /\ built' = Without(built, {n})
          /\ UNCHANGED <<pc, result, failures>>
     ELSE Fail /\ receivers' = With(receivers, [r \in {n} |-> built[n]])
            /\ UNCHANGED <<routes, phase, busy>>
  /\ UNCHANGED <<selectors, taskSets, senders, tasks, pipelines, stageCache, snd,
                 taskHeap, stopCalls, update, toClose, todo>>

\* Mistake: the old receiver is kept until the new one has started.
StopReplacedAfterStart ==
  /\ pc = "commit" /\ busy # None
  /\ phase[<<busy[1], gen>>] # "starting"
  /\ phase' = Stopped({busy})
  /\ busy' = None
  /\ UNCHANGED <<store, snd, taskHeap, routes, stopCalls, pc, update, built,
                 toClose, result, failures, todo>>

StopReplacedReceiver ==
  /\ pc = "commit" /\ busy # None
  /\ phase' = Stopped({busy})
  /\ busy' = None
  /\ UNCHANGED <<store, snd, taskHeap, routes, stopCalls, pc, update, built,
                 toClose, result, failures, todo>>

\* Mistake: tasks that were rebuilt are no reason to rebuild the selectors.
RebuildSelectorsRoutingOnly ==
  /\ pc = "commit" /\ busy = None /\ DOMAIN built = {}
  /\ pc' = "close"
  /\ routes' = IF plan.routing \/ plan.receivers
               THEN Rebuilt(receivers, tasks, selectors, taskSets) ELSE routes
  /\ UNCHANGED <<store, snd, taskHeap, phase, stopCalls, update, built, toClose,
                 busy, result, failures, todo>>

\* The final rebuildReceiverSelectors, when something routing depends on changed.
RebuildSelectors ==
  /\ pc = "commit" /\ busy = None /\ DOMAIN built = {}
  /\ IF ~(plan.routing \/ plan.receivers \/ plan.added \cup plan.removed # {})
     THEN pc' = "close" /\ UNCHANGED <<routes, result, failures, built>>
     ELSE IF Resolvable(tasks, selectors, taskSets)
     THEN /\ routes' = Rebuilt(receivers, tasks, selectors, taskSets)
          /\ pc' = "close"
          /\ UNCHANGED <<result, failures, built>>
     ELSE Fail /\ UNCHANGED routes
  /\ UNCHANGED <<store, snd, taskHeap, phase, stopCalls, update, toClose, busy,
                 todo>>

\* The replaced senders are closed last; the update has succeeded.
CloseReplacedSenders ==
  /\ pc = "close"
  /\ snd' = SetObjects(snd, toClose, "closed")
  /\ toClose' = {}
  /\ pc' = "idle" /\ result' = "ok"
  /\ UNCHANGED <<store, taskHeap, recvHeap, update, built, busy, failures, todo>>

-----------------------------------------------------------------------------
(* StopAll: receivers, then tasks, then senders.                           *)

BeginShutdown ==
  /\ pc = "idle" /\ gen > 0
  /\ pc' = "stopReceivers"
  /\ UNCHANGED <<store, snd, taskHeap, recvHeap, update, built, toClose, busy,
                 result, failures, todo>>

StopAllReceivers ==
  /\ pc = "stopReceivers"
  /\ phase' = Stopped(Objects(receivers))
  /\ pc' = "stopTasks"
  /\ UNCHANGED <<store, snd, taskHeap, routes, stopCalls, update, built, toClose,
                 busy, result, failures, todo>>

StopAllTask(i) ==
  /\ pc = "stopTasks" /\ busy = None
  /\ i \in Objects(tasks) /\ gate[i] = "open"
  /\ gate' = [gate EXCEPT ![i] = "closing"]
  /\ busy' = i
  /\ UNCHANGED <<store, snd, uses, runs, inside, recvHeap, pc, update, built,
                 toClose, result, failures, todo>>

\* Mistake: the senders are closed without waiting for the tasks.
StopAllSendersAtOnce ==
  /\ pc = "stopTasks" /\ busy = None
  /\ snd' = SetObjects(snd, Objects(senders), "closed")
  /\ pc' = "halted"
  /\ UNCHANGED <<store, taskHeap, recvHeap, update, built, toClose, busy, result,
                 failures, todo>>

StopAllSenders ==
  /\ pc = "stopTasks" /\ busy = None
  /\ \A i \in Objects(tasks) : gate[i] = "shut"
  /\ snd' = SetObjects(snd, Objects(senders), "closed")
  /\ pc' = "halted"
  /\ UNCHANGED <<store, taskHeap, recvHeap, update, built, toClose, busy, result,
                 failures, todo>>

-----------------------------------------------------------------------------
(* Other goroutines.                                                       *)

others == <<store, update, pc, built, toClose, busy, result, failures>>

\* The goroutine of startReceiver calls Start, which may also return an error.
ReceiverStart(i) ==
  /\ phase[i] = "starting"
  /\ phase' \in {[phase EXCEPT ![i] = "running"], [phase EXCEPT ![i] = "stopped"]}
  /\ UNCHANGED <<others, snd, taskHeap, routes, stopCalls, todo>>

\* go rs.Recv.Stop(ctx) of a receiver that left the configuration.
AsyncStop(i) ==
  /\ i \in stopCalls
  /\ stopCalls' = stopCalls \ {i}
  /\ phase' = Stopped({i})
  /\ UNCHANGED <<others, snd, taskHeap, routes, todo>>

\* go old.S.Close(...) of a sender that left the configuration.
AsyncClose(i) ==
  /\ snd[i] = "closing"
  /\ snd' = [snd EXCEPT ![i] = "closed"]
  /\ UNCHANGED <<others, taskHeap, recvHeap, todo>>

\* dispatchToSelector: one load of the receiver's snapshot ...
Receive(p, i, k) ==
  /\ phase[i] = "running" /\ todo[p] = None
  /\ todo' = [todo EXCEPT ![p] = routes[i][k]]
  /\ UNCHANGED <<others, snd, taskHeap, recvHeap>>

\* ... then Handle of each task in it, which a task that was stopped refuses.
Handle(p, t) ==
  /\ todo[p] # None /\ t \in todo[p]
  /\ todo' = [todo EXCEPT ![p] = @ \ {t}]
  /\ inside' = IF gate[t] = "open" THEN [inside EXCEPT ![t] = @ \cup {p}] ELSE inside
  /\ UNCHANGED <<others, snd, gate, uses, runs, recvHeap>>

\* The task has called its senders and is finished with the packet.
Leave(p, t) ==
  /\ p \in inside[t]
  /\ inside' = [inside EXCEPT ![t] = @ \ {p}]
  /\ UNCHANGED <<others, snd, gate, uses, runs, recvHeap, todo>>

-----------------------------------------------------------------------------
applyBusinessDelta ==
  \/ Prepare \/ PrepareFails \/ PublishRouting
  \/ ApplySenders \/ ApplySendersFails
  \/ \E n \in TaskNames : RemoveTask(n) \/ AddTask(n)
  \/ CollectSenders \/ DropReceivers
  \/ \E n \in ReceiverNames : CommitReceiver(n)
  \/ StopReplacedReceiver \/ RebuildSelectors \/ CloseReplacedSenders

StopAll ==
  \/ StopAllReceivers \/ StopAllSenders
  \/ \E i \in TaskIds : StopAllTask(i)

Updater ==
  \/ ReplaceAll \/ ReplaceAllFails \/ applyBusinessDelta \/ RemoveTaskDone
  \/ StopAll

Next ==
  \/ \E c \in Configs : UpdateCache(c)
  \/ Updater \/ BeginShutdown
  \/ \E i \in ReceiverIds : ReceiverStart(i) \/ AsyncStop(i)
  \/ \E i \in SenderIds : AsyncClose(i)
  \/ \E p \in Packets :
       \/ \E i \in ReceiverIds, k \in Keys : Receive(p, i, k)
       \/ \E t \in TaskIds : Handle(p, t) \/ Leave(p, t)

Spec == Init /\ [][Next]_vars

\* The update thread runs on, and the senders return so that tasks finish their
\* packets; nobody has to load a configuration, shut down or receive.
Fairness ==
  /\ WF_vars(Updater)
  /\ \A p \in Packets, t \in TaskIds : WF_vars(Leave(p, t))

FairSpec == Spec /\ Fairness
-----------------------------------------------------------------------------
(* Properties.                                                             *)

SenderConfigs   == UNION {Range(c.senders)   : c \in Configs}
TaskConfigs     == UNION {Range(c.tasks)     : c \in Configs}
ReceiverConfigs == UNION {Range(c.receivers) : c \in Configs}

TypeOK ==
  /\ DOMAIN receivers \subseteq ReceiverNames
  /\ receivers \in [DOMAIN receivers -> [cfg : ReceiverConfigs, gen : Gens]]
  /\ DOMAIN senders \subseteq SenderNames
  /\ senders \in [DOMAIN senders -> [cfg : SenderConfigs, gen : Gens, refs : Int]]
  /\ DOMAIN tasks \subseteq TaskNames
  /\ tasks \in [DOMAIN tasks -> [cfg : TaskConfigs, gen : Gens]]
  /\ snd \in [SenderIds -> {"unbuilt", "open", "closing", "closed"}]
  /\ gate \in [TaskIds -> {"none", "open", "closing", "shut"}]
  /\ uses \in [TaskIds -> SUBSET SenderIds]
  /\ DOMAIN runs = TaskIds
  /\ inside \in [TaskIds -> SUBSET Packets]
  /\ phase \in [ReceiverIds -> {"none", "built", "starting", "running", "stopped"}]
  /\ routes \in [ReceiverIds -> [Keys -> SUBSET TaskIds]]
  /\ stopCalls \subseteq ReceiverIds
  /\ IsMap(selectors) /\ IsMap(taskSets) /\ IsMap(pipelines)
  /\ gen \in 0..MaxUpdates
  /\ plan \in Plans \cup {None}
  /\ DOMAIN built \subseteq ReceiverNames
  /\ built \in [DOMAIN built -> [cfg : ReceiverConfigs, gen : Gens]]
  /\ toClose \subseteq SenderIds
  /\ busy \in TaskIds \cup ReceiverIds \cup {None}
  /\ todo \in [Packets -> (SUBSET TaskIds) \cup {None}]

\* SenderState.Refs counts the tasks of the store that use the sender, through
\* replacement of the sender (which copies the count), removal and rebuilding of
\* tasks: it decides when the garbage collection may close a sender.
RefsExact ==
  \A n \in DOMAIN senders :
    senders[n].refs = Cardinality({t \in DOMAIN tasks : n \in tasks[t].cfg.senders})

\* The store's account of its senders is right: the references are exact, and
\* every sender that is open is still known to the store or to the update that
\* will close it, so that none leaks when it is replaced, unused or built in vain.
SendersAccounted ==
  /\ RefsExact
  /\ \A s \in SenderIds : snd[s] = "open" => s \in Objects(senders) \cup toClose

\* "An old instance may be closed only when its Refs are zero": a task that may
\* still call its senders, even a removed one that is draining, finds all of
\* them open, on every path that closes a sender.
OpenWhileUsed ==
  \A t \in TaskIds : gate[t] \in {"open", "closing"} =>
    \A s \in uses[t] : snd[s] = "open"

\* Two generations of a task never run at the same time: their packets would be
\* delivered out of order and they share the traffic counter.
OneGeneration ==
  \A t, u \in TaskIds :
    t[1] = u[1] /\ t # u => ~(gate[t] \in {"open", "closing"}
                             /\ gate[u] \in {"open", "closing"})

Idle(r) == pc = "idle" /\ result = r

\* The stage cache refers to tasks of the store only, except while tasks are being
\* replaced: a task that is removed gives up the stages of the new pipelines and
\* not of those it was built with, until the references are recounted. And after a
\* successful update each stage in the cache is one that some task uses, and refers
\* to all tasks that do, also when an earlier update failed between compiling and
\* publishing.
StagesAccounted ==
  /\ pc # "tasks" => \A sig \in DOMAIN stageCache : stageCache[sig] \subseteq DOMAIN tasks
  /\ Idle("ok") => \A sig \in DOMAIN stageCache :
       /\ stageCache[sig] # {}
       /\ stageCache[sig] = {n \in DOMAIN tasks : sig \in StagesOf(tasks[n].cfg, pipelines)}

\* Both counts of references are right, those to senders and those to stages.
ReferencesAccounted == SendersAccounted /\ StagesAccounted

\* After a successful update the store runs exactly the configured receivers,
\* senders that are used, and tasks, each task bound to the configured versions
\* of its senders and pipelines, not to objects of an earlier configuration:
\* what the delta plan has to find out.
ConfigApplied ==
  Idle("ok") =>
    /\ Cfgs(receivers) = next.receivers
    /\ Cfgs(tasks) = next.tasks
    /\ \A n \in DOMAIN tasks :
         LET t == <<n, tasks[n].gen>>
         IN  /\ gate[t] = "open"
             /\ uses[t] = {<<s, senders[s].gen>> : s \in next.tasks[n].senders}
             /\ runs[t] = Restrict(next.pipelines, next.tasks[n].pipelines)
    /\ \A n \in DOMAIN senders : senders[n].cfg = next.senders[n]

\* After a successful update the snapshots of the registered receivers are those
\* of the configuration.
RoutesApplied ==
  Idle("ok") =>
    \A n \in DOMAIN receivers :
      routes[<<n, receivers[n].gen>>] =
        CompiledSelector(tasks, next.selectors, next.taskSets,
                         next.receivers[n].selector)

\* An update that reports success has been carried out: the objects are those of
\* the configuration, and every registered receiver routes each key to running
\* tasks only, as no snapshot still points to a task that was stopped, whose
\* packets would silently be dropped. As long as no update has failed they are
\* also the tasks of the configuration.
UpdateApplied ==
  /\ ConfigApplied
  /\ Idle("ok") =>
       \A r \in Objects(receivers), k \in Keys : \A t \in routes[r][k] : gate[t] = "open"
  /\ failures \/ RoutesApplied

\* "A failed reload does not leave the runtime half-way, the old configuration
\* stays in effect": objects, gates and routes are those of before.
FailedUpdateHarmless == Idle("failed") => Effective = before

\* An update is carried out as a whole or has no effect.
UpdateAllOrNothing == UpdateApplied /\ FailedUpdateHarmless

\* When the runtime has halted, after a clean run, after failed reloads or after a
\* cold start that failed half-way, no task accepts packets and no sender is open.
ShutdownComplete ==
  pc = "halted" =>
    /\ \A t \in TaskIds : gate[t] \in {"none", "shut"} /\ inside[t] = {}
    /\ \A s \in SenderIds : snd[s] # "open"

\* A packet of a surviving receiver is never refused because of an update of
\* something else: a task whose configuration, senders and pipelines stay as
\* they are keeps running through the update.
UntouchedTasksKeepRunning ==
  [][pc \notin {"idle", "stopReceivers", "stopTasks"} =>
     \A n \in DOMAIN before.tasks :
       LET t == <<n, before.tasks[n].gen>>
           tc == before.tasks[n].cfg
       IN  (/\ n \in DOMAIN next.tasks /\ next.tasks[n] = tc
            /\ \A s \in tc.senders : before.senders[s].cfg = next.senders[s]
            /\ \A p \in tc.pipelines : before.pipelines[p] = next.pipelines[p])
             => gate'[t] = gate[t]]_vars

\* An update, or a shutdown, that was begun ends, although it waits for every
\* task it stops and receivers go on dispatching.
UpdateTerminates == pc \notin {"idle", "halted"} ~> pc \in {"idle", "halted"}

=============================================================================
