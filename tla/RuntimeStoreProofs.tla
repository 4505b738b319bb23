------------------------- MODULE RuntimeStoreProofs -------------------------
(***************************************************************************)
(* Proofs about RuntimeStore, for every set of valid configurations, every *)
(* number of updates, keys and packets, and whatever builders fail.        *)
(*                                                                         *)
(* StoreInv is the inductive invariant. Its parts follow the maps through  *)
(* an update: PlanInv says what the update thread knows, GateInv, UseInv   *)
(* and SenderInv what is alive, TargetInv how much of the configuration is *)
(* in force at each step, RouteInv and StageInv the same for snapshots and *)
(* the stage cache.                                                        *)
(***************************************************************************)
EXTENDS RuntimeStore, FiniteSetTheorems, TLAPS

\* The steps of applyBusinessDelta: before anything but routing was published,
\* and after the tasks are those of the configuration.
Early == {"prepare", "publish", "senders"}
Settling == {"collected", "commit", "close"}
Delta == Early \cup {"tasks"} \cup Settling
Stopping == {"stopReceivers", "stopTasks", "halted"}

\* The configuration being applied is in force as far as tasks are concerned.
Applied == pc \in Settling \/ Idle("ok")

-----------------------------------------------------------------------------
\* Where the update thread is, and what it holds at that place.
ControlInv ==
  /\ pc \in {"idle", "replaceAll"} \cup Delta \cup Stopping
  /\ gen = 0 => Idle("none")
  /\ gen > 0 => next \in Configs
  /\ gen = 0 \/ pc = "replaceAll" =>
       /\ DOMAIN receivers = {} /\ DOMAIN senders = {} /\ DOMAIN tasks = {}
       /\ DOMAIN stageCache = {} /\ ~failures
  /\ pc = "replaceAll" => plan = None /\ DOMAIN before.tasks = {}
  /\ gen > 0 /\ pc = "idle" => DOMAIN tasks # {} /\ result \in {"ok", "failed"}
  /\ Idle("failed") => failures
  /\ pc \notin {"tasks", "commit", "stopTasks"} => busy = None
  /\ pc \notin {"tasks"} \cup Settling => toClose = {}
  /\ pc \in Early => DOMAIN tasks # {}

\* Objects are numbered by the update that built them.
AgeInv ==
  /\ \A n \in DOMAIN tasks : tasks[n].gen <= gen
  /\ \A n \in DOMAIN senders : senders[n].gen <= gen
  /\ pc \in Early =>
       /\ \A n \in DOMAIN tasks : tasks[n].gen < gen
       /\ \A n \in DOMAIN senders : senders[n].gen < gen

\* The plan compares the configuration with what was in effect when the update
\* began, and until the senders are swapped that is still in effect.
PlanInv ==
  /\ pc \in Early \/ Idle("failed") => Effective = before
  /\ pc \in Delta => plan # None
  /\ pc \in Delta =>
       LET old == Cfgs(before.tasks)
           changedSenders == ChangedIn(Cfgs(before.senders), next.senders)
           changedPipelines == ChangedIn(before.pipelines, next.pipelines)
           rebuilt == Dependents(old, next.tasks, changedSenders, changedPipelines)
       IN  /\ plan.receivers = (ChangedIn(Cfgs(before.receivers), next.receivers) # {})
           /\ plan.senders = (changedSenders # {})
           /\ plan.pipelines = (changedPipelines # {})
           /\ plan.removed = RemovedIn(old, next.tasks) \cup rebuilt
           /\ plan.added = AddedIn(old, next.tasks) \cup rebuilt
  /\ pc \in {"prepare", "publish"} =>
       plan.routing = \/ ChangedIn(selectors, next.selectors) # {}
                      \/ ChangedIn(taskSets, next.taskSets) # {}
  /\ pc \in Delta => \A n \in DOMAIN before.tasks :
       /\ <<n, before.tasks[n].gen>> \in TaskIds /\ before.tasks[n].gen < gen
       /\ before.tasks[n].cfg.senders \subseteq DOMAIN before.senders
       /\ before.tasks[n].cfg.pipelines \subseteq DOMAIN before.pipelines

\* The tasks that may still work are those of the map and the one being stopped.
GateInv ==
  /\ \A t \in TaskIds : gate[t] = "open" => t \in Objects(tasks)
  /\ \A t \in TaskIds : gate[t] = "closing" => pc \in {"tasks", "stopTasks"} /\ t = busy
  /\ pc \notin {"stopTasks", "halted"} => \A t \in Objects(tasks) : gate[t] = "open"
  /\ pc = "tasks" /\ busy # None =>
       busy \in TaskIds /\ busy[1] \in plan.removed \ DOMAIN tasks
  /\ pc = "stopTasks" /\ busy # None => busy \in Objects(tasks)
  /\ \A t \in TaskIds : inside[t] # {} => gate[t] \in {"open", "closing"}
  /\ pc = "halted" => \A t \in TaskIds : gate[t] \in {"none", "shut"}

\* Task n of the map holds the senders and pipelines the maps have now.
Bound(n) ==
  LET t == <<n, tasks[n].gen>> IN
  /\ uses[t] = {<<s, senders[s].gen>> : s \in tasks[n].cfg.senders}
  /\ runs[t] = Restrict(pipelines, tasks[n].cfg.pipelines)

\* A task that the update in progress has yet to replace.
Outgoing(n) == pc = "tasks" /\ n \in plan.removed /\ tasks[n].gen # gen

UseInv ==
  /\ IsFiniteSet(DOMAIN tasks)
  /\ \A n \in DOMAIN tasks :
       /\ tasks[n].cfg.senders \subseteq DOMAIN senders
       /\ ~Outgoing(n) => tasks[n].cfg.pipelines \subseteq DOMAIN pipelines /\ Bound(n)

\* The senders that are open are those of the map and those to be closed when
\* the update is through.
SenderInv ==
  /\ pc # "halted" => \A s \in Objects(senders) \cup toClose : snd[s] = "open"
  /\ pc = "halted" => \A s \in SenderIds : snd[s] # "open"
  /\ toClose \cap Objects(senders) = {}

\* How much of the configuration is in force.
TargetInv ==
  /\ pc = "tasks" =>
       /\ DOMAIN next.senders \subseteq DOMAIN senders
       /\ \A n \in DOMAIN tasks : ~Outgoing(n) =>
            n \in DOMAIN next.tasks /\ tasks[n].cfg = next.tasks[n]
       /\ \A n \in DOMAIN next.tasks :
            n \in plan.added \/ n \in DOMAIN tasks \ plan.removed
  /\ pc \in {"tasks"} \cup Settling => \A n \in DOMAIN senders :
       n \in DOMAIN next.senders => senders[n].cfg = next.senders[n]
  /\ pc = "tasks" \/ Applied => pipelines = next.pipelines
  /\ Applied =>
       /\ Cfgs(tasks) = next.tasks
       /\ \A n \in DOMAIN senders :
            n \in DOMAIN next.senders /\ senders[n].cfg = next.senders[n]
  /\ pc \in {"senders", "tasks"} \/ Applied =>
       selectors = next.selectors /\ taskSets = next.taskSets

\* ... and of its receivers.
ReceiverInv ==
  /\ \A n \in DOMAIN built :
       /\ n \in DOMAIN next.receivers
       /\ built[n] = [cfg |-> next.receivers[n], gen |-> gen]
  /\ DOMAIN built # {} => pc \in {"publish", "senders", "tasks", "collected", "commit"}
  /\ DOMAIN built # {} => plan.receivers
  /\ pc \in Delta \ {"prepare"} \/ Idle("ok") =>
       \A n \in DOMAIN next.receivers :
         \/ n \in DOMAIN built
         \/ n \in DOMAIN receivers /\ receivers[n].cfg = next.receivers[n]
  /\ pc \in {"commit", "close"} \/ Idle("ok") =>
       DOMAIN receivers \subseteq DOMAIN next.receivers
  /\ pc \in Delta /\ ~plan.receivers => DOMAIN receivers \subseteq DOMAIN next.receivers

\* The snapshots lead to tasks of the map, and as long as no update has failed
\* they are what the maps say, except where the update is about to store them again.
Rerouting ==
  /\ pc \in {"tasks", "collected", "commit"}
  /\ plan.receivers \/ plan.added \cup plan.removed # {}
Redirecting == pc \in {"senders", "tasks", "collected", "commit"} /\ plan.routing
RouteInv ==
  pc \notin Stopping /\ ~Rerouting =>
    /\ \A r \in Objects(receivers), k \in Keys : routes[r][k] \subseteq Objects(tasks)
    /\ ~failures /\ ~Redirecting => \A n \in DOMAIN receivers :
         routes[<<n, receivers[n].gen>>] =
           CompiledSelector(tasks, selectors, taskSets, receivers[n].cfg.selector)

StageInv ==
  /\ pc # "tasks" => \A sig \in DOMAIN stageCache : stageCache[sig] \subseteq DOMAIN tasks
  /\ Applied => \A sig \in DOMAIN stageCache :
       /\ stageCache[sig] # {}
       /\ stageCache[sig] = {n \in DOMAIN tasks : sig \in StagesOf(tasks[n].cfg, pipelines)}

LifeInv == GateInv /\ UseInv /\ SenderInv /\ SendersAccounted /\ OpenWhileUsed

StoreInv ==
  /\ TypeOK /\ ControlInv /\ AgeInv /\ PlanInv /\ LifeInv
  /\ TargetInv /\ ReceiverInv /\ RouteInv /\ StageInv

-----------------------------------------------------------------------------
(* The maps and their operators.                                           *)

\* The objects of a map are objects.
LEMMA ObjectsTyped ==
  ASSUME TypeOK
  PROVE  /\ \A n \in DOMAIN tasks : <<n, tasks[n].gen>> \in TaskIds
         /\ \A n \in DOMAIN senders : <<n, senders[n].gen>> \in SenderIds
         /\ \A n \in DOMAIN receivers : <<n, receivers[n].gen>> \in ReceiverIds
         /\ Objects(tasks) \subseteq TaskIds
         /\ Objects(senders) \subseteq SenderIds
         /\ Objects(receivers) \subseteq ReceiverIds
  <1>1. \A n \in DOMAIN tasks : <<n, tasks[n].gen>> \in TaskIds
    BY DEF TypeOK, TaskIds
  <1>2. \A n \in DOMAIN senders : <<n, senders[n].gen>> \in SenderIds
    BY DEF TypeOK, SenderIds
  <1>3. \A n \in DOMAIN receivers : <<n, receivers[n].gen>> \in ReceiverIds
    BY DEF TypeOK, ReceiverIds
  <1> QED BY <1>1, <1>2, <1>3 DEF Objects

\* An unchanged section of the configuration is the same map.
LEMMA NothingChanged ==
  ASSUME NEW f, NEW g, IsMap(f), IsMap(g), ChangedIn(f, g) = {}
  PROVE  f = g
  BY DEF IsMap, ChangedIn, AddedIn, RemovedIn

\* What a valid configuration gives the update thread.
LEMMA ConfigFacts ==
  ASSUME NEW c \in Configs
  PROVE  /\ ValidConfig(c) /\ ConfigMaps(c)
         /\ DOMAIN c.tasks \subseteq TaskNames
         /\ DOMAIN c.senders \subseteq SenderNames
         /\ DOMAIN c.receivers \subseteq ReceiverNames
         /\ \A n \in DOMAIN c.tasks : c.tasks[n] \in TaskConfigs
         /\ \A n \in DOMAIN c.senders : c.senders[n] \in SenderConfigs
         /\ \A n \in DOMAIN c.receivers : c.receivers[n] \in ReceiverConfigs
  <1>1. ValidConfig(c) /\ ConfigMaps(c)
    BY ConfigsAssumption
  <1>2. /\ DOMAIN c.tasks \subseteq TaskNames
        /\ \A n \in DOMAIN c.tasks : c.tasks[n] \in TaskConfigs
    BY DEF TaskNames, TaskConfigs, Range
  <1>3. /\ DOMAIN c.senders \subseteq SenderNames
        /\ \A n \in DOMAIN c.senders : c.senders[n] \in SenderConfigs
    BY DEF SenderNames, SenderConfigs, Range
  <1>4. /\ DOMAIN c.receivers \subseteq ReceiverNames
        /\ \A n \in DOMAIN c.receivers : c.receivers[n] \in ReceiverConfigs
    BY DEF ReceiverNames, ReceiverConfigs, Range
  <1> QED BY <1>1, <1>2, <1>3, <1>4

\* During an update the configuration is one of Configs, its number an age.
LEMMA Updating ==
  ASSUME TypeOK, ControlInv, pc # "idle"
  PROVE  next \in Configs /\ gen \in Gens /\ gen > 0
  BY DEF TypeOK, ControlInv, Idle, Gens

\* Until the senders are swapped the store is what it was.
LEMMA StillBefore ==
  ASSUME PlanInv, pc \in Early
  PROVE  /\ before.receivers = receivers /\ before.senders = senders
         /\ before.tasks = tasks /\ before.pipelines = pipelines
  BY DEF PlanInv, Effective

\* A compiled selector leads to tasks of the map, if the map has the tasks of the
\* configuration and the selectors are those of the configuration.
LEMMA CompiledLeadsToTasks ==
  ASSUME NEW c \in Configs, NEW tks, DOMAIN c.tasks \subseteq DOMAIN tks, NEW s
  PROVE  \A k \in Keys :
           CompiledSelector(tks, c.selectors, c.taskSets, s)[k] \subseteq Objects(tks)
  <1> SUFFICES ASSUME NEW k \in Keys
               PROVE  CompiledSelector(tks, c.selectors, c.taskSets, s)[k] \subseteq Objects(tks)
    OBVIOUS
  <1>1. \A ts : TasksOfSet(c.taskSets, ts) \subseteq DOMAIN tks
    BY ConfigFacts DEF ValidConfig, TasksOfSet
  <1> QED BY <1>1 DEF CompiledSelector, Objects

\* rebuildReceiverSelectors stores the compiled selector in every receiver of the map.
LEMMA RebuiltRoutes ==
  ASSUME NEW rcvs, NEW tks, NEW sels, NEW sets,
         NEW n \in DOMAIN rcvs, <<n, rcvs[n].gen>> \in ReceiverIds
  PROVE  Rebuilt(rcvs, tks, sels, sets)[<<n, rcvs[n].gen>>] =
           CompiledSelector(tks, sels, sets, rcvs[n].cfg.selector)
  <1>1. <<n, rcvs[n].gen>> \in Objects(rcvs)
    BY DEF Objects
  <1> QED BY <1>1 DEF Rebuilt

LEMMA RebuiltTyped ==
  ASSUME NEW c \in Configs, NEW rcvs, NEW tks, DOMAIN c.tasks \subseteq DOMAIN tks,
         Objects(tks) \subseteq TaskIds,
         routes \in [ReceiverIds -> [Keys -> SUBSET TaskIds]]
  PROVE  Rebuilt(rcvs, tks, c.selectors, c.taskSets)
           \in [ReceiverIds -> [Keys -> SUBSET TaskIds]]
  <1>1. ASSUME NEW s
        PROVE  CompiledSelector(tks, c.selectors, c.taskSets, s) \in [Keys -> SUBSET TaskIds]
    <2>1. \A k \in Keys :
            CompiledSelector(tks, c.selectors, c.taskSets, s)[k] \subseteq TaskIds
      BY CompiledLeadsToTasks
    <2> DEFINE f == CompiledSelector(tks, c.selectors, c.taskSets, s)
    <2>2. f = [k \in Keys |-> f[k]]
      BY DEF CompiledSelector
    <2> QED BY <2>1, <2>2
  <1> QED BY <1>1 DEF Rebuilt

\* A sender without references is used by no task of the map.
LEMMA UsedHasRefs ==
  ASSUME UseInv, RefsExact, NEW n \in DOMAIN senders
  PROVE  /\ senders[n].refs \in Nat
         /\ senders[n].refs = 0 <=> \A t \in DOMAIN tasks : n \notin tasks[t].cfg.senders
  <1> DEFINE U == {t \in DOMAIN tasks : n \in tasks[t].cfg.senders}
  <1>1. IsFiniteSet(U)
    BY FS_Subset DEF UseInv
  <1>2. senders[n].refs = Cardinality(U)
    BY DEF RefsExact
  <1>3. Cardinality(U) = 0 <=> U = {}
    BY <1>1, FS_EmptySet
  <1> QED BY <1>1, <1>2, <1>3, FS_CardinalityType

-----------------------------------------------------------------------------
(* The initial states.                                                     *)

LEMMA StoreInit == Init => StoreInv
  <1> SUFFICES ASSUME Init PROVE StoreInv
    OBVIOUS
  <1>a. /\ DOMAIN receivers = {} /\ DOMAIN senders = {} /\ DOMAIN tasks = {}
        /\ DOMAIN stageCache = {} /\ DOMAIN built = {}
    BY DEF Init, Empty
  <1>b. Objects(receivers) = {} /\ Objects(senders) = {} /\ Objects(tasks) = {}
    BY <1>a DEF Objects
  <1>1. TypeOK
    <2>1. \A S : Empty \in [{} -> S]
      BY DEF Empty
    <2>2. IsMap(Empty)
      BY DEF Empty, IsMap
    <2>3. gen \in 0..MaxUpdates
      BY BoundsAssumption DEF Init
    <2>4. routes \in [ReceiverIds -> [Keys -> SUBSET TaskIds]]
      BY DEF Init
    <2>5. /\ receivers \in [{} -> [cfg : ReceiverConfigs, gen : Gens]]
          /\ senders \in [{} -> [cfg : SenderConfigs, gen : Gens, refs : Int]]
          /\ tasks \in [{} -> [cfg : TaskConfigs, gen : Gens]]
          /\ built \in [{} -> [cfg : ReceiverConfigs, gen : Gens]]
      BY <2>1 DEF Init
    <2>6. IsMap(selectors) /\ IsMap(taskSets) /\ IsMap(pipelines)
      BY <2>2 DEF Init
    <2> QED BY <1>a, <2>3, <2>4, <2>5, <2>6 DEF Init, TypeOK
  <1>2. ControlInv BY <1>a DEF Init, ControlInv, Idle, Early, Settling, Delta, Stopping
  <1>3. AgeInv BY <1>a DEF Init, AgeInv, Early
  <1>4. PlanInv BY DEF Init, PlanInv, Idle, Early, Settling, Delta
  <1>5. GateInv BY <1>b DEF Init, GateInv
  <1>6. UseInv BY <1>a, FS_EmptySet DEF UseInv
  <1>7. SenderInv BY <1>b DEF Init, SenderInv
  <1>8. SendersAccounted BY <1>a DEF Init, SendersAccounted, RefsExact
  <1>9. OpenWhileUsed BY DEF Init, OpenWhileUsed
  <1>10. TargetInv BY DEF Init, TargetInv, Applied, Settling, Idle
  <1>11. ReceiverInv
    BY <1>a DEF Init, ReceiverInv, Applied, Delta, Early, Settling, Idle
  <1>12. RouteInv BY <1>a, <1>b DEF Init, RouteInv
  <1>13. StageInv BY <1>a DEF StageInv
  <1> QED
    BY <1>1, <1>2, <1>3, <1>4, <1>5, <1>6, <1>7, <1>8, <1>9, <1>10, <1>11, <1>12,
       <1>13 DEF StoreInv, LifeInv

-----------------------------------------------------------------------------
(* UpdateCache and replaceAll.                                             *)

LEMMA UpdateCacheStep ==
  ASSUME StoreInv, NEW c \in Configs, UpdateCache(c)
  PROVE  StoreInv'
  <1> USE DEF
    StoreInv, LifeInv, UpdateCache, store, maps, taskHeap, recvHeap, update
  <1>a. /\ gen' \in 0..MaxUpdates /\ gen' = gen + 1 /\ gen \in Nat
    BY BoundsAssumption DEF TypeOK
  <1>b. /\ pc' = "replaceAll" => gen = 0
        /\ pc' = "prepare" => gen > 0 /\ DOMAIN tasks # {}
        /\ pc' \in {"replaceAll", "prepare"}
    BY <1>a DEF ControlInv, TypeOK
  <1>c. pc' = "prepare" => plan' \in Plans /\ plan' # None
    <2>1. /\ DOMAIN c.tasks \subseteq TaskNames /\ DOMAIN tasks \subseteq TaskNames
      BY ConfigFacts DEF TypeOK
    <2>2. planBusinessDelta(c) \in Plans
      BY <2>1 DEF planBusinessDelta, Plans, RemovedIn, AddedIn, Dependents, Cfgs
    <2> QED BY <2>2, NoneAssumption
  <1>d. Effective' = Effective
    BY DEF Effective, Objects
  <1>e. /\ before'.tasks = tasks /\ before'.senders = senders
        /\ before'.receivers = receivers /\ before'.pipelines = pipelines
    BY DEF Effective
  <1>f. \A n \in DOMAIN tasks :
          /\ <<n, tasks[n].gen>> \in TaskIds /\ tasks[n].gen < gen'
          /\ tasks[n].cfg.senders \subseteq DOMAIN senders
          /\ tasks[n].cfg.pipelines \subseteq DOMAIN pipelines
    BY <1>a, ObjectsTyped DEF AgeInv, UseInv, Outgoing, TypeOK, Gens
  <1>g. \A n \in DOMAIN senders : senders[n].gen < gen'
    BY <1>a DEF AgeInv, TypeOK, Gens
  <1>h. pc' = "prepare" /\ ~plan'.receivers => DOMAIN receivers \subseteq DOMAIN next'.receivers
    <2>1. pc' = "prepare" =>
            plan'.receivers = (ChangedIn(Cfgs(receivers), c.receivers) # {})
      BY DEF planBusinessDelta
    <2>2. RemovedIn(Cfgs(receivers), c.receivers) = {} =>
            DOMAIN receivers \subseteq DOMAIN c.receivers
      BY DEF RemovedIn, Cfgs
    <2> QED BY <2>1, <2>2 DEF ChangedIn
  <1>1. TypeOK' BY <1>a, <1>b, <1>c DEF TypeOK
  <1>2. ControlInv'
    BY <1>a, <1>b, <1>e DEF ControlInv, Idle, Early, Settling, Delta, Stopping
  <1>3. AgeInv' BY <1>a, <1>f, <1>g DEF AgeInv, Early, TypeOK, Gens
  <1>4. PlanInv'
    <2>1. pc' = "replaceAll" => PlanInv'
      BY DEF PlanInv, Idle, Early, Settling, Delta
    <2>2. ASSUME pc' = "prepare" PROVE PlanInv'
      <3>1. plan' = planBusinessDelta(c)
        BY <2>2
      <3>2. (Effective = before)'
        BY <1>d
      <3>3. \A n \in DOMAIN before'.tasks :
              /\ <<n, before'.tasks[n].gen>> \in TaskIds /\ before'.tasks[n].gen < gen'
              /\ before'.tasks[n].cfg.senders \subseteq DOMAIN before'.senders
              /\ before'.tasks[n].cfg.pipelines \subseteq DOMAIN before'.pipelines
        BY <1>e, <1>f
      <3>4. next' = c /\ selectors' = selectors /\ taskSets' = taskSets
        OBVIOUS
      <3> QED
        BY <1>c, <1>e, <2>2, <3>1, <3>2, <3>3, <3>4
        DEF PlanInv, planBusinessDelta, Early, Delta, Idle
    <2> QED BY <1>b, <2>1, <2>2
  <1>5. GateInv' BY <1>b DEF TypeOK, ControlInv, GateInv, Objects
  <1>6. UseInv' BY <1>b DEF UseInv, Outgoing, Bound
  <1>7. SenderInv' BY <1>b DEF SenderInv, Objects
  <1>8. SendersAccounted' BY DEF SendersAccounted, RefsExact, Objects
  <1>9. OpenWhileUsed' BY DEF OpenWhileUsed
  <1>10. TargetInv'
    BY <1>b DEF TargetInv, Applied, Settling, Idle, Outgoing, Cfgs
  <1>11. ReceiverInv'
    BY <1>b, <1>h DEF ReceiverInv, Delta, Early, Settling, Idle
  <1>12. RouteInv'
    BY <1>b DEF RouteInv, Rerouting, Redirecting, Stopping, Objects,
    CompiledSelector
  <1>13. StageInv' BY <1>b DEF StageInv, Applied, Settling, Idle, StagesOf
  <1> QED
    BY <1>1, <1>2, <1>3, <1>4, <1>5, <1>6, <1>7, <1>8, <1>9, <1>10, <1>11, <1>12,
       <1>13

\* What replaceAll has put into the empty store, all of the configuration or, when a
\* builder failed, a part of it in which no task lacks its senders.
LEMMA Installed ==
  ASSUME StoreInv, pc = "replaceAll", pc' \in {"idle", "stopReceivers"},
         NEW T \in SUBSET DOMAIN next.tasks, NEW S \in SUBSET DOMAIN next.senders,
         NEW R \in SUBSET DOMAIN next.receivers, NEW ph \in {"built", "starting"},
         \A n \in T : next.tasks[n].senders \subseteq S,
         InstallRouting, InstallTasks(T), InstallSenders(S), InstallReceivers(R, ph),
         UNCHANGED <<inside, stopCalls, update, toClose, busy, todo>>
  PROVE  /\ DOMAIN tasks' = T /\ DOMAIN senders' = S /\ DOMAIN receivers' = R
         /\ \A n \in T : tasks'[n].cfg = next.tasks[n] /\ tasks'[n].gen = gen
         /\ \A n \in S : senders'[n].cfg = next.senders[n] /\ senders'[n].gen = gen
         /\ \A n \in R : receivers'[n].cfg = next.receivers[n] /\ receivers'[n].gen = gen
         /\ DOMAIN stageCache' = {}
         /\ routes' \in [ReceiverIds -> [Keys -> SUBSET TaskIds]]
              /\ DOMAIN built' = {} /\ built' = Empty => TypeOK'
         /\ LifeInv'
  <1> USE DEF StoreInv, LifeInv, update
  <1>a. next \in Configs /\ gen \in Gens
    BY Updating
  <1>b. T \subseteq TaskNames /\ S \subseteq SenderNames /\ R \subseteq ReceiverNames
    BY <1>a, ConfigFacts
  <1>c. /\ DOMAIN receivers = {} /\ DOMAIN senders = {} /\ DOMAIN tasks = {}
        /\ DOMAIN stageCache = {} /\ toClose = {} /\ busy = None
    BY DEF ControlInv, Settling
  <1>d. Objects(tasks) = {} /\ Objects(senders) = {}
    BY <1>c DEF Objects
  <1>e. \A t \in TaskIds : gate[t] \notin {"open", "closing"} /\ inside[t] = {}
    BY <1>d DEF GateInv
  <1>f. \A s \in SenderIds : snd[s] # "open"
    BY <1>c, <1>d DEF SendersAccounted
  <1>1. /\ DOMAIN tasks' = T
        /\ \A n \in T : tasks'[n].cfg = next.tasks[n] /\ tasks'[n].gen = gen
        /\ tasks' \in [T -> [cfg : TaskConfigs, gen : Gens]]
    BY <1>a, ConfigFacts DEF InstallTasks
  <1>2. /\ T \X {gen} \subseteq TaskIds /\ S \X {gen} \subseteq SenderIds
        /\ R \X {gen} \subseteq ReceiverIds
    BY <1>a, <1>b DEF TaskIds, SenderIds, ReceiverIds
  <1>3. /\ gate' \in [TaskIds -> {"none", "open", "closing", "shut"}]
        /\ \A t \in TaskIds : gate'[t] = IF t \in T \X {gen} THEN "open" ELSE gate[t]
    BY DEF InstallTasks, SetObjects, TypeOK
  <1>4. /\ uses' \in [TaskIds -> SUBSET SenderIds]
        /\ \A n \in T : uses'[<<n, gen>>] = next.tasks[n].senders \X {gen}
    <2>1. \A n \in T : next.tasks[n].senders \X {gen} \subseteq SenderIds
      BY <1>2
    <2>2. \A t \in TaskIds : uses'[t] \in SUBSET SenderIds
      BY <2>1 DEF InstallTasks, TypeOK
    <2>3. uses' \in [TaskIds -> SUBSET SenderIds]
      BY <2>2 DEF InstallTasks
    <2> QED BY <1>2, <2>3 DEF InstallTasks
  <1>5. \A n \in T : runs'[<<n, gen>>] = Restrict(next.pipelines, next.tasks[n].pipelines)
    BY <1>2 DEF InstallTasks
  <1>6. DOMAIN stageCache' = {}
    BY <1>c DEF InstallTasks, Retained, Collected, Compiled, With, Restrict
  <1>7. /\ DOMAIN senders' = S
        /\ \A n \in S : /\ senders'[n].cfg = next.senders[n] /\ senders'[n].gen = gen
                        /\ senders'[n].refs =
                             Cardinality({t \in T : n \in next.tasks[t].senders})
    BY <1>1 DEF InstallSenders
  <1>8. \A n \in S : senders'[n].refs \in Int
    <2>1. IsFiniteSet(T)
      BY <1>a, ConfigFacts, FS_Subset DEF ConfigMaps
    <2>2. TAKE n \in S
    <2>3. IsFiniteSet({t \in T : n \in next.tasks[t].senders})
      BY <2>1, FS_Subset
    <2> QED BY <1>7, <2>3, FS_CardinalityType
  <1>9. senders' \in [S -> [cfg : SenderConfigs, gen : Gens, refs : Int]]
    <2>1. senders' = [n \in S |-> [cfg |-> next.senders[n], gen |-> gen,
             refs |-> Cardinality({t \in T : n \in next.tasks[t].senders})]]
      BY <1>1 DEF InstallSenders
    <2>2. \A n \in S : /\ next.senders[n] \in SenderConfigs
                       /\ Cardinality({t \in T : n \in next.tasks[t].senders}) \in Int
      BY <1>a, <1>7, <1>8, ConfigFacts
    <2> QED BY <1>a, <2>1, <2>2
  <1>10. /\ snd' \in [SenderIds -> {"unbuilt", "open", "closing", "closed"}]
         /\ \A s \in SenderIds : snd'[s] = IF s \in S \X {gen} THEN "open" ELSE snd[s]
    BY DEF InstallSenders, SetObjects, TypeOK
  <1>11. /\ DOMAIN receivers' = R
         /\ \A n \in R : receivers'[n].cfg = next.receivers[n] /\ receivers'[n].gen = gen
         /\ receivers' \in [R -> [cfg : ReceiverConfigs, gen : Gens]]
    BY <1>a, ConfigFacts DEF InstallReceivers
  <1>12. phase' \in [ReceiverIds -> {"none", "built", "starting", "running", "stopped"}]
    BY DEF InstallReceivers, SetObjects, TypeOK
  <1>13. Objects(tasks)' = T \X {gen} /\ Objects(senders)' = S \X {gen}
    <2>1. \A n \in T : tasks'[n].gen = gen
      BY <1>1
    <2>2. \A n \in S : senders'[n].gen = gen
      BY <1>7
    <2>3. {<<n, tasks'[n].gen>> : n \in T} = T \X {gen}
      BY <2>1
    <2>4. {<<n, senders'[n].gen>> : n \in S} = S \X {gen}
      BY <2>2
    <2> QED BY <1>1, <1>7, <2>3, <2>4 DEF Objects
  <1>14. IsMap(selectors') /\ IsMap(taskSets') /\ IsMap(pipelines')
    BY <1>a, ConfigFacts DEF ConfigMaps, InstallRouting
  <1>15. routes' \in [ReceiverIds -> [Keys -> SUBSET TaskIds]]
              /\ DOMAIN built' = {} /\ built' = Empty => TypeOK'
    <2>1. built' = Empty => built' \in [{} -> [cfg : ReceiverConfigs, gen : Gens]]
      BY DEF Empty
    <2>2. DOMAIN runs' = TaskIds
      BY DEF InstallTasks
    <2> QED
      BY <1>b, <1>1, <1>3, <1>4, <1>7, <1>9, <1>10, <1>11, <1>12, <1>14, <2>1, <2>2
      DEF TypeOK
  <1>16. GateInv'
    BY <1>3, <1>13, <1>c, <1>e, <1>2 DEF GateInv
  <1>17. UseInv'
    <2>1. IsFiniteSet(T)
      BY <1>a, ConfigFacts, FS_Subset DEF ConfigMaps
    <2>2. ASSUME NEW n \in T
          PROVE  /\ tasks'[n].cfg.senders \subseteq DOMAIN senders'
                 /\ tasks'[n].cfg.pipelines \subseteq DOMAIN pipelines'
                 /\ uses'[<<n, tasks'[n].gen>>] =
                      {<<s, senders'[s].gen>> : s \in tasks'[n].cfg.senders}
                 /\ runs'[<<n, tasks'[n].gen>>] = Restrict(pipelines', tasks'[n].cfg.pipelines)
      <3>1. tasks'[n].cfg = next.tasks[n] /\ tasks'[n].gen = gen
        BY <1>1
      <3>2. next.tasks[n].senders \subseteq S
        OBVIOUS
      <3>3. {<<s, senders'[s].gen>> : s \in next.tasks[n].senders}
              = next.tasks[n].senders \X {gen}
        <4>1. \A s \in next.tasks[n].senders : senders'[s].gen = gen
          BY <1>7, <3>2
        <4> QED BY <4>1
      <3>4. pipelines' = next.pipelines /\ next.tasks[n].pipelines \subseteq DOMAIN next.pipelines
        BY <1>a, ConfigFacts DEF InstallRouting, ValidConfig
      <3> QED BY <1>4, <1>5, <1>7, <3>1, <3>2, <3>3, <3>4
    <2> QED BY <1>1, <2>1, <2>2 DEF UseInv, Bound
  <1>18. SenderInv'
    BY <1>2, <1>10, <1>13, <1>c DEF SenderInv
  <1>19. SendersAccounted'
    <2>1. RefsExact'
      BY <1>1, <1>7 DEF RefsExact
    <2> QED BY <2>1, <1>10, <1>13, <1>f DEF SendersAccounted
  <1>20. OpenWhileUsed'
    BY <1>2, <1>3, <1>4, <1>10, <1>e DEF OpenWhileUsed
  <1> QED
    BY <1>1, <1>6, <1>7, <1>11, <1>15, <1>16, <1>17, <1>18, <1>19, <1>20

LEMMA ReplaceAllStep ==
  ASSUME StoreInv, ReplaceAll
  PROVE  StoreInv'
  <1> USE DEF StoreInv, ReplaceAll, update
  <1>a. next \in Configs /\ gen \in Gens /\ gen > 0
    BY Updating
  <1>b. \A n \in DOMAIN next.tasks : next.tasks[n].senders \subseteq DOMAIN next.senders
    BY <1>a, ConfigFacts DEF ValidConfig
  <1>c. built = Empty /\ DOMAIN built = {} /\ toClose = {} /\ busy = None
    BY DEF ControlInv, ReceiverInv, TypeOK, Empty, Settling
  <1>d. /\ DOMAIN tasks' = DOMAIN next.tasks /\ DOMAIN senders' = DOMAIN next.senders
        /\ DOMAIN receivers' = DOMAIN next.receivers
        /\ \A n \in DOMAIN next.tasks : tasks'[n].cfg = next.tasks[n] /\ tasks'[n].gen = gen
        /\ \A n \in DOMAIN next.senders :
             senders'[n].cfg = next.senders[n] /\ senders'[n].gen = gen
        /\ \A n \in DOMAIN next.receivers :
             receivers'[n].cfg = next.receivers[n] /\ receivers'[n].gen = gen
        /\ DOMAIN stageCache' = {}
        /\ routes' \in [ReceiverIds -> [Keys -> SUBSET TaskIds]]
              /\ DOMAIN built' = {} /\ built' = Empty => TypeOK'
        /\ LifeInv'
    BY <1>b, Installed
  <1> HIDE DEF ReplaceAll
  <1>e. /\ pc' = "idle" /\ result' = "ok" /\ UNCHANGED <<gen, next, failures, built, toClose, busy>>
        /\ selectors' = next.selectors /\ taskSets' = next.taskSets
        /\ pipelines' = next.pipelines
        /\ routes' = Rebuilt(receivers', tasks', next.selectors, next.taskSets)
    BY DEF ReplaceAll, InstallRouting
  <1>f. Cfgs(tasks)' = next.tasks
    <2>1. next.tasks = [n \in DOMAIN next.tasks |-> next.tasks[n]]
      BY <1>a, ConfigFacts DEF ConfigMaps, IsMap
    <2>2. \A n \in DOMAIN next.tasks : tasks'[n].cfg = next.tasks[n]
      BY <1>d
    <2> QED BY <1>d, <2>1, <2>2 DEF Cfgs
  <1>1. TypeOK'
    <2>1. Objects(tasks') \subseteq TaskIds
      <3>1. \A n \in DOMAIN next.tasks : tasks'[n].gen = gen /\ n \in TaskNames
        BY <1>a, <1>d, ConfigFacts
      <3> QED BY <1>a, <1>d, <3>1 DEF Objects, TaskIds
    <2>2. routes' \in [ReceiverIds -> [Keys -> SUBSET TaskIds]]
      BY <1>a, <1>d, <1>e, <2>1, RebuiltTyped DEF TypeOK
    <2> QED BY <1>c, <1>d, <1>e, <2>2
  <1>2. ControlInv'
    <2>1. DOMAIN next.tasks # {}
      BY <1>a, ConfigFacts DEF ValidConfig
    <2>2. ~failures
      BY DEF ControlInv, ReplaceAll
    <2> QED
      BY <1>a, <1>c, <1>d, <1>e, <2>1, <2>2 DEF ControlInv, Idle, Early, Settling, Delta, Stopping
  <1>3. AgeInv'
    <2>1. \A n \in DOMAIN next.tasks : tasks'[n].gen = gen
      BY <1>d
    <2> QED BY <1>a, <1>d, <1>e, <2>1 DEF AgeInv, Early, Gens
  <1>4. PlanInv'
    BY <1>e DEF PlanInv, Idle, Early, Settling, Delta
  <1>5. TargetInv'
    BY <1>d, <1>e, <1>f DEF TargetInv, Applied, Settling, Idle
  <1>6. ReceiverInv'
    <2>1. \A n \in DOMAIN next.receivers : receivers'[n].cfg = next.receivers[n]
      BY <1>d
    <2> QED BY <1>c, <1>d, <1>e, <2>1 DEF ReceiverInv, Delta, Early, Settling
  <1>7. RouteInv'
    <2>1. \A n \in DOMAIN receivers' :
            routes'[<<n, receivers'[n].gen>>] =
              CompiledSelector(tasks', next.selectors, next.taskSets, receivers'[n].cfg.selector)
      <3>1. TAKE n \in DOMAIN receivers'
      <3>2. <<n, receivers'[n].gen>> \in ReceiverIds
        BY <1>a, <1>d, ConfigFacts DEF ReceiverIds
      <3> QED BY <1>e, <3>2, RebuiltRoutes
    <2>2. \A r \in Objects(receivers'), k \in Keys : routes'[r][k] \subseteq Objects(tasks')
      <3>1. TAKE r \in Objects(receivers'), k \in Keys
      <3>2. PICK n \in DOMAIN receivers' : r = <<n, receivers'[n].gen>>
        BY DEF Objects
      <3> QED BY <1>a, <1>d, <2>1, <3>2, CompiledLeadsToTasks
    <2> QED BY <1>e, <2>1, <2>2 DEF RouteInv
  <1>8. StageInv'
    BY <1>d DEF StageInv
  <1> QED BY <1>d, <1>1, <1>2, <1>3, <1>4, <1>5, <1>6, <1>7, <1>8

LEMMA ReplaceAllFailsStep ==
  ASSUME StoreInv, ReplaceAllFails
  PROVE  StoreInv'
  <1> USE DEF StoreInv, update
  <1>a. next \in Configs /\ gen \in Gens /\ gen > 0
    BY Updating DEF ReplaceAllFails
  <1>b. built = Empty /\ toClose = {} /\ busy = None /\ plan = None
    BY DEF ReplaceAllFails, ControlInv, ReceiverInv, TypeOK, Empty, Settling
  <1>c. /\ pc = "replaceAll" /\ pc' = "stopReceivers" /\ result' = "failed"
        /\ built' = Empty /\ DOMAIN built' = {}
        /\ UNCHANGED <<inside, routes, stopCalls, update, toClose, busy, todo>>
    BY <1>b DEF ReplaceAllFails, Fail, Empty
  <1>d. routes' \in [ReceiverIds -> [Keys -> SUBSET TaskIds]]
    BY <1>c DEF TypeOK
  <1>e. TypeOK' /\ LifeInv' /\ DOMAIN stageCache' = {} /\ AgeInv'
    <2>1. CASE UNCHANGED <<store, snd, gate, uses, runs, phase>>
      <3>1. DOMAIN stageCache' = {}
        BY <1>c, <2>1 DEF ControlInv, store
      <3>2. TypeOK'
        BY <1>b, <1>c, <2>1 DEF TypeOK, store, maps
      <3>3. LifeInv'
        BY <1>b, <1>c, <2>1 DEF LifeInv, store, maps, GateInv, UseInv, Outgoing, Bound,
           SenderInv, SendersAccounted, RefsExact, OpenWhileUsed, Objects
      <3>4. AgeInv'
        BY <1>c, <2>1 DEF store, maps, AgeInv, Early
      <3> QED BY <3>1, <3>2, <3>3, <3>4
    <2>2. ASSUME NEW T \in SUBSET DOMAIN next.tasks, NEW S \in SUBSET DOMAIN next.senders,
                 NEW R \in SUBSET DOMAIN next.receivers,
                 \A n \in T : next.tasks[n].senders \subseteq S,
                 InstallRouting, InstallTasks(T), InstallSenders(S),
                 InstallReceivers(R, "built")
          PROVE  TypeOK' /\ LifeInv' /\ DOMAIN stageCache' = {} /\ AgeInv'
      <3>1. /\ DOMAIN tasks' = T /\ DOMAIN senders' = S
            /\ \A n \in T : tasks'[n].gen = gen
            /\ \A n \in S : senders'[n].gen = gen
            /\ DOMAIN stageCache' = {}
            /\ routes' \in [ReceiverIds -> [Keys -> SUBSET TaskIds]]
                  /\ DOMAIN built' = {} /\ built' = Empty => TypeOK'
            /\ LifeInv'
        BY <1>c, <2>2, Installed
      <3>2. TypeOK'
        BY <1>c, <1>d, <3>1
      <3>3. AgeInv'
        BY <1>a, <1>c, <3>1 DEF AgeInv, Early, Gens
      <3> QED BY <3>1, <3>2, <3>3
    <2>3. ASSUME InstallRouting, InstallTasks({}), InstallReceivers({}, "built"),
                 NEW S \in SUBSET DOMAIN next.senders, InstallSenders(S)
          PROVE  TypeOK' /\ LifeInv' /\ DOMAIN stageCache' = {} /\ AgeInv'
      BY <2>2, <2>3
    <2>4. ASSUME InstallRouting, InstallTasks(DOMAIN next.tasks),
                 InstallSenders(DOMAIN next.senders),
                 NEW R \in SUBSET DOMAIN next.receivers, InstallReceivers(R, "built")
          PROVE  TypeOK' /\ LifeInv' /\ DOMAIN stageCache' = {} /\ AgeInv'
      <3>1. \A n \in DOMAIN next.tasks : next.tasks[n].senders \subseteq DOMAIN next.senders
        BY <1>a, ConfigFacts DEF ValidConfig
      <3> QED BY <2>2, <2>4, <3>1
    <2> QED BY <2>1, <2>3, <2>4 DEF ReplaceAllFails
  <1>1. ControlInv'
    BY <1>a, <1>b, <1>c DEF ControlInv, Idle, Early, Settling, Delta, Stopping
  <1>2. PlanInv'
    BY <1>c DEF PlanInv, Idle, Early, Settling, Delta
  <1>3. TargetInv'
    BY <1>c DEF TargetInv, Applied, Settling, Idle
  <1>4. ReceiverInv'
    BY <1>c DEF ReceiverInv, Delta, Early, Settling, Idle
  <1>5. RouteInv'
    BY <1>c DEF RouteInv, Stopping
  <1>6. StageInv'
    BY <1>e DEF StageInv
  <1> QED BY <1>e, <1>1, <1>2, <1>3, <1>4, <1>5, <1>6

-----------------------------------------------------------------------------
(* applyBusinessDelta.                                                     *)

LEMMA PrepareStep ==
  ASSUME StoreInv, Prepare
  PROVE  StoreInv'
  <1> USE DEF
    StoreInv, LifeInv, Prepare, store, maps, taskHeap, recvHeap, update
  <1> DEFINE changed == IF plan.receivers
                        THEN AddedIn(Cfgs(receivers), next.receivers) ELSE {}
  <1>a. next \in Configs /\ gen \in Gens
    BY Updating
  <1>b. /\ changed \subseteq DOMAIN next.receivers
        /\ DOMAIN next.receivers \subseteq ReceiverNames
        /\ \A n \in DOMAIN next.receivers : next.receivers[n] \in ReceiverConfigs
    BY <1>a, ConfigFacts DEF AddedIn
  <1>c. /\ DOMAIN built' = changed
        /\ \A n \in changed : built'[n] = [cfg |-> next.receivers[n], gen |-> gen]
    OBVIOUS
  <1>d. built' \in [DOMAIN built' -> [cfg : ReceiverConfigs, gen : Gens]]
    BY <1>a, <1>b, <1>c
  <1>e. phase' \in [ReceiverIds -> {"none", "built", "starting", "running", "stopped"}]
    BY DEF SetObjects, TypeOK
  <1>f. Effective' = Effective
    BY DEF Effective, Objects
  <1>g. \A sig \in DOMAIN stageCache' : stageCache'[sig] \subseteq DOMAIN tasks
    BY DEF StageInv, Compiled, With
  <1>h. ~plan.receivers => ChangedIn(Cfgs(receivers), next.receivers) = {}
    BY StillBefore DEF PlanInv, Early, Delta
  <1>i. \A n \in DOMAIN next.receivers :
          n \in changed \/ (n \in DOMAIN receivers /\ receivers[n].cfg = next.receivers[n])
    <2>1. AddedIn(Cfgs(receivers), next.receivers) \subseteq changed
      BY <1>h DEF ChangedIn
    <2> HIDE DEF changed
    <2>2. TAKE n \in DOMAIN next.receivers
    <2>3. CASE n \in AddedIn(Cfgs(receivers), next.receivers)
      BY <2>1, <2>3
    <2>4. CASE n \notin AddedIn(Cfgs(receivers), next.receivers)
      BY <2>4 DEF AddedIn, Cfgs
    <2> QED BY <2>3, <2>4
  <1>j. ~plan.receivers => DOMAIN receivers \subseteq DOMAIN next.receivers
    BY <1>h DEF ChangedIn, RemovedIn, Cfgs
  <1>1. TypeOK' BY <1>b, <1>c, <1>d, <1>e DEF TypeOK
  <1>2. ControlInv' BY DEF ControlInv, Idle, Early, Settling, Delta, Stopping
  <1>3. AgeInv' BY DEF AgeInv, Early
  <1>4. PlanInv' BY <1>f DEF PlanInv, Idle, Early, Settling, Delta
  <1>5. GateInv' BY DEF TypeOK, ControlInv, GateInv, Objects
  <1>6. UseInv' BY DEF UseInv, Outgoing, Bound
  <1>7. SenderInv' BY DEF SenderInv, Objects
  <1>8. SendersAccounted' BY DEF SendersAccounted, RefsExact, Objects
  <1>9. OpenWhileUsed' BY DEF OpenWhileUsed
  <1>10. TargetInv' BY DEF TargetInv, Applied, Settling, Idle, Outgoing, Cfgs
  <1>11. ReceiverInv'
    BY <1>b, <1>c, <1>i, <1>j DEF ReceiverInv, Delta, Early, Settling, Idle
  <1>12. RouteInv'
    BY DEF RouteInv, Rerouting, Redirecting, Stopping, Objects,
    CompiledSelector
  <1>13. StageInv' BY <1>g DEF StageInv, Applied, Settling, Idle
  <1> QED
    BY <1>1, <1>2, <1>3, <1>4, <1>5, <1>6, <1>7, <1>8, <1>9, <1>10, <1>11, <1>12,
       <1>13

LEMMA PrepareFailsStep ==
  ASSUME StoreInv, PrepareFails
  PROVE  StoreInv'
  <1> USE DEF
    StoreInv, LifeInv, PrepareFails, Fail, store, maps, taskHeap, recvHeap,
    update
  <1>b. DOMAIN built' = {} /\ pc' = "idle"
    BY DEF Empty, PlanInv, Early, Delta
  <1>d. built' \in [DOMAIN built' -> [cfg : ReceiverConfigs, gen : Gens]]
    BY <1>b DEF Empty
  <1>e. phase' \in [ReceiverIds -> {"none", "built", "starting", "running", "stopped"}]
    BY DEF SetObjects, TypeOK
  <1>f. Effective' = Effective
    BY DEF Effective, Objects
  <1>g. \A sig \in DOMAIN stageCache' : stageCache'[sig] \subseteq DOMAIN tasks
    <2>1. stageCache' \in {stageCache, Compiled(stageCache, next.pipelines)}
      OBVIOUS
    <2>2. \A sig \in DOMAIN stageCache : stageCache[sig] \subseteq DOMAIN tasks
      BY DEF StageInv
    <2> QED BY <2>1, <2>2 DEF Compiled, With
  <1>1. TypeOK' BY <1>b, <1>d, <1>e DEF TypeOK
  <1>2. ControlInv' BY DEF ControlInv, Idle, Early, Settling, Delta, Stopping
  <1>3. AgeInv' BY DEF AgeInv, Early
  <1>4. PlanInv' BY <1>b, <1>f DEF PlanInv, Idle, Early, Settling, Delta
  <1>5. GateInv' BY DEF TypeOK, ControlInv, GateInv, Objects
  <1>6. UseInv' BY DEF UseInv, Outgoing, Bound
  <1>7. SenderInv' BY DEF SenderInv, Objects
  <1>8. SendersAccounted' BY DEF SendersAccounted, RefsExact, Objects
  <1>9. OpenWhileUsed' BY DEF OpenWhileUsed
  <1>10. TargetInv' BY DEF TargetInv, Applied, Settling, Idle, Outgoing, Cfgs
  <1>11. ReceiverInv' BY <1>b DEF ReceiverInv, Delta, Early, Settling, Idle
  <1>12. RouteInv'
    BY DEF RouteInv, Rerouting, Redirecting, Stopping, Objects,
    CompiledSelector
  <1>13. StageInv' BY <1>b, <1>g DEF StageInv, Applied, Settling, Idle
  <1> QED
    BY <1>1, <1>2, <1>3, <1>4, <1>5, <1>6, <1>7, <1>8, <1>9, <1>10, <1>11, <1>12,
       <1>13

LEMMA PublishRoutingStep ==
  ASSUME StoreInv, PublishRouting
  PROVE  StoreInv'
  <1> USE DEF
    StoreInv, LifeInv, PublishRouting, store, maps, taskHeap, recvHeap, update
  <1>a. next \in Configs
    BY Updating
  <1>b. IsMap(next.selectors) /\ IsMap(next.taskSets)
    BY <1>a, ConfigFacts DEF ConfigMaps
  <1>c. ~plan.routing => selectors = next.selectors /\ taskSets = next.taskSets
    <2>1. ~plan.routing => /\ ChangedIn(selectors, next.selectors) = {}
                           /\ ChangedIn(taskSets, next.taskSets) = {}
      BY DEF PlanInv
    <2> QED BY <1>b, <2>1, NothingChanged DEF TypeOK
  <1>1. TypeOK' BY <1>b DEF TypeOK
  <1>2. ControlInv' BY DEF ControlInv, Idle, Early, Settling, Delta, Stopping
  <1>3. AgeInv' BY DEF AgeInv, Early
  <1>4. PlanInv'
    BY DEF PlanInv, Idle, Early, Settling, Delta, Effective, Objects
  <1>5. GateInv' BY DEF TypeOK, ControlInv, GateInv, Objects
  <1>6. UseInv' BY DEF UseInv, Outgoing, Bound
  <1>7. SenderInv' BY DEF SenderInv, Objects
  <1>8. SendersAccounted' BY DEF SendersAccounted, RefsExact, Objects
  <1>9. OpenWhileUsed' BY DEF OpenWhileUsed
  <1>10. TargetInv'
    BY <1>c DEF TargetInv, Applied, Settling, Idle, Outgoing, Cfgs
  <1>11. ReceiverInv' BY DEF ReceiverInv, Delta, Early, Settling, Idle
  <1>12. RouteInv'
    BY DEF RouteInv, Rerouting, Redirecting, Stopping, Objects,
    CompiledSelector
  <1>13. StageInv' BY DEF StageInv, Applied, Settling, Idle, StagesOf
  <1> QED
    BY <1>1, <1>2, <1>3, <1>4, <1>5, <1>6, <1>7, <1>8, <1>9, <1>10, <1>11, <1>12,
       <1>13

\* A task the plan leaves alone is in the configuration as it is, and so are the
\* senders and pipelines it uses.
LEMMA KeptTask ==
  ASSUME StoreInv, pc = "senders", NEW n \in DOMAIN tasks, n \notin plan.removed
  PROVE  /\ n \in DOMAIN next.tasks /\ tasks[n].cfg = next.tasks[n]
         /\ \A s \in tasks[n].cfg.senders :
              /\ s \in DOMAIN senders /\ s \in DOMAIN next.senders
              /\ senders[s].cfg = next.senders[s]
         /\ \A p \in tasks[n].cfg.pipelines :
              /\ p \in DOMAIN pipelines /\ p \in DOMAIN next.pipelines
              /\ pipelines[p] = next.pipelines[p]
  <1> USE DEF StoreInv, LifeInv
  <1> DEFINE changedSenders == ChangedIn(Cfgs(senders), next.senders)
             changedPipelines == ChangedIn(pipelines, next.pipelines)
  <1>1. plan.removed = RemovedIn(Cfgs(tasks), next.tasks)
                         \cup Dependents(Cfgs(tasks), next.tasks, changedSenders, changedPipelines)
    BY StillBefore DEF PlanInv, Early, Delta
  <1> HIDE DEF changedSenders, changedPipelines
  <1>2. n \in DOMAIN next.tasks /\ tasks[n].cfg = next.tasks[n]
    BY <1>1 DEF RemovedIn, Cfgs
  <1>3. /\ tasks[n].cfg.senders \cap changedSenders = {}
        /\ tasks[n].cfg.pipelines \cap changedPipelines = {}
    BY <1>1, <1>2 DEF Dependents, Cfgs
  <1>4. /\ tasks[n].cfg.senders \subseteq DOMAIN senders
        /\ tasks[n].cfg.pipelines \subseteq DOMAIN pipelines
    BY DEF UseInv, Outgoing
  <1>5. \A s \in tasks[n].cfg.senders :
          s \in DOMAIN next.senders /\ senders[s].cfg = next.senders[s]
    BY <1>3, <1>4 DEF changedSenders, ChangedIn, RemovedIn, Cfgs
  <1>6. \A p \in tasks[n].cfg.pipelines :
          p \in DOMAIN next.pipelines /\ pipelines[p] = next.pipelines[p]
    BY <1>3, <1>4 DEF changedPipelines, ChangedIn, RemovedIn
  <1> QED BY <1>2, <1>4, <1>5, <1>6

LEMMA ApplySendersStep ==
  ASSUME StoreInv, ApplySenders
  PROVE  StoreInv'
  <1> USE DEF StoreInv, LifeInv, taskHeap, recvHeap, update
  <1> DEFINE fresh == AddedIn(Cfgs(senders), next.senders)
             gone  == {n \in DOMAIN senders \ DOMAIN next.senders : senders[n].refs = 0}
             refsOf(n) == IF n \in DOMAIN senders THEN senders[n].refs ELSE 0
  <1>a. /\ pc = "senders" /\ pc' = "tasks"
        /\ UNCHANGED <<receivers, selectors, taskSets, tasks, gate, uses, runs, inside,
                       phase, routes, stopCalls, gen, next, plan, before, built, busy,
                       result, failures, todo>>
    BY DEF ApplySenders
  <1>b. next \in Configs /\ gen \in Gens /\ gen > 0
    BY <1>a, Updating
  <1>c. ~plan.senders => fresh = {} /\ gone = {}
    <2>1. ~plan.senders => ChangedIn(Cfgs(senders), next.senders) = {}
      BY <1>a, StillBefore DEF PlanInv, Early, Delta
    <2> QED BY <2>1 DEF ChangedIn, RemovedIn, Cfgs
  <1>d. /\ senders' = Without(With(senders,
             [n \in fresh |-> [cfg |-> next.senders[n], gen |-> gen, refs |-> refsOf(n)]]),
             gone)
        /\ toClose' = {<<n, senders[n].gen>> : n \in fresh \cap DOMAIN senders}
        /\ snd' = SetObjects(SetObjects(snd, fresh \X {gen}, "open"),
                             {<<n, senders[n].gen>> : n \in gone}, "closing")
    BY <1>c DEF ApplySenders
  <1>e. /\ fresh \subseteq DOMAIN next.senders /\ fresh \cap gone = {}
        /\ gone \subseteq DOMAIN senders
        /\ \A n \in DOMAIN next.senders \ fresh :
             n \in DOMAIN senders /\ senders[n].cfg = next.senders[n]
    BY DEF AddedIn, Cfgs
  <1>f. IsMap(pipelines) /\ IsMap(next.pipelines)
    BY <1>b, ConfigFacts DEF TypeOK, ConfigMaps
  <1>g. pipelines' = next.pipelines
    <2>1. ~plan.pipelines => ChangedIn(pipelines, next.pipelines) = {}
      BY <1>a, StillBefore DEF PlanInv, Early, Delta
    <2> QED BY <1>f, <2>1, NothingChanged DEF ApplySenders, Publish
  <1> HIDE DEF fresh, gone
  <1>h. /\ DOMAIN senders' = (DOMAIN senders \cup fresh) \ gone
        /\ \A n \in fresh : senders'[n] = [cfg |-> next.senders[n], gen |-> gen,
                                           refs |-> refsOf(n)]
        /\ \A n \in DOMAIN senders \ (fresh \cup gone) : senders'[n] = senders[n]
        /\ senders' = [n \in DOMAIN senders' |-> senders'[n]]
    BY <1>d, <1>e DEF Without, With, Restrict
  <1>i. \A n \in fresh : /\ senders'[n].cfg = next.senders[n] /\ senders'[n].gen = gen
                         /\ senders'[n].refs = refsOf(n)
    <2>1. TAKE n \in fresh
    <2>2. PICK r : r = refsOf(n)
      OBVIOUS
    <2>3. senders'[n] = [cfg |-> next.senders[n], gen |-> gen, refs |-> r]
      BY <1>h, <2>2
    <2> QED BY <2>2, <2>3
  <1>j. /\ \A n \in DOMAIN senders : senders[n].gen < gen /\ senders[n].gen # gen
        /\ \A n \in DOMAIN tasks : tasks[n].gen < gen /\ tasks[n].gen # gen
        /\ toClose = {}
    BY <1>a, <1>b DEF AgeInv, Early, TypeOK, Gens, ControlInv, Settling
  <1>k. \A t \in DOMAIN tasks : tasks[t].cfg.senders \cap gone = {}
    BY UsedHasRefs DEF gone, SendersAccounted
  <1>l. snd' \in [SenderIds -> {"unbuilt", "open", "closing", "closed"}]
    BY <1>d DEF SetObjects, TypeOK
  <1>m. /\ fresh \subseteq SenderNames /\ fresh \X {gen} \subseteq SenderIds
        /\ \A n \in fresh : next.senders[n] \in SenderConfigs
    BY <1>b, <1>e, ConfigFacts DEF SenderIds
  <1>n. \A s \in SenderIds : snd'[s] =
          IF s \in {<<n, senders[n].gen>> : n \in gone} THEN "closing"
          ELSE IF s \in fresh \X {gen} THEN "open" ELSE snd[s]
    BY <1>d DEF SetObjects, TypeOK
  <1>1. TypeOK'
    <2>1. \A n \in DOMAIN senders' : senders'[n] \in [cfg : SenderConfigs, gen : Gens, refs : Int]
      <3>1. TAKE n \in DOMAIN senders'
      <3>2. CASE n \in fresh
        <4>1. refsOf(n) \in Int
          BY DEF TypeOK
        <4>2. PICK r \in Int : r = refsOf(n)
          BY <4>1
        <4>3. senders'[n] = [cfg |-> next.senders[n], gen |-> gen, refs |-> r]
          BY <1>h, <3>2, <4>2
        <4> QED BY <1>b, <1>m, <3>2, <4>3
      <3>3. CASE n \notin fresh
        BY <1>h, <3>3 DEF TypeOK
      <3> QED BY <3>2, <3>3
    <2>2. senders' \in [DOMAIN senders' -> [cfg : SenderConfigs, gen : Gens, refs : Int]]
      BY <1>h, <2>1
    <2>3. DOMAIN senders' \subseteq SenderNames
      BY <1>h, <1>m DEF TypeOK
    <2>4. toClose' \subseteq SenderIds
      BY <1>d, ObjectsTyped
    <2> QED BY <1>a, <1>f, <1>g, <1>l, <2>2, <2>3, <2>4 DEF TypeOK
  <1>2. ControlInv'
    BY <1>a, <1>b DEF ControlInv, Idle, Early, Settling, Delta, Stopping
  <1>3. AgeInv'
    <2>1. \A n \in DOMAIN senders' : senders'[n].gen <= gen
      BY <1>b, <1>h, <1>i DEF AgeInv, Gens
    <2> QED BY <1>a, <2>1 DEF AgeInv, Early
  <1>4. PlanInv'
    BY <1>a DEF PlanInv, Idle, Early, Settling, Delta
  <1>5. GateInv'
    BY <1>a DEF GateInv, Objects, ControlInv
  <1>6. UseInv'
    <2>1. \A n \in DOMAIN tasks : tasks[n].cfg.senders \subseteq DOMAIN senders'
      BY <1>h, <1>k DEF UseInv
    <2>2. ASSUME NEW n \in DOMAIN tasks, n \notin plan.removed
          PROVE  /\ tasks[n].cfg.pipelines \subseteq DOMAIN next.pipelines
                 /\ uses[<<n, tasks[n].gen>>] =
                      {<<s, senders'[s].gen>> : s \in tasks[n].cfg.senders}
                 /\ runs[<<n, tasks[n].gen>>] =
                      Restrict(next.pipelines, tasks[n].cfg.pipelines)
      <3>1. Bound(n)
        BY <1>a DEF UseInv, Outgoing
      <3>2. \A s \in tasks[n].cfg.senders : s \in DOMAIN senders /\ s \notin fresh
        BY <1>a, <2>2, KeptTask DEF fresh, AddedIn, Cfgs
      <3>3. \A s \in tasks[n].cfg.senders : senders'[s].gen = senders[s].gen
        BY <1>h, <1>k, <3>2
      <3>4. \A p \in tasks[n].cfg.pipelines :
              p \in DOMAIN next.pipelines /\ pipelines[p] = next.pipelines[p]
        BY <1>a, <2>2, KeptTask
      <3>5. Restrict(next.pipelines, tasks[n].cfg.pipelines) =
              Restrict(pipelines, tasks[n].cfg.pipelines)
        BY <3>4 DEF Restrict
      <3>6. {<<s, senders'[s].gen>> : s \in tasks[n].cfg.senders} =
              {<<s, senders[s].gen>> : s \in tasks[n].cfg.senders}
        BY <3>3
      <3> QED BY <3>1, <3>4, <3>5, <3>6 DEF Bound
    <2>3. \A n \in DOMAIN tasks : ~Outgoing(n)' => n \notin plan.removed
      BY <1>a, <1>j DEF Outgoing
    <2> QED BY <1>a, <1>g, <2>1, <2>2, <2>3 DEF UseInv, Bound
  <1>7. SenderInv'
    <2>1. ASSUME NEW n \in DOMAIN senders' PROVE snd'[<<n, senders'[n].gen>>] = "open"
      <3>1. CASE n \in fresh
        <4>1. <<n, gen>> \notin {<<m, senders[m].gen>> : m \in gone}
          BY <1>e, <1>j
        <4> QED BY <1>i, <1>m, <1>n, <3>1, <4>1
      <3>2. CASE n \notin fresh
        <4>1. /\ n \in DOMAIN senders /\ senders'[n] = senders[n] /\ n \notin gone
          BY <1>h, <3>2
        <4>2. <<n, senders[n].gen>> \in SenderIds /\ snd[<<n, senders[n].gen>>] = "open"
          BY <1>a, <4>1, ObjectsTyped DEF SenderInv, Objects
        <4> QED BY <1>n, <4>1, <4>2
      <3> QED BY <3>1, <3>2
    <2>2. ASSUME NEW n \in fresh \cap DOMAIN senders PROVE snd'[<<n, senders[n].gen>>] = "open"
      <3>1. <<n, senders[n].gen>> \in SenderIds /\ snd[<<n, senders[n].gen>>] = "open"
        BY <1>a, ObjectsTyped DEF SenderInv, Objects
      <3>2. n \notin gone
        BY <1>e
      <3> QED BY <1>n, <3>1, <3>2
    <2>3. \A n \in fresh \cap DOMAIN senders : senders'[n].gen # senders[n].gen
      BY <1>i, <1>j
    <2>4. toClose' \cap Objects(senders') = {}
      BY <1>d, <2>3 DEF Objects
    <2> QED BY <1>a, <1>d, <2>1, <2>2, <2>4 DEF SenderInv, Objects
  <1>8. SendersAccounted'
    <2>1. ASSUME NEW n \in DOMAIN senders'
          PROVE  senders'[n].refs = Cardinality({t \in DOMAIN tasks : n \in tasks[t].cfg.senders})
      <3>1. CASE n \in DOMAIN senders
        <4>1. senders'[n].refs = senders[n].refs
          BY <1>h, <1>i, <3>1
        <4> QED BY <3>1, <4>1 DEF SendersAccounted, RefsExact
      <3>2. CASE n \notin DOMAIN senders
        <4>1. senders'[n].refs = 0
          BY <1>h, <1>i, <3>2
        <4>2. {t \in DOMAIN tasks : n \in tasks[t].cfg.senders} = {}
          BY <3>2 DEF UseInv
        <4> QED BY <4>1, <4>2, FS_EmptySet
      <3> QED BY <3>1, <3>2
    <2>2. ASSUME NEW s \in SenderIds, snd'[s] = "open"
          PROVE  s \in Objects(senders') \cup toClose'
      <3>1. CASE s \in fresh \X {gen}
        <4>1. PICK n \in fresh : s = <<n, gen>>
          BY <3>1
        <4> QED BY <1>e, <1>h, <1>i, <4>1 DEF Objects
      <3>2. CASE s \notin fresh \X {gen}
        <4>1. snd[s] = "open" /\ s \notin {<<n, senders[n].gen>> : n \in gone}
          BY <1>n, <2>2, <3>2
        <4>2. PICK n \in DOMAIN senders : s = <<n, senders[n].gen>>
          BY <1>j, <4>1 DEF SendersAccounted, Objects
        <4>3. n \notin gone
          BY <4>1, <4>2
        <4> QED BY <1>d, <1>h, <4>2, <4>3 DEF Objects
      <3> QED BY <3>1, <3>2
    <2> QED BY <1>a, <2>1, <2>2 DEF SendersAccounted, RefsExact
  <1>9. OpenWhileUsed'
    <2>1. ASSUME NEW t \in TaskIds, gate[t] \in {"open", "closing"}, NEW s \in uses[t]
          PROVE  snd'[s] = "open"
      <3>1. PICK n \in DOMAIN tasks : t = <<n, tasks[n].gen>>
        BY <1>a, <2>1 DEF GateInv, Objects
      <3>2. PICK m \in tasks[n].cfg.senders : s = <<m, senders[m].gen>>
        BY <1>a, <2>1, <3>1 DEF UseInv, Outgoing, Bound
      <3>3. m \notin gone
        BY <1>k
      <3>4. s \in SenderIds /\ snd[s] = "open"
        BY <2>1 DEF TypeOK, OpenWhileUsed
      <3> QED BY <1>n, <3>2, <3>3, <3>4
    <2> QED BY <1>a, <2>1 DEF OpenWhileUsed
  <1>10. TargetInv'
    <2>1. DOMAIN next.senders \subseteq DOMAIN senders'
      BY <1>e, <1>h DEF gone
    <2>2. \A n \in DOMAIN tasks : ~Outgoing(n)' =>
            n \in DOMAIN next.tasks /\ tasks[n].cfg = next.tasks[n]
      BY <1>a, <1>j, KeptTask DEF Outgoing
    <2>3. \A n \in DOMAIN next.tasks :
            n \in plan.added \/ n \in DOMAIN tasks \ plan.removed
      <3>1. TAKE n \in DOMAIN next.tasks
      <3> DEFINE rebuilt == Dependents(Cfgs(tasks), next.tasks,
                               ChangedIn(Cfgs(senders), next.senders),
                               ChangedIn(pipelines, next.pipelines))
      <3>2. /\ plan.added = AddedIn(Cfgs(tasks), next.tasks) \cup rebuilt
            /\ plan.removed = RemovedIn(Cfgs(tasks), next.tasks) \cup rebuilt
        BY <1>a, StillBefore DEF PlanInv, Early, Delta
      <3> HIDE DEF rebuilt
      <3> QED BY <3>2 DEF AddedIn, RemovedIn, Cfgs
    <2>4. \A n \in DOMAIN senders' : n \in DOMAIN next.senders => senders'[n].cfg = next.senders[n]
      BY <1>e, <1>h, <1>i
    <2>5. selectors = next.selectors /\ taskSets = next.taskSets
      BY <1>a DEF TargetInv
    <2> QED BY <1>a, <1>g, <2>1, <2>2, <2>3, <2>4, <2>5 DEF TargetInv, Applied, Settling, Idle
  <1>11. ReceiverInv'
    BY <1>a DEF ReceiverInv, Delta, Early, Settling, Idle
  <1>12. RouteInv'
    BY <1>a DEF RouteInv, Rerouting, Redirecting, Stopping, Objects, CompiledSelector
  <1>13. StageInv'
    BY <1>a DEF StageInv, Applied, Settling, Idle
  <1> QED
    BY <1>1, <1>2, <1>3, <1>4, <1>5, <1>6, <1>7, <1>8, <1>9, <1>10, <1>11, <1>12, <1>13

LEMMA ApplySendersFailsStep ==
  ASSUME StoreInv, ApplySendersFails
  PROVE  StoreInv'
  <1> USE DEF
    StoreInv, LifeInv, ApplySendersFails, Fail, store, maps, taskHeap,
    recvHeap, update
  <1>a. PICK S \in SUBSET AddedIn(Cfgs(senders), next.senders) :
               snd' = SetObjects(snd, S \X {gen}, "closed")
    OBVIOUS
  <1>b. DOMAIN built' = {} /\ pc' = "idle"
    BY DEF Empty, PlanInv, Early, Delta
  <1>d. built' \in [DOMAIN built' -> [cfg : ReceiverConfigs, gen : Gens]]
    BY <1>b DEF Empty
  <1>e. snd' \in [SenderIds -> {"unbuilt", "open", "closing", "closed"}]
    BY <1>a DEF SetObjects, TypeOK
  <1>f. \A n \in SenderNames : <<n, gen>> \notin Objects(senders) \cup toClose
    BY DEF Objects, AgeInv, Early, ControlInv, Settling, TypeOK
  <1>g. \A s \in SenderIds : s \in S \X {gen} => snd[s] # "open"
    BY <1>f DEF SendersAccounted, SenderIds
  <1>h. \A s \in SenderIds : (snd'[s] = "open") = (snd[s] = "open")
    BY <1>a, <1>g DEF SetObjects, TypeOK
  <1>i. Effective' = Effective
    BY <1>h DEF Effective, Objects
  <1>j. \A t \in TaskIds : uses[t] \subseteq SenderIds
    BY DEF TypeOK
  <1>k. Objects(senders)' = Objects(senders) /\ Objects(senders) \cup toClose \subseteq SenderIds
    BY ObjectsTyped DEF Objects, TypeOK
  <1>1. TypeOK' BY <1>b, <1>d, <1>e DEF TypeOK
  <1>2. ControlInv' BY DEF ControlInv, Idle, Early, Settling, Delta, Stopping
  <1>3. AgeInv' BY DEF AgeInv, Early
  <1>4. PlanInv' BY <1>b, <1>i DEF PlanInv, Idle, Early, Settling, Delta
  <1>5. GateInv' BY DEF TypeOK, ControlInv, GateInv, Objects
  <1>6. UseInv' BY DEF UseInv, Outgoing, Bound
  <1>7. SenderInv' BY <1>b, <1>h, <1>k DEF SenderInv
  <1>8. SendersAccounted' BY <1>h, <1>k DEF SendersAccounted, RefsExact
  <1>9. OpenWhileUsed' BY <1>h, <1>j DEF OpenWhileUsed
  <1>10. TargetInv' BY DEF TargetInv, Applied, Settling, Idle, Outgoing, Cfgs
  <1>11. ReceiverInv' BY <1>b DEF ReceiverInv, Delta, Early, Settling, Idle
  <1>12. RouteInv'
    BY DEF RouteInv, Rerouting, Redirecting, Stopping, Objects,
    CompiledSelector
  <1>13. StageInv' BY DEF StageInv, Applied, Settling, Idle, StagesOf
  <1> QED
    BY <1>1, <1>2, <1>3, <1>4, <1>5, <1>6, <1>7, <1>8, <1>9, <1>10, <1>11, <1>12,
       <1>13

LEMMA RemoveTaskStep ==
  ASSUME StoreInv, NEW n \in TaskNames, RemoveTask(n)
  PROVE  StoreInv'
  <1> USE DEF StoreInv, LifeInv, recvHeap, update
  <1> DEFINE id == <<n, tasks[n].gen>>
             tc == tasks[n].cfg
  <1>a. /\ pc = "tasks" /\ pc' = "tasks" /\ busy = None /\ busy' = id
        /\ n \in plan.removed /\ n \in DOMAIN tasks
        /\ gate' = [gate EXCEPT ![id] = "closing"]
        /\ UNCHANGED <<receivers, selectors, taskSets, pipelines, snd, uses, runs, inside,
                       phase, routes, stopCalls, gen, next, plan, before, built, toClose,
                       result, failures, todo>>
    BY DEF RemoveTask
  <1>b. /\ DOMAIN tasks' = DOMAIN tasks \ {n}
        /\ \A m \in DOMAIN tasks' : tasks'[m] = tasks[m]
        /\ tasks' = [m \in DOMAIN tasks' |-> tasks[m]]
    BY DEF RemoveTask, Without, Restrict
  <1>c. /\ DOMAIN senders' = DOMAIN senders
        /\ senders' = [s \in DOMAIN senders |-> IF s \in tc.senders
             THEN [senders[s] EXCEPT !.refs = @ - 1] ELSE senders[s]]
    BY DEF RemoveTask
  <1>d. \A s \in DOMAIN senders :
          /\ senders'[s].cfg = senders[s].cfg /\ senders'[s].gen = senders[s].gen
          /\ senders'[s].refs = IF s \in tc.senders THEN senders[s].refs - 1 ELSE senders[s].refs
          /\ senders'[s] \in [cfg : SenderConfigs, gen : Gens, refs : Int]
    BY <1>c DEF TypeOK
  <1>e. id \in TaskIds
    BY <1>a, ObjectsTyped
  <1>f. Objects(senders)' = Objects(senders)
    BY <1>c, <1>d DEF Objects
  <1>g. \A t \in TaskIds : gate'[t] = IF t = id THEN "closing" ELSE gate[t]
    BY <1>a DEF TypeOK
  <1>h. \A t \in TaskIds : gate[t] # "closing"
    BY <1>a, NoneAssumption DEF GateInv
  <1>1. TypeOK'
    <2>1. senders' \in [DOMAIN senders' -> [cfg : SenderConfigs, gen : Gens, refs : Int]]
      BY <1>c, <1>d
    <2>2. tasks' \in [DOMAIN tasks' -> [cfg : TaskConfigs, gen : Gens]]
      BY <1>b DEF TypeOK
    <2>3. gate' \in [TaskIds -> {"none", "open", "closing", "shut"}]
      BY <1>a DEF TypeOK
    <2> QED BY <1>a, <1>b, <1>c, <1>e, <2>1, <2>2, <2>3 DEF TypeOK
  <1>2. ControlInv'
    BY <1>a DEF ControlInv, Idle, Early, Settling, Delta, Stopping
  <1>3. AgeInv'
    BY <1>a, <1>b, <1>c, <1>d DEF AgeInv, Early
  <1>4. PlanInv'
    BY <1>a DEF PlanInv, Idle, Early, Settling, Delta
  <1>5. GateInv'
    <2>1. \A t \in TaskIds : gate'[t] = "open" => t \in Objects(tasks')
      BY <1>b, <1>g DEF GateInv, Objects
    <2>2. \A t \in Objects(tasks') : gate'[t] = "open"
      BY <1>a, <1>b, <1>g, ObjectsTyped DEF GateInv, Objects
    <2> QED BY <1>a, <1>b, <1>e, <1>g, <1>h, <2>1, <2>2 DEF GateInv
  <1>6. UseInv'
    <2>1. IsFiniteSet(DOMAIN tasks')
      BY <1>b, FS_Subset DEF UseInv
    <2>2. ASSUME NEW m \in DOMAIN tasks'
          PROVE  /\ tasks'[m].cfg.senders \subseteq DOMAIN senders'
                 /\ ~Outgoing(m)' => tasks'[m].cfg.pipelines \subseteq DOMAIN pipelines'
                                        /\ Bound(m)'
      <3>1. m \in DOMAIN tasks /\ tasks'[m] = tasks[m] /\ (Outgoing(m)' <=> Outgoing(m))
        BY <1>a, <1>b DEF Outgoing
      <3>2. tasks[m].cfg.senders \subseteq DOMAIN senders
        BY <3>1 DEF UseInv
      <3>3. {<<s, senders'[s].gen>> : s \in tasks[m].cfg.senders} =
              {<<s, senders[s].gen>> : s \in tasks[m].cfg.senders}
        BY <1>d, <3>2
      <3> QED BY <1>a, <1>c, <3>1, <3>2, <3>3 DEF UseInv, Bound
    <2> QED BY <2>1, <2>2 DEF UseInv
  <1>7. SenderInv'
    BY <1>a, <1>f DEF SenderInv
  <1>8. SendersAccounted'
    <2>1. ASSUME NEW s \in DOMAIN senders
          PROVE  senders'[s].refs =
                   Cardinality({t \in DOMAIN tasks' : s \in tasks'[t].cfg.senders})
      <3> DEFINE U == {t \in DOMAIN tasks : s \in tasks[t].cfg.senders}
      <3>1. {t \in DOMAIN tasks' : s \in tasks'[t].cfg.senders} = U \ {n}
        BY <1>b
      <3>2. IsFiniteSet(U) /\ senders[s].refs = Cardinality(U)
        BY FS_Subset DEF UseInv, SendersAccounted, RefsExact
      <3>3. Cardinality(U \ {n}) = IF n \in U THEN Cardinality(U) - 1 ELSE Cardinality(U)
        BY <3>2, FS_RemoveElement
      <3>4. n \in U <=> s \in tc.senders
        BY <1>a
      <3> HIDE DEF U
      <3> QED BY <1>d, <3>1, <3>2, <3>3, <3>4
    <2> QED BY <1>a, <1>c, <1>f, <2>1 DEF SendersAccounted, RefsExact
  <1>9. OpenWhileUsed'
    <2>1. gate[id] = "open"
      BY <1>a DEF GateInv, Objects
    <2> QED BY <1>a, <1>e, <1>g, <2>1 DEF OpenWhileUsed
  <1>10. TargetInv'
    <2>1. \A m \in DOMAIN tasks' : ~Outgoing(m)' =>
            m \in DOMAIN next.tasks /\ tasks'[m].cfg = next.tasks[m]
      BY <1>a, <1>b DEF TargetInv, Outgoing
    <2>2. \A m \in DOMAIN next.tasks : m \in plan.added \/ m \in DOMAIN tasks' \ plan.removed
      BY <1>a, <1>b DEF TargetInv
    <2> QED
      BY <1>a, <1>c, <1>d, <2>1, <2>2 DEF TargetInv, Applied, Settling, Idle
  <1>11. ReceiverInv'
    BY <1>a DEF ReceiverInv, Delta, Early, Settling, Idle
  <1>12. RouteInv'
    BY <1>a DEF RouteInv, Rerouting
  <1>13. StageInv'
    BY <1>a DEF StageInv, Applied, Settling, Idle
  <1> QED
    BY <1>1, <1>2, <1>3, <1>4, <1>5, <1>6, <1>7, <1>8, <1>9, <1>10, <1>11, <1>12, <1>13

LEMMA AddTaskStep ==
  ASSUME StoreInv, NEW n \in TaskNames, AddTask(n)
  PROVE  StoreInv'
  <1> USE DEF StoreInv, LifeInv, recvHeap, update
  <1> DEFINE id == <<n, gen>>
             tc == next.tasks[n]
  <1>a. /\ pc = "tasks" /\ busy = None /\ n \in plan.added /\ n \notin DOMAIN tasks
        /\ UNCHANGED <<receivers, selectors, taskSets, pipelines, snd, inside,
                       phase, routes, stopCalls, gen, next, plan, before, toClose,
                       busy, todo>>
    BY DEF AddTask
  <1>b. next \in Configs /\ gen \in Gens /\ gen > 0
    BY <1>a, Updating
  <1>c. n \in DOMAIN next.tasks
    BY <1>a DEF PlanInv, Delta, AddedIn, Dependents
  <1>d. tc.pipelines \subseteq DOMAIN pipelines /\ tc.senders \subseteq DOMAIN senders
    BY <1>a, <1>b, <1>c, ConfigFacts DEF ValidConfig, TargetInv
  <1>e. /\ tasks' = With(tasks, [t \in {n} |-> [cfg |-> tc, gen |-> gen]])
        /\ senders' = [s \in DOMAIN senders |-> IF s \in tc.senders
             THEN [senders[s] EXCEPT !.refs = @ + 1] ELSE senders[s]]
        /\ gate' = [gate EXCEPT ![id] = "open"]
        /\ uses' = [uses EXCEPT ![id] = {<<s, senders[s].gen>> : s \in tc.senders}]
        /\ runs' = [runs EXCEPT ![id] = Restrict(pipelines, tc.pipelines)]
        /\ UNCHANGED <<pc, result, failures, built>>
    BY <1>d DEF AddTask
  <1>f. /\ DOMAIN tasks' = DOMAIN tasks \cup {n}
        /\ \A m \in DOMAIN tasks : tasks'[m] = tasks[m]
        /\ tasks'[n].cfg = tc /\ tasks'[n].gen = gen
        /\ tasks'[n] = [cfg |-> tc, gen |-> gen]
        /\ tasks' = [m \in DOMAIN tasks' |-> tasks'[m]]
    BY <1>a, <1>e DEF With
  <1>g. \A s \in DOMAIN senders :
          /\ senders'[s].cfg = senders[s].cfg /\ senders'[s].gen = senders[s].gen
          /\ senders'[s].refs = IF s \in tc.senders THEN senders[s].refs + 1 ELSE senders[s].refs
          /\ senders'[s] \in [cfg : SenderConfigs, gen : Gens, refs : Int]
    <2>1. DOMAIN senders' = DOMAIN senders
      BY <1>e
    <2> QED BY <1>e, <2>1 DEF TypeOK
  <1>h. id \in TaskIds
    BY <1>b, <1>c, ConfigFacts DEF TaskIds
  <1>i. Objects(senders)' = Objects(senders) /\ DOMAIN senders' = DOMAIN senders
    BY <1>e, <1>g DEF Objects
  <1>j. \A t \in TaskIds : gate'[t] = IF t = id THEN "open" ELSE gate[t]
    BY <1>e DEF TypeOK
  <1>k. {<<s, senders[s].gen>> : s \in tc.senders} \subseteq SenderIds
    BY <1>d, ObjectsTyped
  <1>l. /\ uses' \in [TaskIds -> SUBSET SenderIds]
        /\ uses'[id] = {<<s, senders[s].gen>> : s \in tc.senders}
        /\ \A t \in TaskIds : t # id => uses'[t] = uses[t]
    BY <1>e, <1>h, <1>k DEF TypeOK
  <1>1. TypeOK'
    <2>1. senders' \in [DOMAIN senders' -> [cfg : SenderConfigs, gen : Gens, refs : Int]]
      BY <1>e, <1>g
    <2>2. tc \in TaskConfigs
      BY <1>b, <1>c, ConfigFacts
    <2>3. \A m \in DOMAIN tasks' : tasks'[m] \in [cfg : TaskConfigs, gen : Gens]
      BY <1>b, <1>f, <2>2 DEF TypeOK
    <2>4. tasks' \in [DOMAIN tasks' -> [cfg : TaskConfigs, gen : Gens]]
      BY <1>f, <2>3
    <2>5. gate' \in [TaskIds -> {"none", "open", "closing", "shut"}]
      BY <1>e DEF TypeOK
    <2> QED BY <1>a, <1>e, <1>f, <1>i, <1>l, <2>1, <2>4, <2>5 DEF TypeOK
  <1>2. ControlInv'
    BY <1>a, <1>b, <1>e DEF ControlInv, Idle, Early, Settling, Delta, Stopping
  <1>3. AgeInv'
    BY <1>a, <1>b, <1>e, <1>f, <1>g, <1>i DEF AgeInv, Early, Gens
  <1>4. PlanInv'
    BY <1>a, <1>e DEF PlanInv, Idle, Early, Settling, Delta
  <1>5. GateInv'
    <2>1. Objects(tasks') = Objects(tasks) \cup {id}
      BY <1>a, <1>f DEF Objects
    <2>2. \A t \in Objects(tasks') : gate'[t] = "open"
      BY <1>a, <1>h, <1>j, <2>1, ObjectsTyped DEF GateInv
    <2>3. \A t \in TaskIds : gate'[t] = "open" => t \in Objects(tasks')
      BY <1>j, <2>1 DEF GateInv
    <2> HIDE DEF id
    <2> QED BY <1>a, <1>e, <1>j, <2>2, <2>3 DEF GateInv
  <1>6. UseInv'
    <2>1. IsFiniteSet(DOMAIN tasks')
      BY <1>f, FS_AddElement DEF UseInv
    <2>2. ASSUME NEW m \in DOMAIN tasks
          PROVE  /\ tasks'[m].cfg.senders \subseteq DOMAIN senders'
                 /\ ~Outgoing(m)' => tasks'[m].cfg.pipelines \subseteq DOMAIN pipelines'
                                        /\ Bound(m)'
      <3>1. tasks'[m] = tasks[m] /\ (Outgoing(m)' <=> Outgoing(m)) /\ m # n
        BY <1>a, <1>e, <1>f DEF Outgoing
      <3>2. tasks[m].cfg.senders \subseteq DOMAIN senders
        BY DEF UseInv
      <3>3. {<<s, senders'[s].gen>> : s \in tasks[m].cfg.senders} =
              {<<s, senders[s].gen>> : s \in tasks[m].cfg.senders}
        BY <1>g, <3>2
      <3>4. <<m, tasks[m].gen>> \in TaskIds /\ <<m, tasks[m].gen>> # id
        BY <3>1, ObjectsTyped
      <3>5. /\ uses'[<<m, tasks[m].gen>>] = uses[<<m, tasks[m].gen>>]
            /\ runs'[<<m, tasks[m].gen>>] = runs[<<m, tasks[m].gen>>]
        BY <1>e, <1>l, <3>4
      <3> QED BY <1>a, <1>i, <3>1, <3>2, <3>3, <3>5 DEF UseInv, Bound
    <2>3. {<<s, senders'[s].gen>> : s \in tc.senders} = {<<s, senders[s].gen>> : s \in tc.senders}
      BY <1>d, <1>g
    <2>4. id \in DOMAIN runs
      BY <1>h DEF TypeOK
    <2>5. Bound(n)'
      BY <1>a, <1>e, <1>f, <1>h, <1>l, <2>3, <2>4 DEF Bound
    <2> QED BY <1>a, <1>d, <1>f, <1>i, <2>1, <2>2, <2>5 DEF UseInv
  <1>7. SenderInv'
    BY <1>a, <1>e, <1>i DEF SenderInv
  <1>8. SendersAccounted'
    <2>1. ASSUME NEW s \in DOMAIN senders
          PROVE  senders'[s].refs =
                   Cardinality({t \in DOMAIN tasks' : s \in tasks'[t].cfg.senders})
      <3> DEFINE U == {t \in DOMAIN tasks : s \in tasks[t].cfg.senders}
      <3>1. {t \in DOMAIN tasks' : s \in tasks'[t].cfg.senders} =
              IF s \in tc.senders THEN U \cup {n} ELSE U
        BY <1>f
      <3>2. IsFiniteSet(U) /\ senders[s].refs = Cardinality(U) /\ n \notin U
        BY <1>a, FS_Subset DEF UseInv, SendersAccounted, RefsExact
      <3>3. Cardinality(U \cup {n}) = Cardinality(U) + 1
        BY <3>2, FS_AddElement
      <3> HIDE DEF U
      <3> QED BY <1>g, <3>1, <3>2, <3>3
    <2> QED BY <1>a, <1>i, <2>1 DEF SendersAccounted, RefsExact
  <1>9. OpenWhileUsed'
    <2>1. \A s \in uses'[id] : snd[s] = "open"
      BY <1>a, <1>d, <1>l DEF SenderInv, Objects
    <2> QED BY <1>a, <1>j, <1>l, <2>1 DEF OpenWhileUsed
  <1>10. TargetInv'
    <2>1. \A m \in DOMAIN tasks' : ~Outgoing(m)' =>
            m \in DOMAIN next.tasks /\ tasks'[m].cfg = next.tasks[m]
      BY <1>a, <1>c, <1>e, <1>f DEF TargetInv, Outgoing
    <2>2. \A m \in DOMAIN next.tasks : m \in plan.added \/ m \in DOMAIN tasks' \ plan.removed
      BY <1>a, <1>f DEF TargetInv
    <2> QED
      BY <1>a, <1>e, <1>i, <1>g, <2>1, <2>2 DEF TargetInv, Applied, Settling, Idle
  <1>11. ReceiverInv'
    BY <1>a, <1>e DEF ReceiverInv, Delta, Early, Settling, Idle
  <1>12. RouteInv'
    BY <1>a, <1>e DEF RouteInv, Rerouting
  <1>13. StageInv'
    BY <1>a, <1>e DEF StageInv, Applied, Settling, Idle
  <1> QED
    BY <1>1, <1>2, <1>3, <1>4, <1>5, <1>6, <1>7, <1>8, <1>9, <1>10, <1>11, <1>12, <1>13

LEMMA RemoveTaskDoneStep ==
  ASSUME StoreInv, RemoveTaskDone
  PROVE  StoreInv'
  <1> USE DEF
    StoreInv, LifeInv, RemoveTaskDone, store, maps, taskHeap, recvHeap, update
  <1>1. TypeOK' BY DEF TypeOK
  <1>2. ControlInv' BY DEF ControlInv, Idle, Early, Settling, Delta, Stopping
  <1>3. AgeInv' BY DEF AgeInv, Early
  <1>4. PlanInv'
    BY DEF PlanInv, Idle, Early, Settling, Delta, Effective, Objects
  <1>5. GateInv' BY DEF TypeOK, ControlInv, GateInv, Objects
  <1>6. UseInv' BY DEF UseInv, Outgoing, Bound
  <1>7. SenderInv' BY DEF SenderInv, Objects
  <1>8. SendersAccounted' BY DEF SendersAccounted, RefsExact, Objects
  <1>9. OpenWhileUsed' BY DEF OpenWhileUsed
  <1>10. TargetInv' BY DEF TargetInv, Applied, Settling, Idle, Outgoing, Cfgs
  <1>11. ReceiverInv' BY DEF ReceiverInv, Delta, Early, Settling, Idle
  <1>12. RouteInv'
    BY DEF RouteInv, Rerouting, Redirecting, Stopping, Objects,
    CompiledSelector
  <1>13. StageInv' BY DEF StageInv, Applied, Settling, Idle, StagesOf
  <1> QED
    BY <1>1, <1>2, <1>3, <1>4, <1>5, <1>6, <1>7, <1>8, <1>9, <1>10, <1>11, <1>12,
       <1>13

LEMMA CollectSendersStep ==
  ASSUME StoreInv, CollectSenders
  PROVE  StoreInv'
  <1> USE DEF StoreInv, LifeInv, taskHeap, recvHeap, update
  <1> DEFINE unused == {n \in DOMAIN senders : senders[n].refs <= 0}
             closed == {<<n, senders[n].gen>> : n \in unused}
  <1>a. /\ pc = "tasks" /\ pc' = "collected" /\ busy = None
        /\ \A n \in plan.removed : n \in DOMAIN tasks => tasks[n].gen = gen
        /\ plan.added \subseteq DOMAIN tasks
        /\ senders' = Without(senders, unused) /\ snd' = SetObjects(snd, closed, "closed")
        /\ stageCache' = Collected(Recounted(stageCache))
        /\ UNCHANGED <<receivers, selectors, taskSets, tasks, pipelines, gate, uses, runs,
                       inside, phase, routes, stopCalls, gen, next, plan, before, built,
                       toClose, busy, result, failures, todo>>
    BY DEF CollectSenders, TasksUpdated, RemovalsDone
  <1>b. next \in Configs /\ gen \in Gens /\ gen > 0
    BY <1>a, Updating
  <1>c. \A n \in DOMAIN senders :
          n \in unused <=> \A t \in DOMAIN tasks : n \notin tasks[t].cfg.senders
    BY UsedHasRefs DEF SendersAccounted
  <1>d. /\ DOMAIN senders' = DOMAIN senders \ unused
        /\ \A n \in DOMAIN senders' : senders'[n] = senders[n]
        /\ senders' = [n \in DOMAIN senders' |-> senders[n]]
    BY <1>a DEF Without, Restrict
  <1> HIDE DEF unused
  <1>e. /\ closed \subseteq Objects(senders) /\ closed \subseteq SenderIds
        /\ closed \cap toClose = {} /\ closed \cap Objects(senders') = {}
        /\ Objects(senders') \subseteq Objects(senders)
        /\ Objects(senders) \subseteq Objects(senders') \cup closed
    <2>1. closed \subseteq Objects(senders) /\ Objects(senders') \subseteq Objects(senders)
      BY <1>d DEF Objects, unused
    <2>2. closed \cap Objects(senders') = {}
      BY <1>d DEF Objects
    <2>3. Objects(senders) \subseteq Objects(senders') \cup closed
      BY <1>d DEF Objects
    <2> QED BY <2>1, <2>2, <2>3, ObjectsTyped DEF SenderInv
  <1> HIDE DEF closed
  <1>f. /\ snd' \in [SenderIds -> {"unbuilt", "open", "closing", "closed"}]
        /\ \A s \in SenderIds : snd'[s] = IF s \in closed THEN "closed" ELSE snd[s]
    BY <1>a DEF SetObjects, TypeOK
  <1>g. \A n \in DOMAIN tasks : ~Outgoing(n)
    BY <1>a DEF Outgoing
  <1>h. \A n \in DOMAIN tasks : tasks[n].cfg.senders \subseteq DOMAIN senders'
    BY <1>c, <1>d DEF UseInv
  <1>i. \A t \in TaskIds : gate[t] # "closing"
    BY <1>a, NoneAssumption DEF GateInv
  <1>1. TypeOK'
    <2>1. senders' \in [DOMAIN senders' -> [cfg : SenderConfigs, gen : Gens, refs : Int]]
      BY <1>d DEF TypeOK
    <2> QED BY <1>a, <1>d, <1>f, <2>1 DEF TypeOK
  <1>2. ControlInv'
    BY <1>a, <1>b DEF ControlInv, Idle, Early, Settling, Delta, Stopping
  <1>3. AgeInv'
    BY <1>a, <1>d DEF AgeInv, Early
  <1>4. PlanInv'
    BY <1>a DEF PlanInv, Idle, Early, Settling, Delta
  <1>5. GateInv'
    BY <1>a, <1>i DEF GateInv, Objects
  <1>6. UseInv'
    <2>1. ASSUME NEW n \in DOMAIN tasks
          PROVE  tasks[n].cfg.pipelines \subseteq DOMAIN pipelines /\ Bound(n)'
      <3>1. {<<s, senders'[s].gen>> : s \in tasks[n].cfg.senders} =
              {<<s, senders[s].gen>> : s \in tasks[n].cfg.senders}
        BY <1>d, <1>h
      <3> QED BY <1>a, <1>g, <3>1 DEF UseInv, Bound
    <2> QED BY <1>a, <1>h, <2>1 DEF UseInv
  <1>7. SenderInv'
    <2>1. \A s \in Objects(senders') \cup toClose : s \in SenderIds /\ s \notin closed /\ snd[s] = "open"
      BY <1>a, <1>e, ObjectsTyped DEF SenderInv, TypeOK
    <2>2. toClose \cap Objects(senders') = {}
      BY <1>e DEF SenderInv
    <2> QED BY <1>a, <1>f, <2>1, <2>2 DEF SenderInv
  <1>8. SendersAccounted'
    <2>1. RefsExact'
      BY <1>a, <1>d DEF SendersAccounted, RefsExact
    <2>2. \A s \in SenderIds : snd'[s] = "open" => s \in Objects(senders') \cup toClose
      BY <1>e, <1>f DEF SendersAccounted
    <2> QED BY <1>a, <2>1, <2>2 DEF SendersAccounted
  <1>9. OpenWhileUsed'
    <2>1. ASSUME NEW t \in TaskIds, gate[t] = "open", NEW s \in uses[t] PROVE snd'[s] = "open"
      <3>1. PICK n \in DOMAIN tasks : t = <<n, tasks[n].gen>>
        BY <2>1 DEF GateInv, Objects
      <3>2. PICK m \in tasks[n].cfg.senders : s = <<m, senders[m].gen>>
        BY <1>g, <2>1, <3>1 DEF UseInv, Bound
      <3>3. s \in Objects(senders')
        BY <1>d, <1>h, <3>2 DEF Objects
      <3> QED BY <1>e, <1>f, <2>1, <3>3, ObjectsTyped DEF OpenWhileUsed
    <2> QED BY <1>a, <1>i, <2>1 DEF OpenWhileUsed
  <1>10. TargetInv'
    <2>1. \A n \in DOMAIN tasks : n \in DOMAIN next.tasks /\ tasks[n].cfg = next.tasks[n]
      BY <1>a, <1>g DEF TargetInv
    <2>2. DOMAIN next.tasks \subseteq DOMAIN tasks
      BY <1>a DEF TargetInv
    <2>3. Cfgs(tasks) = next.tasks
      <3>1. next.tasks = [n \in DOMAIN next.tasks |-> next.tasks[n]]
        BY <1>b, ConfigFacts DEF ConfigMaps, IsMap
      <3> QED BY <2>1, <2>2, <3>1 DEF Cfgs
    <2>4. \A n \in DOMAIN senders' : n \in DOMAIN next.senders /\ senders'[n].cfg = next.senders[n]
      <3>1. TAKE n \in DOMAIN senders'
      <3>2. PICK t \in DOMAIN tasks : n \in tasks[t].cfg.senders
        BY <1>c, <1>d
      <3>3. n \in DOMAIN next.senders
        BY <1>b, <2>1, <3>2, ConfigFacts DEF ValidConfig
      <3> QED BY <1>a, <1>d, <3>3 DEF TargetInv
    <2> QED BY <1>a, <2>3, <2>4 DEF TargetInv, Applied, Settling, Idle, Cfgs
  <1>11. ReceiverInv'
    BY <1>a DEF ReceiverInv, Delta, Early, Settling, Idle
  <1>12. RouteInv'
    BY <1>a DEF RouteInv, Rerouting, Redirecting, Stopping, Objects, CompiledSelector
  <1>13. StageInv'
    <2>1. ASSUME NEW sig \in DOMAIN stageCache'
          PROVE  /\ stageCache'[sig] # {}
                 /\ stageCache'[sig] = {n \in DOMAIN tasks : sig \in StagesOf(tasks[n].cfg, pipelines)}
      <3>1. /\ sig \in DOMAIN Recounted(stageCache)
            /\ stageCache'[sig] = Recounted(stageCache)[sig]
            /\ stageCache'[sig] # {}
        BY <1>a DEF Collected, Restrict
      <3>2. Recounted(stageCache)[sig] =
              {n \in DOMAIN tasks : sig \in StagesOf(Cfgs(tasks)[n], pipelines)}
        BY <3>1 DEF Recounted, Retained, Cfgs
      <3> QED BY <3>1, <3>2 DEF Cfgs
    <2> QED BY <1>a, <2>1 DEF StageInv, StagesOf
  <1> QED
    BY <1>1, <1>2, <1>3, <1>4, <1>5, <1>6, <1>7, <1>8, <1>9, <1>10, <1>11, <1>12, <1>13

LEMMA DropReceiversStep ==
  ASSUME StoreInv, DropReceivers
  PROVE  StoreInv'
  <1> USE DEF
    StoreInv, LifeInv, DropReceivers, Without, Restrict, store, maps, taskHeap,
    recvHeap, update
  <1>a. /\ DOMAIN receivers' \subseteq DOMAIN receivers
        /\ \A n \in DOMAIN receivers' : receivers'[n] = receivers[n]
        /\ receivers' = [n \in DOMAIN receivers' |-> receivers[n]]
    OBVIOUS
  <1>b. /\ DOMAIN receivers' \subseteq ReceiverNames
        /\ receivers' \in [DOMAIN receivers' -> [cfg : ReceiverConfigs, gen : Gens]]
    BY <1>a DEF TypeOK
  <1>c. stopCalls' \subseteq ReceiverIds
    BY ObjectsTyped DEF TypeOK
  <1>1. TypeOK' BY <1>b, <1>c DEF TypeOK
  <1>2. ControlInv' BY DEF ControlInv, Idle, Early, Settling, Delta, Stopping
  <1>3. AgeInv' BY DEF AgeInv, Early
  <1>4. PlanInv'
    BY DEF PlanInv, Idle, Early, Settling, Delta, Effective, Objects
  <1>5. GateInv' BY DEF TypeOK, ControlInv, GateInv, Objects
  <1>6. UseInv' BY DEF UseInv, Outgoing, Bound
  <1>7. SenderInv' BY DEF SenderInv, Objects
  <1>8. SendersAccounted' BY DEF SendersAccounted, RefsExact, Objects
  <1>9. OpenWhileUsed' BY DEF OpenWhileUsed
  <1>10. TargetInv' BY DEF TargetInv, Applied, Settling, Idle, Outgoing, Cfgs
  <1>11. ReceiverInv' BY DEF ReceiverInv, Delta, Early, Settling, Idle
  <1>12. RouteInv'
    BY DEF RouteInv, Rerouting, Redirecting, Stopping, Objects,
    CompiledSelector
  <1>13. StageInv' BY DEF StageInv, Applied, Settling, Idle, StagesOf
  <1> QED
    BY <1>1, <1>2, <1>3, <1>4, <1>5, <1>6, <1>7, <1>8, <1>9, <1>10, <1>11, <1>12,
       <1>13

\* When the tasks are those of the configuration every selector can be compiled.
LEMMA CanCompile ==
  ASSUME StoreInv, pc = "commit"
  PROVE  /\ next \in Configs /\ gen \in Gens /\ gen > 0
         /\ selectors = next.selectors /\ taskSets = next.taskSets
         /\ DOMAIN tasks = DOMAIN next.tasks
         /\ Resolvable(tasks, selectors, taskSets)
         /\ \A rcvs : Rebuilt(rcvs, tasks, selectors, taskSets)
                        \in [ReceiverIds -> [Keys -> SUBSET TaskIds]]
  <1> USE DEF StoreInv
  <1>1. next \in Configs /\ gen \in Gens /\ gen > 0
    BY Updating
  <1>2. selectors = next.selectors /\ taskSets = next.taskSets /\ Cfgs(tasks) = next.tasks
    BY DEF TargetInv, Applied, Settling
  <1>3. DOMAIN tasks = DOMAIN next.tasks
    BY <1>2 DEF Cfgs
  <1>4. \A ts : TasksOfSet(taskSets, ts) \subseteq DOMAIN tasks
    BY <1>1, <1>2, <1>3, ConfigFacts DEF ValidConfig, TasksOfSet
  <1>5. Resolvable(tasks, selectors, taskSets)
    BY <1>4 DEF Resolvable
  <1>6. \A rcvs : Rebuilt(rcvs, tasks, selectors, taskSets)
                    \in [ReceiverIds -> [Keys -> SUBSET TaskIds]]
    BY <1>1, <1>2, <1>3, RebuiltTyped, ObjectsTyped DEF TypeOK
  <1> QED BY <1>1, <1>2, <1>3, <1>5, <1>6

LEMMA CommitReceiverStep ==
  ASSUME StoreInv, NEW n \in ReceiverNames, CommitReceiver(n)
  PROVE  StoreInv'
  <1> USE DEF StoreInv, LifeInv, taskHeap, update
  <1>a. /\ pc = "commit" /\ busy = None /\ n \in DOMAIN built
        /\ receivers' = With(receivers, [r \in {n} |-> built[n]])
        /\ routes' = Rebuilt(receivers', tasks, selectors, taskSets)
        /\ phase' = [phase EXCEPT ![<<n, gen>>] = "starting"]
        /\ busy' = IF n \in DOMAIN receivers THEN <<n, receivers[n].gen>> ELSE None
        /\ built' = Without(built, {n})
        /\ UNCHANGED <<pc, result, failures, selectors, taskSets, senders, tasks, pipelines,
                       stageCache, snd, gate, uses, runs, inside, stopCalls, gen, next, plan,
                       before, toClose, todo>>
    BY CanCompile DEF CommitReceiver
  <1>b. /\ n \in DOMAIN next.receivers /\ built[n].cfg = next.receivers[n]
        /\ built[n].gen = gen /\ plan.receivers
    BY <1>a DEF ReceiverInv
  <1>c. /\ DOMAIN receivers' = DOMAIN receivers \cup {n}
        /\ receivers'[n] = built[n]
        /\ \A m \in DOMAIN receivers \ {n} : receivers'[m] = receivers[m]
        /\ receivers' = [m \in DOMAIN receivers' |-> receivers'[m]]
    BY <1>a DEF With
  <1>d. /\ DOMAIN built' = DOMAIN built \ {n}
        /\ \A m \in DOMAIN built' : built'[m] = built[m]
        /\ built' = [m \in DOMAIN built' |-> built[m]]
    BY <1>a DEF Without, Restrict
  <1>1. TypeOK'
    <2>1. \A m \in DOMAIN receivers' : receivers'[m] \in [cfg : ReceiverConfigs, gen : Gens]
      BY <1>a, <1>c DEF TypeOK
    <2>2. receivers' \in [DOMAIN receivers' -> [cfg : ReceiverConfigs, gen : Gens]]
      BY <1>c, <2>1
    <2>3. DOMAIN receivers' \subseteq ReceiverNames
      BY <1>c DEF TypeOK
    <2>4. built' \in [DOMAIN built' -> [cfg : ReceiverConfigs, gen : Gens]]
      BY <1>d DEF TypeOK
    <2>5. DOMAIN built' \subseteq ReceiverNames
      BY <1>d DEF TypeOK
    <2>6. routes' \in [ReceiverIds -> [Keys -> SUBSET TaskIds]]
      BY <1>a, CanCompile
    <2>7. phase' \in [ReceiverIds -> {"none", "built", "starting", "running", "stopped"}]
      BY <1>a DEF TypeOK
    <2>8. busy' \in TaskIds \cup ReceiverIds \cup {None}
      BY <1>a, ObjectsTyped
    <2> QED
      BY <1>a, <2>2, <2>3, <2>4, <2>5, <2>6, <2>7, <2>8 DEF TypeOK
  <1>2. ControlInv'
    <2>1. gen > 0
      BY <1>a, CanCompile
    <2> QED BY <1>a, <2>1 DEF ControlInv, Idle, Early, Settling, Delta, Stopping, TypeOK
  <1>3. AgeInv'
    BY <1>a DEF AgeInv, Early
  <1>4. PlanInv'
    BY <1>a DEF PlanInv, Idle, Early, Settling, Delta
  <1>5. GateInv'
    BY <1>a DEF GateInv, Objects
  <1>6. UseInv'
    BY <1>a DEF UseInv, Outgoing, Bound
  <1>7. SenderInv'
    BY <1>a DEF SenderInv, Objects
  <1>8. SendersAccounted'
    BY <1>a DEF SendersAccounted, RefsExact, Objects
  <1>9. OpenWhileUsed'
    BY <1>a DEF OpenWhileUsed
  <1>10. TargetInv'
    BY <1>a DEF TargetInv, Applied, Settling, Idle, Cfgs
  <1>11. ReceiverInv'
    <2>1. \A m \in DOMAIN built' : /\ m \in DOMAIN next.receivers
                                   /\ built'[m] = [cfg |-> next.receivers[m], gen |-> gen]
      BY <1>d DEF ReceiverInv
    <2>2. \A m \in DOMAIN next.receivers :
            m \in DOMAIN built' \/ (m \in DOMAIN receivers' /\ receivers'[m].cfg = next.receivers[m])
      BY <1>a, <1>b, <1>c, <1>d DEF ReceiverInv, Delta, Settling
    <2>3. DOMAIN receivers' \subseteq DOMAIN next.receivers
      BY <1>a, <1>b, <1>c DEF ReceiverInv
    <2> QED BY <1>a, <1>b, <2>1, <2>2, <2>3 DEF ReceiverInv
  <1>12. RouteInv'
    BY <1>a, <1>b DEF RouteInv, Rerouting
  <1>13. StageInv'
    BY <1>a DEF StageInv, Applied, Settling, Idle, StagesOf
  <1> QED
    BY <1>1, <1>2, <1>3, <1>4, <1>5, <1>6, <1>7, <1>8, <1>9, <1>10, <1>11, <1>12, <1>13

LEMMA RebuildSelectorsStep ==
  ASSUME StoreInv, RebuildSelectors
  PROVE  StoreInv'
  <1> USE DEF StoreInv, LifeInv, store, maps, taskHeap, update
  <1>a. /\ pc = "commit" /\ pc' = "close" /\ busy = None /\ DOMAIN built = {}
        /\ \/ /\ routes' = routes /\ ~plan.routing /\ ~plan.receivers
              /\ plan.added \cup plan.removed = {}
           \/ routes' = Rebuilt(receivers, tasks, selectors, taskSets)
        /\ UNCHANGED <<receivers, result, failures, selectors, taskSets, senders, tasks,
                       pipelines, stageCache, snd, gate, uses, runs, inside, phase, stopCalls,
                       gen, next, plan, before, toClose, todo, built, busy>>
    BY CanCompile DEF RebuildSelectors
  <1>1. TypeOK'
    <2>1. routes' \in [ReceiverIds -> [Keys -> SUBSET TaskIds]]
      BY <1>a, CanCompile DEF TypeOK
    <2> QED BY <1>a, <2>1 DEF TypeOK
  <1>2. ControlInv'
    BY <1>a DEF ControlInv, Idle, Early, Settling, Delta, Stopping
  <1>3. AgeInv'
    BY <1>a DEF AgeInv, Early
  <1>4. PlanInv'
    BY <1>a DEF PlanInv, Idle, Early, Settling, Delta
  <1>5. GateInv'
    BY <1>a DEF GateInv, Objects
  <1>6. UseInv'
    BY <1>a DEF UseInv, Outgoing, Bound
  <1>7. SenderInv'
    BY <1>a DEF SenderInv, Objects
  <1>8. SendersAccounted'
    BY <1>a DEF SendersAccounted, RefsExact, Objects
  <1>9. OpenWhileUsed'
    BY <1>a DEF OpenWhileUsed
  <1>10. TargetInv'
    BY <1>a DEF TargetInv, Applied, Settling, Idle, Cfgs
  <1>11. ReceiverInv'
    BY <1>a DEF ReceiverInv, Delta, Early, Settling, Idle
  <1>12. RouteInv'
    <2>1. CASE /\ routes' = routes /\ ~plan.routing /\ ~plan.receivers
               /\ plan.added \cup plan.removed = {}
      BY <1>a, <2>1
      DEF RouteInv, Rerouting, Redirecting, Stopping, Objects, CompiledSelector
    <2>2. CASE routes' = Rebuilt(receivers, tasks, selectors, taskSets)
      <3>1. \A n \in DOMAIN receivers :
              routes'[<<n, receivers[n].gen>>] =
                CompiledSelector(tasks, selectors, taskSets, receivers[n].cfg.selector)
        BY <2>2, ObjectsTyped, RebuiltRoutes
      <3>2. \A r \in Objects(receivers), k \in Keys : routes'[r][k] \subseteq Objects(tasks)
        <4>1. TAKE r \in Objects(receivers), k \in Keys
        <4>2. PICK n \in DOMAIN receivers : r = <<n, receivers[n].gen>>
          BY DEF Objects
        <4> QED BY <1>a, <3>1, <4>2, CanCompile, CompiledLeadsToTasks
      <3> QED BY <1>a, <3>1, <3>2 DEF RouteInv, Objects, CompiledSelector
    <2> QED BY <1>a, <2>1, <2>2
  <1>13. StageInv'
    BY <1>a DEF StageInv, Applied, Settling, Idle, StagesOf
  <1> QED
    BY <1>1, <1>2, <1>3, <1>4, <1>5, <1>6, <1>7, <1>8, <1>9, <1>10, <1>11, <1>12, <1>13

LEMMA StopReplacedReceiverStep ==
  ASSUME StoreInv, StopReplacedReceiver
  PROVE  StoreInv'
  <1> USE DEF
    StoreInv, LifeInv, StopReplacedReceiver, Stopped, store, maps, taskHeap,
    recvHeap, update
  <1>1. TypeOK' BY DEF TypeOK
  <1>2. ControlInv' BY DEF ControlInv, Idle, Early, Settling, Delta, Stopping
  <1>3. AgeInv' BY DEF AgeInv, Early
  <1>4. PlanInv'
    BY DEF PlanInv, Idle, Early, Settling, Delta, Effective, Objects
  <1>5. GateInv' BY DEF TypeOK, ControlInv, GateInv, Objects
  <1>6. UseInv' BY DEF UseInv, Outgoing, Bound
  <1>7. SenderInv' BY DEF SenderInv, Objects
  <1>8. SendersAccounted' BY DEF SendersAccounted, RefsExact, Objects
  <1>9. OpenWhileUsed' BY DEF OpenWhileUsed
  <1>10. TargetInv' BY DEF TargetInv, Applied, Settling, Idle, Outgoing, Cfgs
  <1>11. ReceiverInv' BY DEF ReceiverInv, Delta, Early, Settling, Idle
  <1>12. RouteInv'
    BY DEF RouteInv, Rerouting, Redirecting, Stopping, Objects,
    CompiledSelector
  <1>13. StageInv' BY DEF StageInv, Applied, Settling, Idle, StagesOf
  <1> QED
    BY <1>1, <1>2, <1>3, <1>4, <1>5, <1>6, <1>7, <1>8, <1>9, <1>10, <1>11, <1>12,
       <1>13

LEMMA CloseReplacedSendersStep ==
  ASSUME StoreInv, CloseReplacedSenders
  PROVE  StoreInv'
  <1> USE DEF
    StoreInv, LifeInv, CloseReplacedSenders, store, maps, taskHeap, recvHeap,
    update
  <1>a. DOMAIN tasks # {}
    <2>1. next \in Configs /\ Cfgs(tasks) = next.tasks
      BY Updating DEF TargetInv, Applied, Settling
    <2> QED BY <2>1, ConfigFacts DEF ValidConfig, Cfgs
  <1>b. /\ snd' \in [SenderIds -> {"unbuilt", "open", "closing", "closed"}]
        /\ \A s \in SenderIds : snd'[s] = IF s \in toClose THEN "closed" ELSE snd[s]
    BY DEF SetObjects, TypeOK
  <1>c. Objects(senders)' = Objects(senders) /\ Objects(senders) \subseteq SenderIds
    BY ObjectsTyped DEF Objects
  <1>d. \A t \in TaskIds : gate[t] \in {"open", "closing"} => uses[t] \subseteq Objects(senders)
    BY DEF GateInv, UseInv, Outgoing, Bound, Objects
  <1>1. TypeOK' BY <1>b DEF TypeOK
  <1>2. ControlInv'
    BY <1>a DEF ControlInv, Idle, Early, Settling, Delta, Stopping
  <1>3. AgeInv' BY DEF AgeInv, Early
  <1>4. PlanInv'
    BY DEF PlanInv, Idle, Early, Settling, Delta, Effective, Objects
  <1>5. GateInv' BY DEF TypeOK, ControlInv, GateInv, Objects
  <1>6. UseInv' BY DEF UseInv, Outgoing, Bound
  <1>7. SenderInv' BY <1>b, <1>c DEF SenderInv
  <1>8. SendersAccounted' BY <1>b, <1>c DEF SendersAccounted, RefsExact
  <1>9. OpenWhileUsed' BY <1>b, <1>c, <1>d DEF OpenWhileUsed, SenderInv, TypeOK
  <1>10. TargetInv' BY DEF TargetInv, Applied, Settling, Idle, Outgoing, Cfgs
  <1>11. ReceiverInv' BY DEF ReceiverInv, Delta, Early, Settling, Idle
  <1>12. RouteInv'
    BY DEF RouteInv, Rerouting, Redirecting, Stopping, Objects,
    CompiledSelector
  <1>13. StageInv' BY DEF StageInv, Applied, Settling, Idle, StagesOf
  <1> QED
    BY <1>1, <1>2, <1>3, <1>4, <1>5, <1>6, <1>7, <1>8, <1>9, <1>10, <1>11, <1>12,
       <1>13

-----------------------------------------------------------------------------
(* StopAll.                                                                *)

LEMMA BeginShutdownStep ==
  ASSUME StoreInv, BeginShutdown
  PROVE  StoreInv'
  <1> USE DEF
    StoreInv, LifeInv, BeginShutdown, store, maps, taskHeap, recvHeap, update
  <1>1. TypeOK' BY DEF TypeOK
  <1>2. ControlInv' BY DEF ControlInv, Idle, Early, Settling, Delta, Stopping
  <1>3. AgeInv' BY DEF AgeInv, Early
  <1>4. PlanInv'
    BY DEF PlanInv, Idle, Early, Settling, Delta, Effective, Objects
  <1>5. GateInv' BY DEF TypeOK, ControlInv, GateInv, Objects
  <1>6. UseInv' BY DEF UseInv, Outgoing, Bound
  <1>7. SenderInv' BY DEF SenderInv, Objects
  <1>8. SendersAccounted' BY DEF SendersAccounted, RefsExact, Objects
  <1>9. OpenWhileUsed' BY DEF OpenWhileUsed
  <1>10. TargetInv' BY DEF TargetInv, Applied, Settling, Idle, Outgoing, Cfgs
  <1>11. ReceiverInv' BY DEF ReceiverInv, Delta, Early, Settling, Idle
  <1>12. RouteInv'
    BY DEF RouteInv, Rerouting, Redirecting, Stopping, Objects,
    CompiledSelector
  <1>13. StageInv' BY DEF StageInv, Applied, Settling, Idle, StagesOf
  <1> QED
    BY <1>1, <1>2, <1>3, <1>4, <1>5, <1>6, <1>7, <1>8, <1>9, <1>10, <1>11, <1>12,
       <1>13

LEMMA StopAllReceiversStep ==
  ASSUME StoreInv, StopAllReceivers
  PROVE  StoreInv'
  <1> USE DEF
    StoreInv, LifeInv, StopAllReceivers, Stopped, store, maps, taskHeap,
    recvHeap, update
  <1>1. TypeOK' BY DEF TypeOK
  <1>2. ControlInv' BY DEF ControlInv, Idle, Early, Settling, Delta, Stopping
  <1>3. AgeInv' BY DEF AgeInv, Early
  <1>4. PlanInv'
    BY DEF PlanInv, Idle, Early, Settling, Delta, Effective, Objects
  <1>5. GateInv' BY DEF TypeOK, ControlInv, GateInv, Objects
  <1>6. UseInv' BY DEF UseInv, Outgoing, Bound
  <1>7. SenderInv' BY DEF SenderInv, Objects
  <1>8. SendersAccounted' BY DEF SendersAccounted, RefsExact, Objects
  <1>9. OpenWhileUsed' BY DEF OpenWhileUsed
  <1>10. TargetInv' BY DEF TargetInv, Applied, Settling, Idle, Outgoing, Cfgs
  <1>11. ReceiverInv' BY DEF ReceiverInv, Delta, Early, Settling, Idle
  <1>12. RouteInv'
    BY DEF RouteInv, Rerouting, Redirecting, Stopping, Objects,
    CompiledSelector
  <1>13. StageInv' BY DEF StageInv, Applied, Settling, Idle, StagesOf
  <1> QED
    BY <1>1, <1>2, <1>3, <1>4, <1>5, <1>6, <1>7, <1>8, <1>9, <1>10, <1>11, <1>12,
       <1>13

LEMMA StopAllTaskStep ==
  ASSUME StoreInv, NEW i \in TaskIds, StopAllTask(i)
  PROVE  StoreInv'
  <1> USE DEF
    StoreInv, LifeInv, StopAllTask, store, maps, taskHeap, recvHeap, update
  <1>1. TypeOK' BY DEF TypeOK
  <1>2. ControlInv' BY DEF ControlInv, Idle, Early, Settling, Delta, Stopping
  <1>3. AgeInv' BY DEF AgeInv, Early
  <1>4. PlanInv'
    BY DEF PlanInv, Idle, Early, Settling, Delta, Effective, Objects
  <1>5. GateInv' BY NoneAssumption DEF TypeOK, ControlInv, GateInv, Objects
  <1>6. UseInv' BY DEF UseInv, Outgoing, Bound
  <1>7. SenderInv' BY DEF SenderInv, Objects
  <1>8. SendersAccounted' BY DEF SendersAccounted, RefsExact, Objects
  <1>9. OpenWhileUsed' BY DEF OpenWhileUsed
  <1>10. TargetInv' BY DEF TargetInv, Applied, Settling, Idle, Outgoing, Cfgs
  <1>11. ReceiverInv' BY DEF ReceiverInv, Delta, Early, Settling, Idle
  <1>12. RouteInv'
    BY DEF RouteInv, Rerouting, Redirecting, Stopping, Objects,
    CompiledSelector
  <1>13. StageInv' BY DEF StageInv, Applied, Settling, Idle, StagesOf
  <1> QED
    BY <1>1, <1>2, <1>3, <1>4, <1>5, <1>6, <1>7, <1>8, <1>9, <1>10, <1>11, <1>12,
       <1>13

LEMMA StopAllSendersStep ==
  ASSUME StoreInv, StopAllSenders
  PROVE  StoreInv'
  <1> USE DEF
    StoreInv, LifeInv, StopAllSenders, SetObjects, store, maps, taskHeap,
    recvHeap, update
  <1>1. TypeOK' BY DEF TypeOK
  <1>2. ControlInv' BY DEF ControlInv, Idle, Early, Settling, Delta, Stopping
  <1>3. AgeInv' BY DEF AgeInv, Early
  <1>4. PlanInv'
    BY DEF PlanInv, Idle, Early, Settling, Delta, Effective, Objects
  <1>5. GateInv' BY NoneAssumption DEF TypeOK, ControlInv, GateInv, Objects
  <1>6. UseInv' BY DEF UseInv, Outgoing, Bound
  <1>7. SenderInv'
    <2>1. \A s \in SenderIds : snd'[s] # "open"
      BY DEF TypeOK, ControlInv, Settling, SendersAccounted
    <2>2. Objects(senders)' = Objects(senders)
      BY DEF Objects
    <2> QED BY <2>1, <2>2 DEF SenderInv
  <1>8. SendersAccounted'
    BY DEF SendersAccounted, RefsExact, Objects, TypeOK, ControlInv
  <1>9. OpenWhileUsed' BY <1>5 DEF OpenWhileUsed, GateInv
  <1>10. TargetInv' BY DEF TargetInv, Applied, Settling, Idle, Outgoing, Cfgs
  <1>11. ReceiverInv' BY DEF ReceiverInv, Delta, Early, Settling, Idle
  <1>12. RouteInv'
    BY DEF RouteInv, Rerouting, Redirecting, Stopping, Objects,
    CompiledSelector
  <1>13. StageInv' BY DEF StageInv, Applied, Settling, Idle, StagesOf
  <1> QED
    BY <1>1, <1>2, <1>3, <1>4, <1>5, <1>6, <1>7, <1>8, <1>9, <1>10, <1>11, <1>12,
       <1>13

-----------------------------------------------------------------------------
(* Other goroutines.                                                       *)

LEMMA ReceiverStartStep ==
  ASSUME StoreInv, NEW i \in ReceiverIds, ReceiverStart(i)
  PROVE  StoreInv'
  <1> USE DEF
    StoreInv, LifeInv, ReceiverStart, others, store, maps, taskHeap, recvHeap,
    update
  <1>0. Effective' = Effective
    BY DEF Effective, Objects
  <1>1. TypeOK' BY DEF TypeOK
  <1>2. ControlInv' BY DEF ControlInv, Idle, Early, Settling, Delta, Stopping
  <1>3. AgeInv' BY DEF AgeInv, Early
  <1>4. PlanInv' BY <1>0 DEF PlanInv, Idle, Early, Settling, Delta
  <1>5. GateInv' BY DEF TypeOK, ControlInv, GateInv, Objects
  <1>6. UseInv' BY DEF UseInv, Outgoing, Bound
  <1>7. SenderInv' BY DEF SenderInv, Objects
  <1>8. SendersAccounted' BY DEF SendersAccounted, RefsExact, Objects
  <1>9. OpenWhileUsed' BY DEF OpenWhileUsed
  <1>10. TargetInv' BY DEF TargetInv, Applied, Settling, Idle, Outgoing, Cfgs
  <1>11. ReceiverInv' BY DEF ReceiverInv, Delta, Early, Settling, Idle
  <1>12. RouteInv'
    BY DEF RouteInv, Rerouting, Redirecting, Stopping, Objects,
    CompiledSelector
  <1>13. StageInv' BY DEF StageInv, Applied, Settling, Idle, StagesOf
  <1> QED
    BY <1>1, <1>2, <1>3, <1>4, <1>5, <1>6, <1>7, <1>8, <1>9, <1>10, <1>11, <1>12,
       <1>13

LEMMA AsyncStopStep ==
  ASSUME StoreInv, NEW i \in ReceiverIds, AsyncStop(i)
  PROVE  StoreInv'
  <1> USE DEF
    StoreInv, LifeInv, AsyncStop, Stopped, others, store, maps, taskHeap,
    recvHeap, update
  <1>0. Effective' = Effective
    BY DEF Effective, Objects
  <1>1. TypeOK' BY DEF TypeOK
  <1>2. ControlInv' BY DEF ControlInv, Idle, Early, Settling, Delta, Stopping
  <1>3. AgeInv' BY DEF AgeInv, Early
  <1>4. PlanInv' BY <1>0 DEF PlanInv, Idle, Early, Settling, Delta
  <1>5. GateInv' BY DEF TypeOK, ControlInv, GateInv, Objects
  <1>6. UseInv' BY DEF UseInv, Outgoing, Bound
  <1>7. SenderInv' BY DEF SenderInv, Objects
  <1>8. SendersAccounted' BY DEF SendersAccounted, RefsExact, Objects
  <1>9. OpenWhileUsed' BY DEF OpenWhileUsed
  <1>10. TargetInv' BY DEF TargetInv, Applied, Settling, Idle, Outgoing, Cfgs
  <1>11. ReceiverInv' BY DEF ReceiverInv, Delta, Early, Settling, Idle
  <1>12. RouteInv'
    BY DEF RouteInv, Rerouting, Redirecting, Stopping, Objects,
    CompiledSelector
  <1>13. StageInv' BY DEF StageInv, Applied, Settling, Idle, StagesOf
  <1> QED
    BY <1>1, <1>2, <1>3, <1>4, <1>5, <1>6, <1>7, <1>8, <1>9, <1>10, <1>11, <1>12,
       <1>13

LEMMA AsyncCloseStep ==
  ASSUME StoreInv, NEW i \in SenderIds, AsyncClose(i)
  PROVE  StoreInv'
  <1> USE DEF
    StoreInv, LifeInv, AsyncClose, others, store, maps, taskHeap, recvHeap,
    update
  <1>a. {j \in SenderIds : snd'[j] = "open"} = {j \in SenderIds : snd[j] = "open"}
    BY DEF TypeOK
  <1>0. Effective' = Effective
    BY <1>a DEF Effective, Objects
  <1>1. TypeOK' BY DEF TypeOK
  <1>2. ControlInv' BY DEF ControlInv, Idle, Early, Settling, Delta, Stopping
  <1>3. AgeInv' BY DEF AgeInv, Early
  <1>4. PlanInv' BY <1>0 DEF PlanInv, Idle, Early, Settling, Delta
  <1>5. GateInv' BY DEF TypeOK, ControlInv, GateInv, Objects
  <1>6. UseInv' BY DEF UseInv, Outgoing, Bound
  <1>7. SenderInv' BY DEF SenderInv, Objects
  <1>8. SendersAccounted' BY DEF SendersAccounted, RefsExact, Objects
  <1>9. OpenWhileUsed' BY DEF OpenWhileUsed
  <1>10. TargetInv' BY DEF TargetInv, Applied, Settling, Idle, Outgoing, Cfgs
  <1>11. ReceiverInv' BY DEF ReceiverInv, Delta, Early, Settling, Idle
  <1>12. RouteInv'
    BY DEF RouteInv, Rerouting, Redirecting, Stopping, Objects,
    CompiledSelector
  <1>13. StageInv' BY DEF StageInv, Applied, Settling, Idle, StagesOf
  <1> QED
    BY <1>1, <1>2, <1>3, <1>4, <1>5, <1>6, <1>7, <1>8, <1>9, <1>10, <1>11, <1>12,
       <1>13

LEMMA ReceiveStep ==
  ASSUME StoreInv, NEW p \in Packets, NEW i \in ReceiverIds, NEW k \in Keys, Receive(p, i, k)
  PROVE  StoreInv'
  <1> USE DEF
    StoreInv, LifeInv, Receive, others, store, maps, taskHeap, recvHeap, update
  <1>0. Effective' = Effective
    BY DEF Effective, Objects
  <1>1. TypeOK' BY DEF TypeOK
  <1>2. ControlInv' BY DEF ControlInv, Idle, Early, Settling, Delta, Stopping
  <1>3. AgeInv' BY DEF AgeInv, Early
  <1>4. PlanInv' BY <1>0 DEF PlanInv, Idle, Early, Settling, Delta
  <1>5. GateInv' BY DEF TypeOK, ControlInv, GateInv, Objects
  <1>6. UseInv' BY DEF UseInv, Outgoing, Bound
  <1>7. SenderInv' BY DEF SenderInv, Objects
  <1>8. SendersAccounted' BY DEF SendersAccounted, RefsExact, Objects
  <1>9. OpenWhileUsed' BY DEF OpenWhileUsed
  <1>10. TargetInv' BY DEF TargetInv, Applied, Settling, Idle, Outgoing, Cfgs
  <1>11. ReceiverInv' BY DEF ReceiverInv, Delta, Early, Settling, Idle
  <1>12. RouteInv'
    BY DEF RouteInv, Rerouting, Redirecting, Stopping, Objects,
    CompiledSelector
  <1>13. StageInv' BY DEF StageInv, Applied, Settling, Idle, StagesOf
  <1> QED
    BY <1>1, <1>2, <1>3, <1>4, <1>5, <1>6, <1>7, <1>8, <1>9, <1>10, <1>11, <1>12,
       <1>13

LEMMA HandleStep ==
  ASSUME StoreInv, NEW p \in Packets, NEW t \in TaskIds, Handle(p, t)
  PROVE  StoreInv'
  <1> USE DEF
    StoreInv, LifeInv, Handle, others, store, maps, taskHeap, recvHeap, update
  <1>0. Effective' = Effective
    BY DEF Effective, Objects
  <1>1. TypeOK' BY DEF TypeOK
  <1>2. ControlInv' BY DEF ControlInv, Idle, Early, Settling, Delta, Stopping
  <1>3. AgeInv' BY DEF AgeInv, Early
  <1>4. PlanInv' BY <1>0 DEF PlanInv, Idle, Early, Settling, Delta
  <1>5. GateInv' BY DEF TypeOK, ControlInv, GateInv, Objects
  <1>6. UseInv' BY DEF UseInv, Outgoing, Bound
  <1>7. SenderInv' BY DEF SenderInv, Objects
  <1>8. SendersAccounted' BY DEF SendersAccounted, RefsExact, Objects
  <1>9. OpenWhileUsed' BY DEF OpenWhileUsed
  <1>10. TargetInv' BY DEF TargetInv, Applied, Settling, Idle, Outgoing, Cfgs
  <1>11. ReceiverInv' BY DEF ReceiverInv, Delta, Early, Settling, Idle
  <1>12. RouteInv'
    BY DEF RouteInv, Rerouting, Redirecting, Stopping, Objects,
    CompiledSelector
  <1>13. StageInv' BY DEF StageInv, Applied, Settling, Idle, StagesOf
  <1> QED
    BY <1>1, <1>2, <1>3, <1>4, <1>5, <1>6, <1>7, <1>8, <1>9, <1>10, <1>11, <1>12,
       <1>13

LEMMA LeaveStep ==
  ASSUME StoreInv, NEW p \in Packets, NEW t \in TaskIds, Leave(p, t)
  PROVE  StoreInv'
  <1> USE DEF
    StoreInv, LifeInv, Leave, others, store, maps, taskHeap, recvHeap, update
  <1>0. Effective' = Effective
    BY DEF Effective, Objects
  <1>1. TypeOK' BY DEF TypeOK
  <1>2. ControlInv' BY DEF ControlInv, Idle, Early, Settling, Delta, Stopping
  <1>3. AgeInv' BY DEF AgeInv, Early
  <1>4. PlanInv' BY <1>0 DEF PlanInv, Idle, Early, Settling, Delta
  <1>5. GateInv' BY DEF TypeOK, ControlInv, GateInv, Objects
  <1>6. UseInv' BY DEF UseInv, Outgoing, Bound
  <1>7. SenderInv' BY DEF SenderInv, Objects
  <1>8. SendersAccounted' BY DEF SendersAccounted, RefsExact, Objects
  <1>9. OpenWhileUsed' BY DEF OpenWhileUsed
  <1>10. TargetInv' BY DEF TargetInv, Applied, Settling, Idle, Outgoing, Cfgs
  <1>11. ReceiverInv' BY DEF ReceiverInv, Delta, Early, Settling, Idle
  <1>12. RouteInv'
    BY DEF RouteInv, Rerouting, Redirecting, Stopping, Objects,
    CompiledSelector
  <1>13. StageInv' BY DEF StageInv, Applied, Settling, Idle, StagesOf
  <1> QED
    BY <1>1, <1>2, <1>3, <1>4, <1>5, <1>6, <1>7, <1>8, <1>9, <1>10, <1>11, <1>12,
       <1>13

-----------------------------------------------------------------------------
(* The theorems.                                                           *)

LEMMA Stuttering ==
  ASSUME StoreInv, UNCHANGED vars
  PROVE  StoreInv'
  <1> USE DEF StoreInv, vars
  <1>1. TypeOK' BY DEF TypeOK
  <1>2. ControlInv' BY DEF ControlInv, Idle
  <1>3. AgeInv' BY DEF AgeInv
  <1>4. PlanInv'
    <2>1. Effective' = Effective
      BY DEF Effective, Objects
    <2> QED BY <2>1 DEF PlanInv, Idle
  <1>5. LifeInv'
    BY DEF LifeInv, GateInv, UseInv, Outgoing, Bound, SenderInv, SendersAccounted,
       RefsExact, OpenWhileUsed, Objects
  <1>6. TargetInv' BY DEF TargetInv, Applied, Idle, Outgoing, Cfgs
  <1>7. ReceiverInv' BY DEF ReceiverInv, Idle
  <1>8. RouteInv' BY DEF RouteInv, Rerouting, Redirecting, Objects, CompiledSelector
  <1>9. StageInv' BY DEF StageInv, Applied, Idle, StagesOf
  <1> QED BY <1>1, <1>2, <1>3, <1>4, <1>5, <1>6, <1>7, <1>8, <1>9

LEMMA StoreNext == StoreInv /\ [Next]_vars => StoreInv'
  <1> SUFFICES ASSUME StoreInv, [Next]_vars PROVE StoreInv'
    OBVIOUS
  <1>1. CASE UNCHANGED vars
    BY <1>1, Stuttering
  <1>2. CASE \E c \in Configs : UpdateCache(c)
    BY <1>2, UpdateCacheStep
  <1>3. CASE ReplaceAll \/ ReplaceAllFails
    BY <1>3, ReplaceAllStep, ReplaceAllFailsStep
  <1>4. CASE applyBusinessDelta
    BY <1>4, PrepareStep, PrepareFailsStep, PublishRoutingStep, ApplySendersStep,
       ApplySendersFailsStep, RemoveTaskStep, AddTaskStep, CollectSendersStep,
       DropReceiversStep, CommitReceiverStep, StopReplacedReceiverStep,
       RebuildSelectorsStep, CloseReplacedSendersStep DEF applyBusinessDelta
  <1>5. CASE RemoveTaskDone
    BY <1>5, RemoveTaskDoneStep
  <1>6. CASE StopAll
    BY <1>6, StopAllReceiversStep, StopAllSendersStep, StopAllTaskStep DEF StopAll
  <1>7. CASE BeginShutdown
    BY <1>7, BeginShutdownStep
  <1>8. CASE \E i \in ReceiverIds : ReceiverStart(i) \/ AsyncStop(i)
    BY <1>8, ReceiverStartStep, AsyncStopStep
  <1>9. CASE \E i \in SenderIds : AsyncClose(i)
    BY <1>9, AsyncCloseStep
  <1>10. CASE \E p \in Packets :
                \/ \E i \in ReceiverIds, k \in Keys : Receive(p, i, k)
                \/ \E t \in TaskIds : Handle(p, t) \/ Leave(p, t)
    BY <1>10, ReceiveStep, HandleStep, LeaveStep
  <1> QED
    BY <1>1, <1>2, <1>3, <1>4, <1>5, <1>6, <1>7, <1>8, <1>9, <1>10 DEF Next, Updater

\* The store keeps its inductive invariant through cold starts, updates that succeed
\* or fail, and shutdown.
THEOREM StoreInvariant == Spec => []StoreInv
  <1>1. Init => StoreInv
    BY StoreInit
  <1>2. StoreInv /\ [Next]_vars => StoreInv'
    BY StoreNext
  <1> QED BY <1>1, <1>2, PTL DEF Spec

\* The maps of the store and the objects have their types.
THEOREM TypeCorrect == Spec => []TypeOK
  <1>1. StoreInv => TypeOK
    BY DEF StoreInv
  <1> QED BY <1>1, StoreInvariant, PTL

\* SenderState.Refs and the stage cache's TaskRefs count exactly what refers to them,
\* and no open sender is forgotten, after any number of updates.
THEOREM ReferencesAreAccounted == Spec => []ReferencesAccounted
  <1>1. StoreInv => ReferencesAccounted
    BY DEF StoreInv, LifeInv, ReferencesAccounted, StagesAccounted, StageInv, Applied
  <1> QED BY <1>1, StoreInvariant, PTL

\* No path closes a sender that a running or draining task may still call.
THEOREM SendersOpenWhileUsed == Spec => []OpenWhileUsed
  <1>1. StoreInv => OpenWhileUsed
    BY DEF StoreInv, LifeInv
  <1> QED BY <1>1, StoreInvariant, PTL

\* removeTask waits for StopGraceful before addTask builds the next generation, so
\* two of them never work at the same time.
THEOREM SingleGeneration == Spec => []OneGeneration
  <1>1. StoreInv => OneGeneration
    <2> SUFFICES ASSUME StoreInv, NEW t \in TaskIds, NEW u \in TaskIds,
                        t[1] = u[1], t # u,
                        gate[t] \in {"open", "closing"}, gate[u] \in {"open", "closing"}
                 PROVE  FALSE
      BY DEF OneGeneration
    <2> USE DEF StoreInv, LifeInv
    <2>1. ASSUME NEW a \in Objects(tasks), NEW b \in Objects(tasks), a[1] = b[1] PROVE a = b
      BY <2>1 DEF Objects
    <2>2. CASE gate[t] = "open" /\ gate[u] = "open"
      BY <2>1, <2>2 DEF GateInv
    <2>3. ASSUME NEW a \in TaskIds, NEW b \in TaskIds, gate[a] = "open", gate[b] = "closing",
                 a[1] = b[1], a # b
          PROVE  FALSE
      <3>1. a \in Objects(tasks) /\ a[1] \in DOMAIN tasks /\ b = busy /\ b # None
        BY <2>3, NoneAssumption DEF GateInv, Objects
      <3>2. CASE pc = "tasks"
        BY <2>3, <3>1, <3>2 DEF GateInv
      <3>3. CASE pc = "stopTasks"
        BY <2>1, <2>3, <3>1, <3>3 DEF GateInv
      <3> QED BY <2>3, <3>2, <3>3 DEF GateInv
    <2>4. CASE gate[t] = "closing" /\ gate[u] = "closing"
      BY <2>4 DEF GateInv
    <2> QED BY <2>2, <2>3, <2>4
  <1> QED BY <1>1, StoreInvariant, PTL

\* An update that reports success has put the configuration into force, receivers,
\* senders, tasks with their bindings, and routes; one that reports failure has
\* changed nothing that packets experience.
THEOREM UpdateIsAllOrNothing == Spec => []UpdateAllOrNothing
  <1>1. StoreInv => UpdateAllOrNothing
    <2> SUFFICES ASSUME StoreInv PROVE UpdateAllOrNothing
      OBVIOUS
    <2> USE DEF StoreInv, LifeInv
    <2>1. FailedUpdateHarmless
      BY DEF FailedUpdateHarmless, PlanInv
    <2>2. ASSUME Idle("ok")
          PROVE  /\ Cfgs(receivers) = next.receivers
                 /\ Cfgs(tasks) = next.tasks
                 /\ \A n \in DOMAIN tasks : gate[<<n, tasks[n].gen>>] = "open" /\ Bound(n)
                 /\ \A n \in DOMAIN tasks : tasks[n].cfg = next.tasks[n]
                 /\ \A n \in DOMAIN receivers : receivers[n].cfg = next.receivers[n]
                 /\ \A n \in DOMAIN senders : senders[n].cfg = next.senders[n]
                 /\ selectors = next.selectors /\ taskSets = next.taskSets
                 /\ pipelines = next.pipelines
      <3>1. next \in Configs
        BY <2>2 DEF Idle, ControlInv, TypeOK
      <3>2. /\ Cfgs(tasks) = next.tasks
            /\ \A n \in DOMAIN senders : senders[n].cfg = next.senders[n]
            /\ selectors = next.selectors /\ taskSets = next.taskSets
            /\ pipelines = next.pipelines
        BY <2>2 DEF TargetInv, Applied
      <3>3. /\ DOMAIN receivers = DOMAIN next.receivers
            /\ \A n \in DOMAIN receivers : receivers[n].cfg = next.receivers[n]
        BY <2>2 DEF ReceiverInv, Idle
      <3>4. Cfgs(receivers) = next.receivers
        <4>1. next.receivers = [n \in DOMAIN next.receivers |-> next.receivers[n]]
          BY <3>1, ConfigFacts DEF ConfigMaps, IsMap
        <4> QED BY <3>3, <4>1 DEF Cfgs
      <3>5. \A n \in DOMAIN tasks : gate[<<n, tasks[n].gen>>] = "open" /\ Bound(n)
        BY <2>2 DEF Idle, GateInv, UseInv, Outgoing, Objects
      <3>6. \A n \in DOMAIN tasks : tasks[n].cfg = next.tasks[n]
        BY <3>2 DEF Cfgs
      <3> QED BY <3>2, <3>3, <3>4, <3>5, <3>6
    <2>3. ConfigApplied
      BY <2>2 DEF ConfigApplied, Bound
    <2>4. ASSUME Idle("ok"), NEW r \in Objects(receivers), NEW k \in Keys, NEW t \in routes[r][k]
          PROVE  gate[t] = "open"
      BY <2>4 DEF Idle, RouteInv, Stopping, Rerouting, GateInv
    <2>5. ~failures => RoutesApplied
      <3> SUFFICES ASSUME ~failures, Idle("ok"), NEW n \in DOMAIN receivers
                   PROVE  routes[<<n, receivers[n].gen>>] =
                            CompiledSelector(tasks, next.selectors, next.taskSets,
                                             next.receivers[n].selector)
        BY DEF RoutesApplied
      <3>1. routes[<<n, receivers[n].gen>>] =
              CompiledSelector(tasks, selectors, taskSets, receivers[n].cfg.selector)
        BY DEF Idle, RouteInv, Stopping, Rerouting, Redirecting
      <3> QED BY <2>2, <3>1
    <2> QED BY <2>1, <2>3, <2>4, <2>5 DEF UpdateAllOrNothing, UpdateApplied
  <1> QED BY <1>1, StoreInvariant, PTL

\* After StopAll nothing works and no sender is open, also when the cold start or
\* earlier updates failed.
THEOREM ShutdownIsComplete == Spec => []ShutdownComplete
  <1>1. StoreInv => ShutdownComplete
    BY DEF StoreInv, LifeInv, GateInv, SenderInv, ShutdownComplete
  <1> QED BY <1>1, StoreInvariant, PTL

\* A task whose configuration, senders and pipelines the update leaves alone is not
\* stopped by any step of the update.
THEOREM UntouchedKeepRunning == Spec => UntouchedTasksKeepRunning
  <1> DEFINE Untouched(n) ==
        LET tc == before.tasks[n].cfg
        IN  /\ n \in DOMAIN next.tasks /\ next.tasks[n] = tc
            /\ \A s \in tc.senders : before.senders[s].cfg = next.senders[s]
            /\ \A p \in tc.pipelines : before.pipelines[p] = next.pipelines[p]
  <1>1. ASSUME StoreInv, pc \in Delta, NEW n \in DOMAIN before.tasks, Untouched(n)
        PROVE  n \notin plan.removed
    <2> USE DEF StoreInv
    <2> DEFINE tc == before.tasks[n].cfg
               changedSenders == ChangedIn(Cfgs(before.senders), next.senders)
               changedPipelines == ChangedIn(before.pipelines, next.pipelines)
    <2>1. next \in Configs
      BY <1>1, Updating DEF Delta, Early, Settling
    <2>2. /\ tc.senders \subseteq DOMAIN before.senders \cap DOMAIN next.senders
          /\ tc.pipelines \subseteq DOMAIN before.pipelines \cap DOMAIN next.pipelines
      BY <1>1, <2>1, ConfigFacts DEF PlanInv, ValidConfig
    <2>3. tc.senders \cap changedSenders = {} /\ tc.pipelines \cap changedPipelines = {}
      BY <1>1, <2>2 DEF ChangedIn, AddedIn, RemovedIn, Cfgs
    <2>4. plan.removed = RemovedIn(Cfgs(before.tasks), next.tasks)
            \cup Dependents(Cfgs(before.tasks), next.tasks, changedSenders, changedPipelines)
      BY <1>1 DEF PlanInv
    <2> HIDE DEF changedSenders, changedPipelines
    <2> QED BY <1>1, <2>3, <2>4 DEF RemovedIn, Dependents, Cfgs
  <1>2. ASSUME StoreInv, [Next]_vars, pc \notin {"idle", "stopReceivers", "stopTasks"},
               NEW n \in DOMAIN before.tasks, Untouched(n)
        PROVE  gate'[<<n, before.tasks[n].gen>>] = gate[<<n, before.tasks[n].gen>>]
    <2> DEFINE t == <<n, before.tasks[n].gen>>
    <2> USE DEF StoreInv
    <2>a. pc \in Delta => t \in TaskIds
      BY <1>2 DEF PlanInv
    <2>1. CASE gate' = gate
      BY <2>1
    <2>2. CASE ReplaceAll \/ ReplaceAllFails
      BY <1>2, <2>2 DEF ReplaceAll, ReplaceAllFails, ControlInv
    <2>3. ASSUME NEW m \in TaskNames, RemoveTask(m) PROVE gate'[t] = gate[t]
      <3>1. m \in plan.removed /\ gate' = [gate EXCEPT ![<<m, tasks[m].gen>>] = "closing"]
        BY <2>3 DEF RemoveTask
      <3>2. m # n
        BY <1>1, <1>2, <2>3, <3>1 DEF RemoveTask, Delta
      <3> QED BY <2>a, <3>1, <3>2 DEF TypeOK
    <2>4. ASSUME NEW m \in TaskNames, AddTask(m) PROVE gate'[t] = gate[t]
      <3>1. pc \in Delta /\ (gate' = gate \/ gate' = [gate EXCEPT ![<<m, gen>>] = "open"])
        BY <2>4 DEF AddTask, Delta
      <3>2. before.tasks[n].gen # gen
        BY <1>2, <2>a, <3>1 DEF PlanInv, TypeOK, TaskIds, Gens
      <3>3. t # <<m, gen>>
        BY <3>2
      <3> HIDE DEF t
      <3>4. gate \in [TaskIds -> {"none", "open", "closing", "shut"}] /\ t \in TaskIds
        BY <1>2, <2>a, <3>1 DEF TypeOK
      <3>5. CASE gate' = gate
        BY <3>5
      <3>6. CASE gate' = [gate EXCEPT ![<<m, gen>>] = "open"]
        BY <3>3, <3>4, <3>6
      <3> QED BY <3>1, <3>5, <3>6
    <2>5. CASE RemoveTaskDone
      <3>1. pc = "tasks" /\ busy # None /\ gate' = [gate EXCEPT ![busy] = "shut"]
        BY <1>2, <2>5 DEF RemoveTaskDone
      <3>2. busy[1] # n
        BY <1>1, <1>2, <3>1 DEF Delta, LifeInv, GateInv
      <3> QED BY <2>a, <3>1, <3>2 DEF TypeOK
    <2>6. CASE \E i \in TaskIds : StopAllTask(i)
      BY <1>2, <2>6 DEF StopAllTask
    <2> HIDE DEF StoreInv
    <2>7. \/ gate' = gate \/ ReplaceAll \/ ReplaceAllFails \/ RemoveTaskDone
          \/ \E m \in TaskNames : RemoveTask(m) \/ AddTask(m)
          \/ \E i \in TaskIds : StopAllTask(i)
      BY <1>2 DEF Next, Updater, vars, UpdateCache, applyBusinessDelta, Prepare, PrepareFails,
         PublishRouting, ApplySenders, ApplySendersFails, CollectSenders, DropReceivers,
         CommitReceiver, StopReplacedReceiver, RebuildSelectors, CloseReplacedSenders,
         StopAll, StopAllReceivers, StopAllSenders, BeginShutdown, ReceiverStart, AsyncStop,
         AsyncClose, Receive, Handle, Leave, taskHeap
    <2> QED BY <2>1, <2>2, <2>3, <2>4, <2>5, <2>6, <2>7
  <1>3. StoreInv /\ [Next]_vars =>
          [pc \notin {"idle", "stopReceivers", "stopTasks"} =>
             \A n \in DOMAIN before.tasks : Untouched(n) =>
               gate'[<<n, before.tasks[n].gen>>] = gate[<<n, before.tasks[n].gen>>]]_vars
    BY <1>2
  <1> QED BY <1>3, StoreInvariant, PTL DEF Spec, UntouchedTasksKeepRunning


=============================================================================
