--------------------------- MODULE BootstrapProofs ---------------------------
(***************************************************************************)
(* Proofs about Bootstrap, for any contents of the two files and any       *)
(* number of edits and signals: whatever way Run returns it has stopped    *)
(* what it started, and a configuration that is out of date is noticed.    *)
(***************************************************************************)
EXTENDS Bootstrap, TLAPS

Steady == {"readFingerprint", "notify", "serve", "reload", "apply", "stop"}

\* What Run has started, and not yet stopped, at each of its places.
PhaseInv ==
  /\ main \in Steady \cup Over \cup {"load", "coldStart", "startSchedule", "stopSchedule",
                                     "stopRuntime", "return"}
  /\ store = "stopped" => schedule # "running"
  /\ main \in {"load", "coldStart"} => store = "none" /\ schedule = "none"
  /\ main = "startSchedule" => store = "running" /\ schedule = "none"
  /\ main \in Steady => store = "running" /\ schedule = "running"
  /\ main = "stopSchedule" => store = "running"
  /\ main = "stopRuntime" => schedule \in {"none", "stopped"}
  /\ main \in {"return", "exited"} =>
       store \in {"none", "stopped"} /\ schedule \in {"none", "stopped"}
  /\ main = "exited" => ~watching /\ ~notifying

\* The history: the watcher's fingerprint is one the file has had.
PastInv ==
  /\ past \subseteq Contents /\ file \in past
  /\ fingerprint \in past \cup {None}

\* Something between the file and the next reload will see a difference.
Seen == fingerprint # file \/ watcher = "send" \/ configChangeCh

\* Before the first fingerprint the process runs what it loaded. Later, a content
\* the file has for the first time is one the watcher has not seen, or has passed
\* on, or a reload has dealt with; a reload that loaded the content before it does
\* not hide it.
FreshInv ==
  /\ main \in {"startSchedule", "readFingerprint"} => applied = loaded
  /\ main = "apply" /\ loaded.business # file /\ ~reverted => Seen
  /\ StaleNoticed

BootInv == PhaseInv /\ PastInv /\ FreshInv

LEMMA BootInit == Init => BootInv
  BY ContentsAssumption DEF Init, BootInv, PhaseInv, PastInv, FreshInv, StaleNoticed, Stale,
     Outdated, Serving, Steady, Over

LEMMA LoadConfigStep ==
  ASSUME BootInv, LoadConfig
  PROVE  BootInv'
  <1> USE DEF BootInv, LoadConfig, ExitWith, vars, environment, runtime, signalling, watch
  <1>1. PhaseInv' BY DEF PhaseInv, Steady, Over
  <1>2. PastInv' BY ContentsAssumption DEF PastInv
  <1>3. FreshInv'
    BY ContentsAssumption DEF PastInv, FreshInv, StaleNoticed, Stale, Outdated, Noticed, Seen,
       Serving
  <1> QED BY <1>1, <1>2, <1>3

LEMMA ColdStartStep ==
  ASSUME BootInv, ColdStart
  PROVE  BootInv'
  <1> USE DEF BootInv, ColdStart, ExitWith, vars, environment, runtime, signalling, watch
  <1>1. PhaseInv' BY DEF PhaseInv, Steady, Over
  <1>2. PastInv' BY ContentsAssumption DEF PastInv
  <1>3. FreshInv'
    BY ContentsAssumption DEF PastInv, FreshInv, StaleNoticed, Stale, Outdated, Noticed, Seen,
       Serving
  <1> QED BY <1>1, <1>2, <1>3

LEMMA StartScheduleStep ==
  ASSUME BootInv, StartSchedule
  PROVE  BootInv'
  <1> USE DEF BootInv, StartSchedule, ExitWith, vars, environment, runtime, signalling, watch
  <1>1. PhaseInv' BY DEF PhaseInv, Steady, Over
  <1>2. PastInv' BY ContentsAssumption DEF PastInv
  <1>3. FreshInv'
    BY ContentsAssumption DEF PastInv, FreshInv, StaleNoticed, Stale, Outdated, Noticed, Seen,
       Serving
  <1> QED BY <1>1, <1>2, <1>3

LEMMA ReadFingerprintStep ==
  ASSUME BootInv, ReadFingerprint
  PROVE  BootInv'
  <1> USE DEF BootInv, ReadFingerprint, FingerprintFails, ExitWith,
          vars, environment, runtime, signalling, watch
  <1>1. PhaseInv' BY DEF PhaseInv, Steady, Over
  <1>2. PastInv' BY ContentsAssumption DEF PastInv
  <1>3. FreshInv'
    BY ContentsAssumption DEF PastInv, FreshInv, StaleNoticed, Stale, Outdated, Noticed, Seen,
       Serving
  <1> QED BY <1>1, <1>2, <1>3

LEMMA NotifyStep ==
  ASSUME BootInv, Notify
  PROVE  BootInv'
  <1> USE DEF BootInv, Notify, vars, environment, runtime, signalling, watch
  <1>1. PhaseInv' BY DEF PhaseInv, Steady, Over
  <1>2. PastInv' BY ContentsAssumption DEF PastInv
  <1>3. FreshInv'
    BY ContentsAssumption DEF PastInv, FreshInv, StaleNoticed, Stale, Outdated, Noticed, Seen,
       Serving
  <1> QED BY <1>1, <1>2, <1>3

LEMMA TakeSignalStep ==
  ASSUME BootInv, TakeSignal
  PROVE  BootInv'
  <1> USE DEF BootInv, TakeSignal, Handler, vars, environment, runtime, signalling, watch
  <1>1. PhaseInv' BY DEF PhaseInv, Steady, Over
  <1>2. PastInv' BY ContentsAssumption DEF PastInv
  <1>3. FreshInv'
    BY ContentsAssumption DEF PastInv, FreshInv, StaleNoticed, Stale, Outdated, Noticed, Seen,
       Serving
  <1> QED BY <1>1, <1>2, <1>3

LEMMA TakeChangeStep ==
  ASSUME BootInv, TakeChange
  PROVE  BootInv'
  <1> USE DEF BootInv, TakeChange, vars, environment, runtime, signalling, watch
  <1>1. PhaseInv' BY DEF PhaseInv, Steady, Over
  <1>2. PastInv' BY ContentsAssumption DEF PastInv
  <1>3. FreshInv'
    BY ContentsAssumption DEF PastInv, FreshInv, StaleNoticed, Stale, Outdated, Noticed, Seen,
       Serving
  <1> QED BY <1>1, <1>2, <1>3

LEMMA ReloadStep ==
  ASSUME BootInv, Reload
  PROVE  BootInv'
  <1> USE DEF BootInv, Reload, Loadable, vars, environment, runtime, signalling, watch
  <1>1. PhaseInv' BY DEF PhaseInv, Steady, Over
  <1>2. PastInv' BY ContentsAssumption DEF PastInv
  <1>3. FreshInv'
    BY ContentsAssumption DEF PastInv, FreshInv, StaleNoticed, Stale, Outdated, Noticed, Seen,
       Serving
  <1> QED BY <1>1, <1>2, <1>3

LEMMA ApplyStep ==
  ASSUME BootInv, Apply
  PROVE  BootInv'
  <1> USE DEF BootInv, Apply, vars, environment, runtime, signalling, watch
  <1>1. PhaseInv' BY DEF PhaseInv, Steady, Over
  <1>2. PastInv' BY ContentsAssumption DEF PastInv
  <1>3. FreshInv'
    BY ContentsAssumption DEF PastInv, FreshInv, StaleNoticed, Stale, Outdated, Noticed, Seen,
       Serving
  <1> QED BY <1>1, <1>2, <1>3

LEMMA BeginShutdownStep ==
  ASSUME BootInv, BeginShutdown
  PROVE  BootInv'
  <1> USE DEF BootInv, BeginShutdown, ExitWith, vars, environment, runtime, signalling, watch
  <1>1. PhaseInv' BY DEF PhaseInv, Steady, Over
  <1>2. PastInv' BY ContentsAssumption DEF PastInv
  <1>3. FreshInv'
    BY ContentsAssumption DEF PastInv, FreshInv, StaleNoticed, Stale, Outdated, Noticed, Seen,
       Serving
  <1> QED BY <1>1, <1>2, <1>3

LEMMA StopScheduleStep ==
  ASSUME BootInv, StopSchedule
  PROVE  BootInv'
  <1> USE DEF BootInv, StopSchedule, vars, environment, runtime, signalling, watch
  <1>1. PhaseInv' BY DEF PhaseInv, Steady, Over
  <1>2. PastInv' BY ContentsAssumption DEF PastInv
  <1>3. FreshInv'
    BY ContentsAssumption DEF PastInv, FreshInv, StaleNoticed, Stale, Outdated, Noticed, Seen,
       Serving
  <1> QED BY <1>1, <1>2, <1>3

LEMMA StopRuntimeStep ==
  ASSUME BootInv, StopRuntime
  PROVE  BootInv'
  <1> USE DEF BootInv, StopRuntime, vars, environment, runtime, signalling, watch
  <1>1. PhaseInv' BY DEF PhaseInv, Steady, Over
  <1>2. PastInv' BY ContentsAssumption DEF PastInv
  <1>3. FreshInv'
    BY ContentsAssumption DEF PastInv, FreshInv, StaleNoticed, Stale, Outdated, Noticed, Seen,
       Serving
  <1> QED BY <1>1, <1>2, <1>3

LEMMA ReturnFromRunStep ==
  ASSUME BootInv, ReturnFromRun
  PROVE  BootInv'
  <1> USE DEF BootInv, ReturnFromRun, vars, environment, runtime, signalling, watch
  <1>1. PhaseInv' BY DEF PhaseInv, Steady, Over
  <1>2. PastInv' BY ContentsAssumption DEF PastInv
  <1>3. FreshInv'
    BY ContentsAssumption DEF PastInv, FreshInv, StaleNoticed, Stale, Outdated, Noticed, Seen,
       Serving
  <1> QED BY <1>1, <1>2, <1>3

LEMMA WatchTickStep ==
  ASSUME BootInv, WatchTick
  PROVE  BootInv'
  <1> USE DEF BootInv, WatchTick, vars, environment, runtime, signalling, watch
  <1>1. PhaseInv' BY DEF PhaseInv, Steady, Over
  <1>2. PastInv' BY ContentsAssumption DEF PastInv
  <1>3. FreshInv'
    BY ContentsAssumption DEF PastInv, FreshInv, StaleNoticed, Stale, Outdated, Noticed, Seen,
       Serving
  <1> QED BY <1>1, <1>2, <1>3

LEMMA WatchSendStep ==
  ASSUME BootInv, WatchSend
  PROVE  BootInv'
  <1> USE DEF BootInv, WatchSend, SlotTaken, vars, environment, runtime, signalling, watch
  <1>1. PhaseInv' BY DEF PhaseInv, Steady, Over
  <1>2. PastInv' BY ContentsAssumption DEF PastInv
  <1>3. FreshInv'
    BY ContentsAssumption DEF PastInv, FreshInv, StaleNoticed, Stale, Outdated, Noticed, Seen,
       Serving
  <1> QED BY <1>1, <1>2, <1>3

LEMMA WatchDoneStep ==
  ASSUME BootInv, WatchDone
  PROVE  BootInv'
  <1> USE DEF BootInv, WatchDone, vars, environment, runtime, signalling, watch
  <1>1. PhaseInv' BY DEF PhaseInv, Steady, Over
  <1>2. PastInv' BY ContentsAssumption DEF PastInv
  <1>3. FreshInv'
    BY ContentsAssumption DEF PastInv, FreshInv, StaleNoticed, Stale, Outdated, Noticed, Seen,
       Serving
  <1> QED BY <1>1, <1>2, <1>3

LEMMA EditFileStep ==
  ASSUME BootInv, NEW c \in Contents, EditFile(c)
  PROVE  BootInv'
  <1> USE DEF BootInv, EditFile, vars, environment, runtime, signalling, watch
  <1>1. PhaseInv' BY DEF PhaseInv, Steady, Over
  <1>2. PastInv' BY ContentsAssumption DEF PastInv
  <1>3. FreshInv'
    BY ContentsAssumption DEF PastInv, FreshInv, StaleNoticed, Stale, Outdated, Noticed, Seen,
       Serving
  <1> QED BY <1>1, <1>2, <1>3

LEMMA EditSystemStep ==
  ASSUME BootInv, NEW s \in Systems, EditSystem(s)
  PROVE  BootInv'
  <1> USE DEF BootInv, EditSystem, vars, environment, runtime, signalling, watch
  <1>1. PhaseInv' BY DEF PhaseInv, Steady, Over
  <1>2. PastInv' BY ContentsAssumption DEF PastInv
  <1>3. FreshInv'
    BY ContentsAssumption DEF PastInv, FreshInv, StaleNoticed, Stale, Outdated, Noticed, Seen,
       Serving
  <1> QED BY <1>1, <1>2, <1>3

LEMMA SignalStep ==
  ASSUME BootInv, NEW s \in Signals, Signal(s)
  PROVE  BootInv'
  <1> USE DEF BootInv, Signal, vars, environment, runtime, signalling, watch
  <1>1. PhaseInv' BY DEF PhaseInv, Steady, Over
  <1>2. PastInv' BY ContentsAssumption DEF PastInv
  <1>3. FreshInv'
    BY ContentsAssumption DEF PastInv, FreshInv, StaleNoticed, Stale, Outdated, Noticed, Seen,
       Serving
  <1> QED BY <1>1, <1>2, <1>3

LEMMA BootNext == ASSUME BootInv, [Next]_vars PROVE BootInv'
  <1>1. CASE UNCHANGED vars
    BY <1>1 DEF vars, environment, runtime, signalling, watch, BootInv, PhaseInv, PastInv,
       FreshInv, StaleNoticed, Stale, Outdated, Noticed, Seen, Serving, Steady, Over
  <1>2. CASE Run
    BY <1>2, LoadConfigStep, ColdStartStep, StartScheduleStep, ReadFingerprintStep,
       NotifyStep, TakeSignalStep, TakeChangeStep, ReloadStep, ApplyStep,
       BeginShutdownStep, StopScheduleStep, StopRuntimeStep, ReturnFromRunStep DEF Run
  <1>3. CASE watchConfigFile
    BY <1>3, WatchTickStep, WatchSendStep, WatchDoneStep DEF watchConfigFile
  <1>4. CASE (\E c \in Contents : EditFile(c)) \/ (\E s \in Systems : EditSystem(s))
               \/ (\E s \in Signals : Signal(s))
    BY <1>4, EditFileStep, EditSystemStep, SignalStep
  <1> QED BY <1>1, <1>2, <1>3, <1>4 DEF Next

\* What Run has started at each of its places, and what the watcher's fingerprint says
\* of the file, hold through every interleaving of edits, ticks, signals and failures.
THEOREM BootInvariant == Spec => []BootInv
  <1> QED BY BootInit, BootNext, PTL DEF Spec

\* Every way out of Run, by a signal or by an error of any step of the start, has
\* stopped the schedule manager before the runtime, and the watcher with them.
THEOREM RunStopsWhatItStarted == Spec => []ReturnStopsAll
  <1>1. BootInv => ReturnStopsAll
    BY DEF BootInv, PhaseInv, ReturnStopsAll
  <1> QED BY <1>1, BootInvariant, PTL

\* A serving process whose file holds another, loadable content will notice: the one
\* slot of configChangeCh, dropped notifications and reloads under way lose no change.
THEOREM ChangesAreNoticed == Spec => []StaleNoticed
  <1>1. BootInv => StaleNoticed
    BY DEF BootInv, FreshInv
  <1> QED BY <1>1, BootInvariant, PTL

==============================================================================
