----------------------------- MODULE Bootstrap -----------------------------
(***************************************************************************)
(* The process (src/bootstrap/run.go): start, the loop that serves signals *)
(* and configuration changes, and shutdown; beside it the goroutine that   *)
(* polls the fingerprint of the business file. The environment edits both  *)
(* files and sends signals.                                                *)
(*                                                                         *)
(* A file's content is a value, and so is its fingerprint. The runtime and *)
(* the schedule manager appear as what Run does with them; what an update  *)
(* does is RuntimeStore's matter.                                          *)
(*                                                                         *)
(* "Mistake:" marks a definition that is not part of the model but the one *)
(* after it with a programming error a property has to detect.             *)
(***************************************************************************)
EXTENDS Integers, Sequences

CONSTANTS
  Contents,    \* contents of the business file
  Valid,       \* those that load and pass Validate
  First,       \* the content at start
  Systems,     \* contents of the system file
  MaxEdits,    \* bound on the edits of the business file
  MaxSignals,  \* bound on the signals sent
  Faults,      \* what may fail: "update", "schedule", "fingerprint"
  None

ASSUME ContentsAssumption ==
  /\ Valid \subseteq Contents /\ First \in Contents /\ None \notin Contents
  /\ Systems # {} /\ None \notin Systems
ASSUME BoundsAssumption ==
  /\ MaxEdits \in Nat /\ MaxSignals \in Nat
  /\ Faults \subseteq {"update", "schedule", "fingerprint"}

Signals == {"reload", "stop"}  \* HUP and USR1; INT and TERM

VARIABLES
  file,         \* the business file
  system,       \* the system file
  past,         \* history: contents the business file has had
  reverted,     \* history: it has one of them again
  edits,
  main,         \* where Run is
  loaded,       \* what loadConfigPair returned last
  baseline,     \* Runtime.systemCfg
  applied,      \* the last configuration UpdateCache applied
  store,        \* the runtime's objects
  schedule,     \* the schedule manager
  notifying,    \* signal.Notify is in force
  sigCh,        \* buffered, capacity 1
  configChangeCh,  \* whether its one slot is taken
  watcher,      \* where watchConfigFile is
  fingerprint,  \* its currentFingerprint
  watching,     \* watchCtx is not cancelled
  code,         \* Run's result
  signals,      \* number of signals sent
  asked,        \* history: a stop signal was sent while no signal waited
  rejected,     \* history: contents a reload refused or failed to apply
  gap           \* history: the first fingerprint is not of what was loaded

environment == <<file, system, past, reverted, edits>>
runtime == <<baseline, applied, store, schedule>>
signalling == <<notifying, sigCh, signals, asked>>
watch == <<watcher, fingerprint, watching>>
vars == <<environment, main, loaded, runtime, signalling, configChangeCh, watch,
          code, rejected, gap>>

Init ==
  /\ file = First /\ past = {First} /\ reverted = FALSE /\ edits = 0
  /\ system \in Systems
  /\ main = "load" /\ loaded = None /\ code = None
  /\ baseline = None /\ applied = None /\ store = "none" /\ schedule = "none"
  /\ notifying = FALSE /\ sigCh = <<>> /\ asked = FALSE /\ configChangeCh = FALSE
  /\ watcher = "none" /\ fingerprint = None /\ watching = FALSE
  /\ signals = 0 /\ rejected = {} /\ gap = FALSE

Over == {"exited", "killed"}
-----------------------------------------------------------------------------
(* Start. An error ends Run through the shutdowns that are due by then.    *)

ExitWith(c, step) == code' = c /\ main' = step

\* loadConfigPair, the logger, and the system baseline. An error of any of
\* them ends Run before there is anything to shut down.
LoadConfig ==
  /\ main = "load"
  /\ \/ /\ file \in Valid
        /\ loaded' = [business |-> file, system |-> system]
        /\ baseline' = system
        /\ main' = "coldStart"
        /\ UNCHANGED code
     \/ file \notin Valid /\ ExitWith(1, "return") /\ UNCHANGED <<loaded, baseline>>
  /\ UNCHANGED <<environment, applied, store, schedule, signalling, configChangeCh,
                 watch, rejected, gap>>

ColdStart ==
  /\ main = "coldStart"
  /\ \/ /\ applied' = loaded /\ store' = "running" /\ main' = "startSchedule"
        /\ UNCHANGED code
     \/ /\ "update" \in Faults
        /\ store' = "partial" /\ ExitWith(1, "stopRuntime")
        /\ UNCHANGED applied
  /\ UNCHANGED <<environment, loaded, baseline, schedule, signalling,
                 configChangeCh, watch, rejected, gap>>

\* initScheduleManager, which leaves no manager to shut down when it fails, and
\* the manager's Start, which may have launched some of the groups.
StartSchedule ==
  /\ main = "startSchedule"
  /\ \/ schedule' = "running" /\ main' = "readFingerprint" /\ UNCHANGED code
     \/ /\ "schedule" \in Faults
        /\ \/ ExitWith(1, "stopRuntime") /\ UNCHANGED schedule
           \/ schedule' = "failed" /\ ExitWith(1, "stopSchedule")
  /\ UNCHANGED <<environment, loaded, baseline, applied, store, signalling,
                 configChangeCh, watch, rejected, gap>>

\* Mistake: an unreadable file ends Run without stopping the jobs.
FingerprintFailsLeaking ==
  "fingerprint" \in Faults /\ ExitWith(1, "stopRuntime") /\ UNCHANGED <<watch, gap>>

FingerprintFails ==
  "fingerprint" \in Faults /\ ExitWith(1, "stopSchedule") /\ UNCHANGED <<watch, gap>>

\* The watcher is started from the fingerprint the file has by now.
ReadFingerprint ==
  /\ main = "readFingerprint"
  /\ \/ /\ fingerprint' = file /\ watcher' = "waiting" /\ watching' = TRUE
        /\ gap' = (file # loaded.business)
        /\ main' = "notify"
        /\ UNCHANGED code
     \/ FingerprintFails
  /\ UNCHANGED <<environment, loaded, runtime, signalling, configChangeCh, rejected>>

Notify ==
  /\ main = "notify"
  /\ notifying' = TRUE
  /\ main' = "serve"
  /\ UNCHANGED <<environment, loaded, runtime, sigCh, signals, asked,
                 configChangeCh, watch, code, rejected, gap>>
-----------------------------------------------------------------------------
(* The loop.                                                               *)

\* isReloadSignal, isStopSignal.
Handler(s) == IF s = "reload" THEN "reload" ELSE "stop"

TakeSignal ==
  /\ main = "serve" /\ sigCh # <<>>
  /\ sigCh' = Tail(sigCh)
  /\ main' = Handler(Head(sigCh))
  /\ UNCHANGED <<environment, loaded, runtime, notifying, signals, asked,
                 configChangeCh, watch, code, rejected, gap>>

TakeChange ==
  /\ main = "serve" /\ configChangeCh
  /\ configChangeCh' = FALSE
  /\ main' = "reload"
  /\ UNCHANGED <<environment, loaded, runtime, signalling, watch, code, rejected, gap>>

\* loadConfigPair and CheckSystemConfigStable.
Loadable == file \in Valid /\ system = baseline

\* reloadAndApplyBusinessConfig.
Reload ==
  /\ main = "reload"
  /\ \/ /\ Loadable
        /\ loaded' = [business |-> file, system |-> system]
        /\ main' = "apply"
        /\ UNCHANGED rejected
     \/ /\ ~Loadable
        /\ rejected' = rejected \cup {file}
        /\ main' = "serve"
        /\ UNCHANGED loaded
  /\ UNCHANGED <<environment, runtime, signalling, configChangeCh, watch, code, gap>>

Apply ==
  /\ main = "apply"
  /\ \/ applied' = loaded /\ UNCHANGED rejected
     \/ /\ "update" \in Faults
        /\ rejected' = rejected \cup {loaded.business}
        /\ UNCHANGED applied
  /\ main' = "serve"
  /\ UNCHANGED <<environment, loaded, baseline, store, schedule, signalling,
                 configChangeCh, watch, code, gap>>
-----------------------------------------------------------------------------
(* Shutdown.                                                               *)

\* cancelWatch, cancelRun, stopGC.
BeginShutdown ==
  /\ main = "stop"
  /\ watching' = FALSE
  /\ ExitWith(0, "stopSchedule")
  /\ UNCHANGED <<environment, loaded, runtime, signalling, configChangeCh, watcher,
                 fingerprint, rejected, gap>>

\* shutdownScheduleManager and shutdownRuntime go on after their timeout.
StopSchedule ==
  /\ main = "stopSchedule"
  /\ schedule' = "stopped"
  /\ main' = "stopRuntime"
  /\ UNCHANGED <<environment, loaded, baseline, applied, store, signalling,
                 configChangeCh, watch, code, rejected, gap>>

StopRuntime ==
  /\ main = "stopRuntime"
  /\ store' = "stopped"
  /\ main' = "return"
  /\ UNCHANGED <<environment, loaded, baseline, applied, schedule, signalling,
                 configChangeCh, watch, code, rejected, gap>>

\* The deferred signal.Stop, cancelWatch and cancelRun.
ReturnFromRun ==
  /\ main = "return"
  /\ notifying' = FALSE /\ watching' = FALSE
  /\ main' = "exited"
  /\ UNCHANGED <<environment, loaded, runtime, sigCh, signals, asked,
                 configChangeCh, watcher, fingerprint, code, rejected, gap>>
-----------------------------------------------------------------------------
(* watchConfigFile.                                                        *)

WatchTick ==
  /\ watcher = "waiting" /\ main \notin Over
  /\ file # fingerprint
  /\ fingerprint' = file
  /\ watcher' = "send"
  /\ UNCHANGED <<environment, main, loaded, runtime, signalling, configChangeCh,
                 watching, code, rejected, gap>>

\* Mistake: a notification still waiting is taken back.
SlotToggled == ~configChangeCh

\* A notification that finds the slot taken is dropped.
SlotTaken == TRUE

WatchSend ==
  /\ watcher = "send" /\ main \notin Over
  /\ configChangeCh' = SlotTaken
  /\ watcher' = "waiting"
  /\ UNCHANGED <<environment, main, loaded, runtime, signalling, fingerprint,
                 watching, code, rejected, gap>>

WatchDone ==
  /\ watcher = "waiting" /\ ~watching /\ main \notin Over
  /\ watcher' = "done"
  /\ UNCHANGED <<environment, main, loaded, runtime, signalling, configChangeCh,
                 fingerprint, watching, code, rejected, gap>>
-----------------------------------------------------------------------------
(* The environment.                                                        *)

EditFile(c) ==
  /\ main \notin Over /\ edits < MaxEdits
  /\ c # file
  /\ file' = c /\ past' = past \cup {c} /\ reverted' = (c \in past)
  /\ edits' = edits + 1
  /\ UNCHANGED <<system, main, loaded, runtime, signalling, configChangeCh, watch,
                 code, rejected, gap>>

EditSystem(s) ==
  /\ main \notin Over /\ s # system
  /\ system' = s
  /\ UNCHANGED <<file, past, reverted, edits, main, loaded, runtime, signalling, configChangeCh,
                 watch, code, rejected, gap>>

\* Mistake: the channel is not buffered.
Unbuffered == IF main = "serve" THEN 1 ELSE 0

SigSlots == 1

\* The signal package does not block on a channel that is full: the signal is
\* lost.
Delivered(s) == IF Len(sigCh) < SigSlots THEN Append(sigCh, s) ELSE sigCh

\* Without Notify the default action of a signal ends the process.
Signal(s) ==
  /\ main \notin Over /\ signals < MaxSignals
  /\ signals' = signals + 1
  /\ asked' = (asked \/ (s = "stop" /\ sigCh = <<>>))
  /\ \/ /\ notifying
        /\ sigCh' = Delivered(s)
        /\ UNCHANGED main
     \/ ~notifying /\ main' = "killed" /\ UNCHANGED sigCh
  /\ UNCHANGED <<environment, loaded, runtime, notifying, configChangeCh, watch,
                 code, rejected, gap>>

Run ==
  \/ LoadConfig \/ ColdStart \/ StartSchedule \/ ReadFingerprint \/ Notify
  \/ TakeSignal \/ TakeChange \/ Reload \/ Apply
  \/ BeginShutdown \/ StopSchedule \/ StopRuntime \/ ReturnFromRun

watchConfigFile == WatchTick \/ WatchSend \/ WatchDone

Next ==
  \/ Run \/ watchConfigFile
  \/ \E c \in Contents : EditFile(c)
  \/ \E s \in Systems : EditSystem(s)
  \/ \E s \in Signals : Signal(s)

Spec == Init /\ [][Next]_vars

\* Run goes on, and the ticker of the watcher ticks.
FairSpec == Spec /\ WF_vars(Run) /\ WF_vars(watchConfigFile)
-----------------------------------------------------------------------------
(* Properties.                                                             *)

Configurations == [business : Valid, system : Systems]

\* However Run returns, by a signal or by an error at any place of the start,
\* what it started was stopped: the manager before the runtime its jobs use.
ReturnStopsAll ==
  /\ store = "stopped" => schedule # "running"
  /\ main \in {"return", "exited"} =>
       store \in {"none", "stopped"} /\ schedule \in {"none", "stopped"}
  /\ main = "exited" => ~watching /\ ~notifying

\* A serving process that runs another configuration than its file's is about
\* to notice, unless a reload of that content failed: a reload is due or under
\* way, or the next tick sees a difference. Two cases are excepted in which the
\* watcher's fingerprint is not of what was loaded: the first one is read after
\* the file was loaded (gap), and a reload by signal may load a content between
\* two ticks that is taken back before the second (reverted).
Serving == main \in {"notify", "serve", "reload", "apply"}
Noticed ==
  \/ fingerprint # file \/ watcher = "send" \/ configChangeCh \/ main = "reload"
  \/ main = "apply" /\ loaded.business = file
Outdated == Serving /\ applied.business # file /\ file \notin rejected
Stale == Outdated /\ ~gap /\ ~reverted
StaleNoticed == Stale => Noticed

\* ... and it is: the process comes to run what the file holds.
FileApplied == Stale ~> ~Stale

\* A stop signal that no other signal keeps out of the channel ends the process,
\* also when it comes during a reload and while the file goes on changing.
StopObeyed == asked ~> main \in Over

\* What is asked of a serving process, by the file or by a signal, is done.
RequestsServed == FileApplied /\ StopObeyed

=============================================================================
