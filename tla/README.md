# forward-stub: TLA+ specifications

forward-stub receives packets (UDP, TCP, Kafka, SkyDDS, files on SFTP and OSS),
routes each by a match key to tasks, runs the task's pipelines on it and hands
it to the task's senders. Its business configuration can be reloaded while it
runs. This directory holds a model of the parts of it that are hard to test,
the TLC runs that check the model on small instances, and TLAPS proofs of the
results that hold for every instance. Paths below are relative to the
repository's `src/`.

## 1. The system

| Part | State it keeps | Operations | Talks to |
|------|----------------|------------|----------|
| task (`task/task.go`) | accepting gate, in-flight WaitGroup and its mirror, worker pool or bounded channel, traffic counter | Start, Handle, channelWorker, runPacket, DetachTrafficCounter, StopGraceful | called by the dispatch of receivers; calls senders |
| runtime store (`runtime/`, `selector/`) | maps of receivers, senders (with reference counts), tasks, selectors, task sets, pipelines, stage cache | UpdateCache (replaceAll, applyBusinessDelta), StopAll, dispatchToSelector | builds, starts, stops and closes all objects; swaps the selector snapshot in each receiver |
| stage cache (`runtime/compiler.go`, `update_cache.go:908-996`) | compiled stages by signature, with task references | compile, retain, release, gc, rebuild | store, task |
| bootstrap (`bootstrap/run.go`) | fingerprint of the configuration file, pending-change channel | Run's select loop, watchConfigFile, reload, shutdown | runtime, schedule, signals, files |
| schedule (`schedule/`) | groups, started jobs, leadership | Register, Start, Stop, runLeaderOnly, interval jobs | bootstrap; an elector |
| traffic statistics (`logx/traffic_agg.go`) | shared counters with reference counts, registries of callbacks | acquire, AddBytes, Close, flush, Register/Unregister | tasks, receivers, senders |
| OSS sender (`sender/oss.go`, `notifier.go`) | per transfer: ranges, pending segments, parts, flags; notifiers | Send, upload driving, complete, notify, fail, Close | object store, Kafka, DDS |
| SFTP sender (`sender/sftp.go`) | per shard: connection, open part files, ranges, committed ids | Send, Close | SFTP server |
| Kafka sender (`sender/kafka.go`) | queues, workers, closed flag, pending counts | Send, enqueueAsync, asyncWorker, Close | broker client |
| SkyDDS sender and bridge (`sender/skydds.go`, `skydds/`) | batch, timer, closed flag; native writer, reader queue | sendBatch, flushByTimer, Close; WriteBatch, Wait, Drain, pump | DDS |
| socket senders (`sender/udp_*.go`, `gnet_tcp.go`) | connections, frame buffers | Send (dials on demand), Close | network |
| network receivers (`receiver/gnet_*.go`, `kafka.go`, `skydds.go`, `local_timer.go`) | cancel function, loop, traffic handle, bytes of an unfinished frame | Start, Stop, receive loop, framing | dispatch |
| file receivers (`receiver/sftp.go`, `oss.go`) | seen files | scan, stream, Stop | servers, dispatch |
| stages and match keys (`pipeline/`, `receiver/match_key.go`) | none | pure functions of a packet | task, receivers |
| packets (`packet/`) | pooled payload, ownership | Clone, Release | everybody |
| configuration (`config/`) | none | parse, defaults, validate | bootstrap |

What is hard in it:

* **Goroutines against the life cycle.** Receivers call `Handle` at any time,
  before, during and after the task's stop; the stop must neither lose a packet
  it accepted nor wait for ever nor free what a packet still needs.
* **Objects outlive their map entry.** During a reload, replaced receivers
  dispatch through old snapshots, removed tasks drain, replaced senders are held
  by draining tasks, and three different places close senders.
* **An update has many steps and several can fail**, after others have been
  published. A failed reload must leave the old configuration in effect.
* **The delta plan** decides which objects are kept. It must find everything
  that depends on a change and nothing else.
* **Files in pieces**: chunks arrive out of order, twice, concurrently, and a
  transfer is committed once.
* **Timers, polling and leadership** race with stops.
* **Buffers change hands**: payloads, frame buffers and connection buffers are
  pooled or reused while an event loop, a queue or a slice still refers to them.

Correctness properties, by part. *Task*: WaitGroup exact, one release per
packet, no use of a released pool or closed channel, quiet after the drain,
order per caller, concurrency bound, stop terminates, everything handled.
*Store*: reference counts exact, senders open while used and never leaked, one
generation of a task at a time, configuration applied exactly, routes live and
current, failed update without effect, untouched tasks undisturbed, shutdown
complete, updates terminate. *Stage cache*: references equal tasks that use a
stage, nothing kept that no task uses. *Bootstrap*: a change of the file is finally
applied, a stop signal is obeyed, nothing runs after shutdown. *Schedule*: no job
without leadership, no overlap unless allowed, Stop waits for all. *Traffic*:
reference count equals open handles, nothing counted twice or lost, each summary
lists what runs. *File
senders*: the committed file is complete and contiguous, committed once, no
state left, every notifier told once. *Kafka/SkyDDS*: an accepted item is sent or
reported, Close drains. *Sockets*: what is opened can be found and closed, a
frame is what was sent. *Receivers*: a stopped receiver dispatches nothing, its
traffic handle is closed once, a file is marked seen only when delivered.

The hazards, each with the line where it bites and the property that covers it
(or the reason why none does), are listed in `PROJECT.json`.

## 2. Modules

| Module | Models |
|--------|--------|
| `Task` | `task/task.go`, one task with its callers |
| `TaskGate` | what a task promises its owner: the abstract specification |
| `TaskRefinement` | the mapping under which Task implements TaskGate |
| `RuntimeStore` | `runtime/update_cache.go`, `store.go`, `compiler.go`, the selectors, the dispatch; tasks appear as the gates of TaskGate |
| `OssTransfer` | `sender/oss.go`, `notifier.go`: the goroutines that send chunks of one file, the object store, the commit notifiers |
| `Bootstrap` | `bootstrap/`: Run, the watcher of the business file, signals |
| `Schedule` | `schedule/`: manager, groups, interval jobs, leadership |
| `SftpTransfer` | `sender/sftp.go`: goroutines, connections and the server's files |
| `KafkaAsync` | `sender/kafka.go`: queues, workers, callbacks, Close |
| `FilePolling` | `receiver/sftp.go`, `receiver/oss.go`: scans, streaming, memory of seen files |
| `SkyddsLink` | `sender/skydds.go`, `skydds/`, `receiver/skydds.go`: a topic from Send to the emitted packet |
| `TcpLink` | `sender/gnet_tcp.go`, `receiver/framing.go`, `receiver/gnet_tcp.go`: connections, frames, the read path |
| `UdpSockets` | `sender/udp_unicast.go`, `udp_multicast.go`: a socket per shard |
| `StreamReceivers` | `receiver/kafka.go`, `local_timer.go`, `gnet_udp.go`, `gnet_tcp.go`: Start, Stop, the traffic handle |
| `Endpoints` | `runtime/builders.go`: one of KafkaAsync, SkyddsLink, TcpLink, UdpSockets, FilePolling, StreamReceivers |
| `TrafficHub` | `logx/traffic_agg.go`: shared counters, registries, flush |
| `TaskProofs`, `RuntimeStoreProofs`, `ScheduleProofs`, `BootstrapProofs`, `OssTransferProofs`, `TrafficHubProofs`, `EndpointsProofs`, `SftpTransferProofs` | TLAPS proofs about the module of that name (section 4) |
| `MCTask`, `MCRuntimeStore`, ... | constants, payloads and symmetry for TLC |

A definition whose comment starts with "Mistake:" is not part of the model: it
is the definition that follows it with one plausible programming error, kept
beside it to show that a property notices.

### Task

State: the fields of `Task` have their own names (`accepting`, `inflight`,
`inflightCount`, `pool`, `ch`, `sendStats`, `routeSenderMiss`). `stage[p]` is
where packet p is in its walk through Handle, the channel or pool, and
runPacket; `stop` is where the lifecycle thread is in Start and StopGraceful.
`sent`, `released`, `uncounted`, `caller`, `turn`, `calls` are history.

Actions: each critical section of `stateMu` and each blocking call or call with
an effect others can see is one action. The two exits of a packet make the same
three calls in opposite orders (`runPacket`'s deferred Release, count, Done; the
error branches' Done, count, Release), and the model keeps them apart: when
StopGraceful returns, an error branch may still have its Release to make.

Data left out: payloads, names, log text. A pipeline's result is one of:
dropped, routed to one sender of the task, routed to a sender the task does not
have, left for all senders. No stage of the repository returns more than one
packet, so the model does not multiply them. Handle's `default:` branch is
unreachable, since Start resolves every configured model to one of the three.
`None` stands for no packet and no caller. A released pool refuses Submit; a
busy pool blocks it.

### RuntimeStore

One thread runs UpdateCache and StopAll (Run's select loop calls them in
sequence), so the maps need no locks in the model; what other goroutines see of
an update is one action each. An object is `<<name, number of the update that
built it>>`, since an update builds at most one object per name. `snd`, `gate`,
`phase` are the life cycles of sender, task and receiver objects; `routes` is
the compiled snapshot in each receiver; `uses` and `runs` are what a task was
bound to when it was built.

* `planBusinessDelta`, `Dependents`, `AddedIn`, `RemovedIn` are the delta plan.
* `Prepare`, `PublishRouting`, `ApplySenders`, `RemoveTask`, `AddTask`,
  `CollectSenders`, `DropReceivers`, `CommitReceiver`, `StopReplacedReceiver`,
  `RebuildSelectors`, `CloseReplacedSenders` are applyBusinessDelta in its
  order. `RemoveTaskDone` is StopGraceful's return. Go's map iteration order is
  a free choice of the next task or receiver.
* `ReplaceAll` is a cold start. Nothing runs beside it before its receivers are
  started, so it is one action; `ReplaceAllFails` has each place it can fail at.
* `ReceiverStart`, `AsyncStop`, `AsyncClose`, `Receive`, `Handle`, `Leave` are
  the other goroutines. `Stopped` models that Stop of a receiver whose Start has
  not installed its cancel function returns without effect.
* Configurations are records of maps; the fields that only matter as "changed
  or not" are version numbers. `ValidConfig` is what `config.Validate` checks of
  references between sections, and the assumption on all configurations.
* The rebuilding of all receivers' snapshots is one action, although the stores
  are made one by one: a packet is dispatched through a single snapshot.
* The stage cache is `stageCache`, from a stage's signature to the tasks that
  retain it; a pipeline is a sequence of stages. `Compiled` adds what compiling
  does not find, `Retained` and `Released` are the references of addTask and
  removeTask by the pipelines of the moment, `Collected` and `Recounted` the two
  clean-ups. They are parts of the actions that call them.

### OssTransfer

Several goroutines call Send with chunks of one transfer (transfers share
nothing but the map, so one is enough). `states` is the map entry; a *session*
is one `ossTransferState` from its creation on, and goroutines may still hold an
old one when the map has the next. `transfer[s]` has the fields of that struct;
`pc`, `chunk`, `session`, `op` are where each Send is. `upload`, `stored`,
`object` are the object store (external): a multipart upload is open, completed
or aborted, parts are kept by number, and completing an upload that is no longer
open fails. Each critical section of the transfer's mutex and each call of the
store is one action.

A byte is its offset in the file, so that "the right bytes in the right order"
can be said; a received range is a set of bytes, and `OneRange` says of it what
the merged list of ranges says. `drainContiguousSegments` loops over the waiting
segments; `Chain` describes its result without recursion: the one set of
segments that lead from the old to the new nextOffset. Checksums, keys and
content types are left out.

The notifiers are made one after the other before the first Send (`BuildNotifier`;
after an error those made are closed), called one by one after a commit whether or
not the one before failed (`NotifyFileReady`), and closed by Close.

### Bootstrap

`main` is where Run is, one label for each place it can be interrupted at;
`watcher` the same for watchConfigFile. A content of the business file is a value
and so is its fingerprint. `applied` is what UpdateCache applied last, and
`store`, `schedule` are the runtime and the manager as Run starts and stops them
(what they do is the matter of RuntimeStore and Schedule). Each error of the start
has its own way out: where the manager could not be made there is none to shut down.
`sigCh` and
`configChangeCh` are the two channels of capacity one. A signal sent before
signal.Notify ends the process, one that finds the channel full is lost: this is
the documented behaviour of Go's signal package (external). `asked` remembers that a
stop signal was sent while no other waited. Both files are read
in one step. With `control.api` set the business configuration comes from
elsewhere and the watched file says nothing about it; that case is left out.

### Schedule

Contexts are flags (`cancelled`, `jobsCancelled`). `group` and `job` are where
the goroutine of each group and the loop of each job are, `active` the runs of a
job's function that go on, `busy` the atomic flag. A `select` with both the end
of the context and a tick ready takes either, so CheckTick and JobTick stay
enabled after the cancellation. `CheckLeader` is one reading of the elector with
what follows from it; an error of the elector counts as "not the leader".
`CountGroup` is separate from `StartGroup` because the code adds a group to the
WaitGroup after it has started it.

### SftpTransfer

Two kinds of state: the sender's (`transferShard`, `connReady`, `states`, the
lock of each shard, where each Send is) and the server's (`temp`, `final`). A
byte of a file is named by the transfer it came from, so that a file can be seen
to be a mixture. `MergeOne` is one turn of addRange's loop over the sorted ranges,
`Turns` the loop, as a recursive function; `received`, a set that the code does not
have, is what the list is compared with. `split` remembers the transfers that had a
state in two shards at a time.
Opening, writing and closing the temporary file for one chunk is one call of the
server that may fail without effect, after it created the file, or after it wrote.
Remove and Rename are two calls. `Restart` is Close or a crash with a new sender
after it. The fault "answer" (a rename is done and its answer lost) belongs to the
model but not to the runs, see below.

### KafkaAsync

`send`, `worker` and `closer` are where each Send, asyncWorker and Close is. The
`select` of enqueueAsync is a choice between the branches that are ready, so a
record may still be queued after closeCh was closed. The franz-go producer is
external: it buffers a bounded number of records, blocks when full, calls back
once per record in any order, and fails what it has when it is closed. What a
Close does for each shard in a loop is one step, since shards share nothing.

### FilePolling

One receiver and the files of a server that are written and deleted at any time.
A write gives a file a new version and with it a new signature; a stream reads
whatever is there. `out` is what the latest stream of each file dispatched. The
two receivers differ in their memory only: an OSS receiver forgets the oldest
beyond seenLimit. Dispatching a chunk is assumed to return.

### SkyddsLink

Each message is one Send, by a goroutine of its own, in one of the two message
models. The sections of the sender's mutex are steps; between them `hold` is the
batch a Send, a timer or Close has drained and is about to write. A timer object
is armed, fired (its callback waits for the mutex), flushing or failed; Stop does
not stop one that has fired, so several may exist. A write of a batch is message
by message inside one call and may fail after any of them. DDS is external: it
keeps what was written in order. `Pump` is the thread of the bridge that moves
samples into a bounded queue and reports an overflow through Wait; `Wait`,
`Drain`, `Emit` are the receiver's loop, `Fit` the messages one Drain has room for.

### TcpLink

A byte is a digit below `Base`, so the two digits of a length reach Base^2 - 1 as
two bytes reach 65535, and a payload may look like a length. `Feed` is the framer
with frames as slices (first and last index), because OnTraffic moves what is left
to the front of the array they point into before it copies them: `moved` is the
array after that. The event loop of gnet is external: AsyncWrite queues a task
that holds the frame buffer, runs it later, and calls back on closed connections
too. `framePool` is a set of buffers. The receiver is handed any prefix of the
bytes under way. Without framing the bytes of a read are one packet and no
property is about where it was cut.

### UdpSockets

Both senders have the same code around their sockets and one model. Send loads the
shard's socket without the lock, opens one under the lock if there is none, and
writes; Close closes shard by shard. `overlap` remembers that a Send ran during or
after Close.

### StreamReceivers

Start and Stop of the Kafka, generator, UDP and TCP receivers differ in what Stop
finds (`Running`) and in who closes the traffic handle: Start alone, or Start and
Stop through Swap. `start` and `stop` are where the two are. The generator's credit
is counted in parts of a packet without rounding.

### Endpoints

One endpoint, of a kind that is chosen in the initial state, as the builders choose
by `type`. EXTENDS gives it the variables of KafkaAsync, INSTANCE those of the other
five under a letter of their own; the kinds that were not chosen do not move. The
properties of the kinds are its invariants, and `EndpointsSettle` joins their
promises for the future. The file senders are not part of it: their state spaces
need runs of their own.

### TrafficHub

A user is an instance of a receiver or task with one handle; counters are
numbered as they are made, and the map has the current one of each name. Users
add one sample at a time, in the steps of AddBytes (check, seen, packets). A task
instance hands its handle on (DetachTrafficCounter, then StartTask of the next
instance) or closes it. flush copies the counters, adds them one by one in any
order, then the registered tasks that are missing.

## 3. Runs

| Run | Bounds | Shows |
|-----|--------|-------|
| `task` | 2 packets, 2 callers, 2 senders, pool 1, queue 1, all models, fair | six safety properties of a task, Progress, and that Task implements TaskGate |
| `store` | 4 configurations, 3 updates, 1 packet, 2 keys, every builder may fail, fair | six properties of the store and UpdateTerminates |
| `store_routes` | 3 configurations, 3 updates, sender builders may fail | RoutesApplied is violated (finding 1) |
| `oss` | 7 bytes in 3 chunks, each sent up to twice, 3 goroutines, 3 sessions, 2 notifiers, every call may fail | five safety properties of a transfer |
| `boot` | 4 contents (one broken), 2 system files, 3 edits, 2 signals, every step may fail, fair | ReturnStopsAll, StaleNoticed, RequestsServed |
| `sched` | 3 groups, 3 jobs, 2 runs each, 2 changes of leadership, 2 calls of Stop, fair | NoOverlap, StopQuiesces, OnlyLeadersRun, JobsEnd |
| `endpoints` | six kinds of endpoint with all options, bounds below, fair | Accounted, CloseDelivers, LinkAccounted, FramesIntact, SocketsAccounted, SeenDelivered, ReceiverStops, EndpointsSettle |
| `kafka_payload` | 1 shard, async | PayloadKept is violated (finding 2) |
| `sftp` | 2 files in 2 and 1 chunks, those of the first sent up to three times, 2 goroutines, 2 connections, 1 restart, all calls may fail | CommittedIntact, CommittedKept, ReceivedExact |
| `sftp_stale` | 2 versions of one file, nothing fails | CommittedIntact is violated (finding 3) |
| `tcp_frames` | 2 packets, 1 connection, framed | PayloadsCut is violated (finding 4) |
| `traffic` | a receiver and a task, 3 instances at a time, 2 senders, 2 counters, 3 samples each | CountersShared, RunningListed |

Why the bounds are enough. *Task*: two packets from two callers or one fill a
queue or pool of one and leave one waiting in the select or in Submit; two
packets of one caller are what an ordering error needs. Packets are one-shot: a
third adds a longer queue, not a new situation, and the proofs cover every number.
*Store*: three updates are a cold start, a failed reload and the reload after it,
which is the longest dependence between updates: the store remembers the maps, not
the history. The configurations change a sender, a pipeline with a receiver, and
the routing (alone in `store_routes`), move a task to another sender, rename the
receiver, and remove a task with its sender. *OSS*: three goroutines let two give
up a transfer while a third begins its successor; three chunks arrive with gaps in
either place, and the second and third together pass the limit on waiting bytes;
with parts of two bytes there are several parts, a part that spans chunks and a
short last one. *Bootstrap*: three edits are a change before, during and after a
reload, two signals a stop behind a reload. *Schedule*: two changes of leadership give two terms, two runs an overlap;
a job that may overlap and one that may not, one that starts at once. *Kafka sender*
(2 packets, 1 shard, queue and producer of 1, 2 calls of Close that may run out of
time): two packets are enough for a blocked Send, a blocked worker and a Close
behind them; shards share only the WaitGroup. *SkyDDS* (an empty message, one that
fills a batch with another, one too large for a batch; batches of 2, 3 timers, 1
refused write, a queue of 2): a full batch, a timed one and an oversized message
race with a restored one, and the pump can overflow; a batch is begun only while one of
the timer objects is not in use, and three of them never run out here. *TCP* (3 packets, one too large
for a frame, 1 connection and 1 redialled, 1 break): two frames in every cutting, a
payload that reads as a length, a Send that redials. *UDP* (2 shards, 3 Sends, 5
sockets): two Sends that miss the same socket beside one that does not. *Stream
receivers* (3 ticks of one and a half packets, totals of 0 and 2, 2 polls of up to 2
records): a tick that owes two packets, a total reached in the middle of one. *SFTP*: with three copies of each chunk, two can be
under way after a commit, on two connections (`Split`); a second file shows what
transfers share, a restart and repetitions after a commit remove a committed file
again. Two chunks merge from one side only; what addRange makes of longer lists is
proved for all of them. *File receivers* (2 files of up to 2 chunks, 1 write or
deletion, 1 failure, memory of 1): a memory of one forgets at the second file.
That an OSS receiver whose memory is large enough reads no version twice is not
exercised by this run; the proof of SeenDelivered covers every memory.
*Traffic*: three instances are a receiver with its replacement beside a task; two
counters let a name get a second one while flush still has the first.

Deadlock is not checked: a stopped task, a halted store, a process that ended
and a model at its bounds have nothing left to do.

Fairness. *Task*: every packet's own steps, the channel worker and StopGraceful,
because the Go scheduler runs runnable goroutines and senders are assumed to
return from Send. No fairness is assumed of calls to Handle, of the beginning of
a stop, or of cancellation. With two packets and a pool or queue of one, weak
fairness is enough: a blocked packet can be overtaken only finitely often.
*Store*: the update thread and the leaving of packets from tasks; not the
loading of configurations, receiving, receiver starts or shutdown. *Bootstrap*: Run goes on and the watcher's ticker
ticks; nobody has to edit or send anything. *Schedule*: goroutines go on, the
functions of jobs return and the leadership ticker ticks; the one strong fairness
is on taking the end of the context in runLeaderOnly, whose select may take ticks
first, but chooses at random and so not for ever. Neither Stop nor a tick of a job
nor a change of leadership has to happen. *Kafka*: Send, workers and Close go on and
the producer calls back for every record (its request and retry time-outs see to
it); that Close runs out of time is not assumed. *SkyDDS*: goroutines, timers and the
pump go on, and the receiver's loop; *TCP*: Sends, the event loop and the network go
on as long as the connection lives; *stream receivers*: Start's loop goes on, and its
select does not prefer the ticker for ever. In these three one condition for all the
steps together is enough, since each step brings an item nearer to its end. *Files*: the loop and its timer go
on, and failures are finitely many; strong fairness on the end of the context, for
the same reason as in Schedule. UDP has no part in EndpointsSettle: what its
Sends and Close wait for is a shard's lock, which is held for single calls only. The other modules have no liveness
properties.

### Findings

1. **A failed reload can make the next one ineffective** (`store_routes`).
   Selectors and task sets are stored before applySenderDelta can fail. The
   failure itself changes nothing packets experience (UpdateAllOrNothing
   holds), but the next reload with the same routing and a buildable sender
   finds no difference and keeps the old snapshots, reporting success.
   UpdateAllOrNothing shows that a failed update is the only way to get there and
   that even then no route leads to a stopped task.
2. **A Kafka record refers to a payload that was released** (`kafka_payload`). In
   async mode Send returns when the record is queued, the task releases the packet,
   and the pooled buffer may be used again before the record is sent.
3. **An SFTP part file is never truncated** (`sftp_stale`). The part file of a
   longer version, left by an unfinished transfer or an earlier process, keeps its
   tail when a shorter version is written over it, and the file is committed so.
4. **A framed TCP packet may have bytes of the next frame** (`tcp_frames`). The
   frames Feed returns are slices of the connection's buffer, and OnTraffic moves an
   incomplete rest to the front of it before it copies them. FramesIntact shows that
   this is the only damage: lengths, order and number of the payloads are right, and
   a payload is intact unless the rest of a read reached into it.

Other behaviour a reader of the code may not expect, which the models contain
and the properties make room for:

* Bootstrap: the watcher's first fingerprint is read after the configuration was
  loaded and applied; an edit in between (`gap` in StaleNoticed) is not noticed
  until the next edit.
* Bootstrap: reload and stop signals share one slot; a TERM that arrives while a
  reload signal waits behind a reload in progress is dropped by signal.Notify.
* Bootstrap: a reload by signal does not renew the watcher's fingerprint: an edit
  loaded that way and taken back before the next tick stays in effect (`reverted`).
* Store: removeTask detaches the traffic counter of a task that is to be rebuilt
  before the task drains, so what it sends in between is not counted
  (CountedUnlessDetached is about the tasks that keep theirs).
* Store: startReceiver acknowledges before it calls Start. A shutdown right after
  finds receivers whose Stop has no effect; ShutdownComplete holds all the same,
  since their packets meet tasks that refuse them.
* Traffic: the summary can lose a sender that runs. The statistics of a Kafka sender
  are registered under its name when it is built, also when it is to replace one that
  runs. A reload that fails in applySenderDelta closes the replacements it has built;
  closing one deletes its own entry (traffic_agg.go:145-152), which had taken the
  place of the entry of the sender that goes on running, and nothing registers that
  one again. The model does this (RegisterSender, then UnregisterSender of the later
  instance); RunningListed speaks of the instance built last only and does not
  exclude it.
* Traffic: addTask closes the counter it was handed when it fails, in a deferred
  function that looks at its variable err. Where buildTaskPipelineInstance fails
  (update_cache.go:800-804) that variable is shadowed, and the handle would stay
  open. A compiled pipeline always gives an instance, so the path cannot be reached,
  and StartFails always closes.
* OSS sender: a duplicate of a chunk of a committed transfer opens a new upload,
  which stays open until Close (CommittedOnce and NoLeakedUpload are per session).
  A file read again under the same transfer id with another chunk size is not
  completed: a chunk that begins before nextOffset and ends behind it is stored
  under an offset that drainContiguousSegments never looks at again. The run has
  files cut in one way, and so do the theorems that need it (`OneReading`). A notification that fails is reported by the Send that
  committed the object and by nothing else; the object stays.
* Store: the stage cache never holds a stage for a task. The collection right after
  compiling and publishing (update_cache.go:150, 303) removes the new entries before
  any task has retained them, and retaining passes over what the cache does not hold.
  So it is empty after every successful update, and the reuse across reloads that
  compiler.go:39 and 48 speak of happens only for entries left by an update that
  failed between compiling and publishing. ReferencesAccounted says that the
  references are right all the same.
* SkyDDS: WriteBatch is not atomic, so a restored batch repeats the part that was
  written; with what came meanwhile it may exceed batch_num. A batch whose write by
  a Send fails is lost, although most of its Sends had returned nil: one caller gets
  the error (`lost`). A timer's flush that is in progress when Close runs fails on
  the closed writer and is restored into a closed sender. After a failed flush Close
  leaves the writer open. One overflow of the queue ends the receiver for good, and
  Stop does not wait for what is being emitted.
* TCP sender: a connection that broke stays in the pool; Send on it returns nil and
  the packet is gone, and nothing redials as long as the pool is not empty. Without
  framing AsyncWrite refers to the payload of a packet the task then releases, as in
  finding 2. A Send that runs into Close may dial again, and nobody closes that
  client.
* UDP senders: a Send during or after Close opens the socket again and leaves it
  open (`overlap` in SocketsAccounted).
* Stream receivers: a Stop before Start installed its means to stop (for the
  listeners: before OnBoot) has no effect but to close the traffic handle; a Kafka
  receiver that was never started keeps its client. Records of a poll are emitted
  after the cancellation.
* SFTP sender: a transfer can be assembled in two shards at a time. A Send that has
  chosen its shard waits for the lock while another commits the transfer there and
  cleans up; it then makes a new state in the old shard, and, as the assignment is
  gone (sftp.go:198-200, 219-234, 343-362), a later Send may be given another shard.
  Both states count chunks of one temporary file. A rename for the one takes the
  file away, and the other commits a file with a hole, or removes the one committed.
  It takes repetitions of chunks of a file that is complete; TLC reaches it in the
  run `sftp`, in 33 steps and without a fault. CommittedIntact and CommittedKept
  except these transfers (`Split`), and the proofs show that nothing else is excepted.
* SFTP sender: Remove and Rename are two calls, though the comments call the commit
  atomic; a crash in between leaves the file under its temporary name
  (CommittedKept). If a rename was done and its answer lost, the state stays
  complete, and a later duplicate removes the committed file and renames a part
  file that holds one chunk (the fault "answer"). A transfer whose total size is
  unknown counts as complete when its ranges form one and EOF was seen. Two
  versions of a file in flight at once write one part file.
* Kafka sender: the goroutine of a wait for callbacks that ran out of time
  (kafka.go:275, 401-413) stays in inflight.Wait. If its worker still produces, the
  counter may reach zero and be raised again before that Wait has returned, and Go
  panics on such a reuse. The model has the counter but not the panic; no property
  says that it cannot happen.
* Kafka sender: a Send that runs into Close may put its record into a queue whose
  worker is gone; it returned nil and nobody reports the record (Accounted names
  this case).
* File receivers: empty files are marked as seen and never delivered; a stream that
  is cancelled marks its file as seen too, in a receiver that is about to end.
  The SFTP signature has the resolution of the server's modification times, which
  the model takes as fine enough. A file that cannot be read ends every scan, so
  those behind it in name order wait. With more objects than seenLimit an OSS
  receiver reads all of them again in every scan.
* Schedule: a job may begin a run after its context has ended, if a tick was due;
  the run is waited for (StopQuiesces). Manager.Stop during Manager.Start would not
  wait for the groups that are not yet in the WaitGroup. Run calls the one after
  the other, and so does the model.

## 4. Proofs

Eight modules prove, for every value of the constants that satisfies the named
assumptions, what the runs check on small instances: all invariants of the passing
runs, the action properties CountedUnlessDetached and UntouchedTasksKeepRunning, and
the refinement ImplementsGate. Each property follows from an inductive invariant, checked with TLC
before it was proved; the proof that a step keeps it has one lemma for each action.
Nearly none of the properties is inductive alone. What was added, and why:

**Task** (`SafetyInv`). `LifeInv` (the gate is open exactly while serving, and the
pool or channel lives until the stop is past its wait) and `LaneInv` (the channel
holds exactly the packets that are queued, once each, and the worker's packet is the
one being executed). The core: StopWait needs inflight = 0, InflightExact turns that
into an empty set of admitted packets, QuietAfterDrain keeps it empty as the gate is
shut, and so StopRelease closes what nobody is about to use (ResourceSafe). Order
needs `TurnInv`: calls are numbered, the packet a caller holds is its latest, and the
queue is sorted per caller behind the worker's packet. ImplementsGate is proved step
by step under the invariants: each action of Task is one of TaskGate or a stutter.

**RuntimeStore** (`StoreInv`). The difficulty is that during an update the maps agree
neither with the old configuration nor with the new one. `PlanInv` says that the plan
compares the configuration with what was in effect when the update began, and that
until the senders are swapped that still is; `TargetInv`, `ReceiverInv` and `RouteInv`
say how much of the new one is in force at each step after that. `GateInv`, `UseInv`
and `SenderInv` relate what is alive to the maps: a gate that is not shut is that of a
task of the map or of the one being stopped, a task that the update has no longer to
replace uses the senders the map has now, an open sender is in the map or in
`toClose`. The reference counts (SendersAccounted) need all of these at the step that
retains, releases or collects. Of the stage cache, the references lead to tasks of the
map at every step but the ones of the update's task loop, where removed tasks still
have theirs, and they are exact after a successful update (StagesAccounted).

**Schedule** (`SchedInv`). `RunInv`: the atomic flag of a job that may not overlap is
taken exactly while its one run goes on, and only a loop that has begun and not ended
has runs. `GroupInv`: what a group has at work at each place of its goroutine.
`ManagerInv`: a group that Start has launched is counted, about to be counted, or
over; so the wait of a Stop that comes after Start ends only when all groups have.

**Bootstrap** (`BootInv`). `PhaseInv` ties each place of Run to what it has started,
so that each of its ways out stops that. StaleNoticed needs `PastInv` (fingerprints
are those of contents the file has had) and `FreshInv`: a content that is in the file
for the first time is one the watcher has not seen, or has passed on, or that the
reload in progress has loaded.

**OssTransfer** (`OssInv`, `TileInv`). `ByteInv`: the contiguous prefix is the
uploaded parts, the part in the driver's hands and the buffer, byte for byte; with it
every completion commits the whole file (ObjectIntact), for any cutting of the file,
any repetitions and failures. `OpenInv` follows an upload from its creation by one
goroutine to its abort, `DriveInv` says that `uploading` is a lock, `NoteInv` that one
goroutine per commit notifies. Where the waiting segments are is `TileInv`: what was
received is the prefix and the segments behind its first gap. It needs `OneReading`,
that the chunks are those of one reading of the file, and so do BytesConserved and
CommittedOnce: without it the code does not have these properties (section 3, other
behaviour). The receivers cut a file this way unless their configuration changes
between two readings.

**TrafficHub** (`HubInv`). References are a cardinality: those who hold a handle of
the name, and one for the handle a task left for its next instance (`ShareInv`).
Packets are the full groups seen less those whose goroutine has not added them yet
(`SampleInv`). `FlushInv` says what the summary in progress has listed.

**Endpoints**. The six kinds have an invariant each, which a step of any other kind
leaves alone. *Kafka* (`KafkaInv`): a record is in at most one of queue,
worker's hand and producer, and in one exactly as long as it is accepted and not
reported; the counters are cardinalities; and `KafkaClosing` says what Close may rely
on at each of its steps. *UDP* (`UdpInv`): an open socket is in the slot of the shard
whose lock or slot its owner has. *Stream receivers* (`StreamInv`): which of Start and
Stop has the handle, and the generator's credit as an equation. *File receivers*
(`PollInv`): what was dispatched of the file in hand is the first chunks of the listed
version as long as it was not written again, and what is remembered was delivered.
*TCP with framing* (`TcpInv`): a write that waits has a buffer of its own, which holds
the frame of its packet and is not in the pool (`TcpTasks`); so what the event loop
sends is that frame, whichever buffers were reused meanwhile. There always is a buffer,
because the waiting writes are of other packets and buffers are as many as packets. And
what the receiver has kept, followed by what is under way, is the frames of the packets
written and not yet cut, put one behind the other (`TcpStreams`). That the framer cuts
such a stream at the frames' ends, whichever prefix it is handed, is the lemma FeedIs,
by an induction over the turns of its loop; it needs that two digits say every length
up to MaxFrame, which is the longest payload Send accepts. *SkyDDS* (`SkyInv`): a message
is in the batch or with one holder, once (`SkyOnce`), because whoever takes the batch
held nothing before (`SkyHolds`); this makes moving it, also the restoring of a batch,
one lemma (SkyMoved). While a message waits it was written at most as often as writes
have failed (`SkyWritten`), which bounds the repetitions; and the timer whose write
failed keeps its payloads, so that a batch after Close has a failed write behind it.
How often a message is in a sequence, and the bytes of one, are facts on concatenation
(TimesConcat, BytesFacts) by a bijection and an induction over the loop's turns.

**SftpTransfer** (`AssemblyInv`, `FileInv`). The list of ranges is proved exact for
every list and every new range: `Merged` is the invariant of addRange's loop, and an
induction over its turns is made with a set of numbers in the place of a predicate.
From "sorted, with gaps" and "covers exactly what was received" it follows that
readyToCommit is true exactly when nothing is missing. The invariant adds who has the
lock of a shard, that who is past the write has a complete state, and that a complete
state is being committed or its rename has failed. `FileInv`: each byte that the one
state of a transfer has noted is in its temporary file, until a rename takes that. It
is what lets Send remove the committed file: the temporary one is whole then. The two
theorems about files have two hypotheses: no two transfers have one path, and the
answer of a rename that was done is not lost. Without either the code loses bytes:
the one is finding 3, the other the fault "answer" of section 3.

Assumptions on the constants, all evaluated by TLC on every run. `None` is none of the
values it stands beside. Packets of a task and instances of counters are finitely many
at a time (counts are cardinalities). Sizes and bounds are numbers, positive where the
code's defaults are. Calls, timers and Close of a SkyDDS sender are told apart
(SkyAssumption). Chunks and ranges are not empty and lie within their file.
Configurations are those that validation lets pass (ConfigsAssumption); a job belongs to
one group, and a group is of one kind (JobsAssumption, KindsAssumption); names of
receivers and tasks differ, as their roles are part of the key (NamesAssumption).

Checked by TLC only:

* the liveness properties (Progress, UpdateTerminates, RequestsServed, JobsEnd,
  EndpointsSettle): the prover has no rules for fairness and ENABLED;
* the properties that the code violates (findings).

## 5. Not modelled, and the plan

Not modelled, with the reason:

* `pipeline/`, `receiver/match_key.go`: each stage and each match key is a pure
  function of one packet, without state, order or failure to interleave; what a task
  can tell of their results is RunPipelines in Task.
* `config/` beyond the references between sections (ValidConfig): decoding, default
  values and ranges, field by field.
* `logx/logx.go`, `bootstrap/gc_stats.go`, `stage_logger.go`, `kafkautil/`: text and
  options. `control/api_client.go`: one HTTP request, as the source of the business
  configuration in place of the file.
* Of the object store's failures: a NewMultipartUpload that was done and whose answer
  is lost. The sender then does not know the upload and cannot abort it, so
  NoLeakedUpload is about the uploads whose number it was told.
* Of the SkyDDS bridge: opening and the reference count of the participant; Poll and
  PollBatch, which nothing calls.
* Of `schedule/`: registering groups and jobs before Start, which is sequential.
* Checksums, object keys, paths, and the libraries behind the endpoints (gnet,
  franz-go, minio, pkg/sftp, DDS), modelled by what the callers rely on.

No invariant of a passing run is left to prove; what TLC alone checks is listed at the
end of section 4, with the reason.
