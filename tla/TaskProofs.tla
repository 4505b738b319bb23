----------------------------- MODULE TaskProofs -----------------------------
(***************************************************************************)
(* Proofs about Task, for every number of packets, receiver goroutines and *)
(* senders, every pool size and every queue size.                          *)
(***************************************************************************)
EXTENDS TaskRefinement, FiniteSetTheorems, TLAPS

-----------------------------------------------------------------------------
(* Type correctness.                                                       *)

LEMMA TypeInit == Init => TypeOK
  <1> SUFFICES ASSUME Init PROVE TypeOK
    OBVIOUS
  <1>1. TypeFlags BY Zenon DEF Init, TypeFlags
  <1>2. TypeLife BY DEF Init, TypeLife, StopSteps
  <1>3. TypePackets BY DEF Init, TypePackets, Stages
  <1> QED BY <1>1, <1>2, <1>3 DEF TypeOK

LEMMA FlagsStep == TypeOK /\ [Next]_vars => TypeFlags'
  <1> SUFFICES ASSUME TypeFlags, [Next]_vars PROVE TypeFlags'
    BY DEF TypeOK
  <1> USE DEF TypeFlags
  <1>1. CASE UNCHANGED vars
    BY <1>1 DEF vars
  <1>2. CASE Lifecycle
    BY <1>2, Zenon DEF Lifecycle, Start, DetachTrafficCounter, StopRefuse,
       StopWait, StopTake, StopRelease, StopJoin, StopFinish, CancelContext,
       life, lane, work, hist
  <1>3. CASE channelWorker
    BY <1>3, Zenon DEF channelWorker, WorkerTake, WorkerExit, life, lane, work
  <1>4. ASSUME NEW p \in Packets, NEW c \in Callers, HandleEnter(c, p)
        PROVE TypeFlags'
    BY <1>4, Zenon DEF HandleEnter, life, lane
  <1>5. ASSUME NEW p \in Packets, Handle(p) PROVE TypeFlags'
    <2>1. CASE HandleAdmit(p)
      <3> DEFINE v == IF model = "pool" THEN pool = "attached"
                                        ELSE ch \in {"open", "closed"}
      <3>1. v \in BOOLEAN
        <4>1. CASE model = "pool" BY <4>1
        <4>2. CASE model # "pool" BY <4>2
        <4> QED BY <4>1, <4>2
      <3>2. snap' = [snap EXCEPT ![p] = v] BY <2>1, Zenon DEF HandleAdmit
      <3> HIDE DEF v
      <3>3. snap' \in [Packets -> BOOLEAN] BY <3>1, <3>2, Zenon
      <3> QED BY <2>1, <3>3, Zenon DEF HandleAdmit, life, lane
    <2>2. CASE ~HandleAdmit(p)
      BY <1>5, <2>2, Zenon DEF Handle, HandleReject, HandleFastPath,
         HandlePool, HandleChannel, HandleCancelled, DropDone, DropCount,
         DropRelease, life, lane
    <2> QED BY <2>1, <2>2
  <1>6. ASSUME NEW p \in Packets, runPacket(p) PROVE TypeFlags'
    BY <1>6, Zenon DEF runPacket, RunPipelines, sendToSender, RunRelease,
       RunCount, RunDone, life, lane
  <1> QED BY <1>1, <1>2, <1>3, <1>4, <1>5, <1>6 DEF Next

LEMMA LifeStep == TypeOK /\ [Next]_vars => TypeLife'
  <1> SUFFICES ASSUME TypeLife, [Next]_vars PROVE TypeLife'
    BY DEF TypeOK
  <1> USE DEF TypeLife
  <1>1. CASE UNCHANGED vars
    BY <1>1 DEF vars
  <1>2. CASE Lifecycle
    BY <1>2 DEF Lifecycle, Start, DetachTrafficCounter, StopRefuse,
       StopWait, StopTake, StopRelease, StopJoin, StopFinish, CancelContext,
       life, lane, StopSteps, resolveExecutionModel, ExecutionModels
  <1>3. CASE channelWorker
    BY <1>3 DEF channelWorker, WorkerTake, WorkerExit, life
  <1>4. ASSUME NEW p \in Packets, NEW c \in Callers, HandleEnter(c, p)
        PROVE TypeLife'
    BY <1>4 DEF HandleEnter, life, lane
  <1>5. ASSUME NEW p \in Packets, Handle(p) PROVE TypeLife'
    BY <1>5 DEF Handle, HandleAdmit, HandleReject, HandleFastPath,
       HandlePool, HandleChannel, HandleCancelled, DropDone, DropCount,
       DropRelease, life, lane
  <1>6. ASSUME NEW p \in Packets, runPacket(p) PROVE TypeLife'
    BY <1>6 DEF runPacket, RunPipelines, sendToSender, RunRelease,
       RunCount, RunDone, life, lane
  <1> QED BY <1>1, <1>2, <1>3, <1>4, <1>5, <1>6 DEF Next

LEMMA PacketsStep == TypeOK /\ [Next]_vars => TypePackets'
  <1> SUFFICES ASSUME TypeLife, TypePackets, [Next]_vars PROVE TypePackets'
    BY DEF TypeOK
  <1> USE DEF TypePackets
  <1>1. CASE UNCHANGED vars
    BY <1>1 DEF vars
  <1>2. CASE Lifecycle
    BY <1>2 DEF Lifecycle, Start, DetachTrafficCounter, StopRefuse,
       StopWait, StopTake, StopRelease, StopJoin, StopFinish, CancelContext,
       work, hist
  <1>3. CASE channelWorker
    <2>1. CASE WorkerTake
      <3>1. Head(queue) \in Packets BY <2>1 DEF WorkerTake, TypeLife
      <3> QED BY <2>1, <3>1 DEF WorkerTake, Move, work, hist, Stages
    <2>2. CASE WorkerExit
      BY <2>2 DEF WorkerExit, work, hist
    <2> QED BY <1>3, <2>1, <2>2 DEF channelWorker
  <1>4. ASSUME NEW p \in Packets, NEW c \in Callers, HandleEnter(c, p)
        PROVE TypePackets'
    BY <1>4 DEF HandleEnter, Move, work, Stages
  <1>5. ASSUME NEW p \in Packets, Handle(p) PROVE TypePackets'
    <2>1. CASE HandleReject(p) \/ DropRelease(p)
      BY <2>1 DEF HandleReject, DropRelease, Move, Release, work, hist, Stages
    <2>2. CASE HandlePool(p) \/ HandleChannel(p)
      BY <2>2 DEF HandlePool, HandleChannel, Move, work, hist, Stages
    <2>3. CASE \/ HandleAdmit(p) \/ HandleFastPath(p) \/ HandleCancelled(p)
               \/ DropDone(p) \/ DropCount(p)
      BY <2>3 DEF HandleAdmit, HandleFastPath, HandleCancelled, DropDone,
         DropCount, Move, work, hist, Stages
    <2> QED BY <1>5, <2>1, <2>2, <2>3 DEF Handle
  <1>6. ASSUME NEW p \in Packets, runPacket(p) PROVE TypePackets'
    <2>1. CASE RunPipelines(p)
      BY <2>1 DEF RunPipelines, Move, hist, Stages
    <2>2. ASSUME NEW s \in Senders, sendToSender(p, s) PROVE TypePackets'
      BY <2>2 DEF sendToSender, hist
    <2>3. CASE RunRelease(p) \/ RunCount(p) \/ RunDone(p)
      BY <2>3 DEF RunRelease, RunCount, RunDone, Move, Release, work, hist,
         Stages
    <2> QED BY <1>6, <2>1, <2>2, <2>3 DEF runPacket
  <1> QED BY <1>1, <1>2, <1>3, <1>4, <1>5, <1>6 DEF Next

LEMMA TypeNext == TypeOK /\ [Next]_vars => TypeOK'
  BY FlagsStep, LifeStep, PacketsStep DEF TypeOK

\* The type invariant of the task holds in every reachable state.
THEOREM TypeCorrect == Spec => []TypeOK
  BY TypeNext, TypeInit, PTL DEF Spec

-----------------------------------------------------------------------------
(* The inductive invariant.                                                *)

\* What moving a packet from one stage to another adds to the number of
\* packets in the stages S.
Delta(from, to, S) ==
  IF to \in S THEN IF from \in S THEN 0 ELSE 1
              ELSE IF from \in S THEN -1 ELSE 0

LEMMA CountMoved ==
  ASSUME NEW f \in [Packets -> Stages], NEW p \in Packets, NEW to \in Stages,
         NEW S
  PROVE  LET A == {q \in Packets : f[q] \in S}
             B == {q \in Packets : [f EXCEPT ![p] = to][q] \in S}
         IN  /\ Cardinality(A) \in Nat
             /\ Cardinality(B) = Cardinality(A) + Delta(f[p], to, S)
  <1> DEFINE A == {q \in Packets : f[q] \in S}
             B == {q \in Packets : [f EXCEPT ![p] = to][q] \in S}
  <1>1. IsFiniteSet(A) /\ Cardinality(A) \in Nat
    BY PacketsAssumption, FS_Subset, FS_CardinalityType
  <1>2. CASE to \in S <=> f[p] \in S
    <2>1. B = A BY <1>2
    <2>2. Delta(f[p], to, S) = 0 BY <1>2 DEF Delta
    <2> HIDE DEF A, B
    <2>3. Cardinality(B) = Cardinality(A) + Delta(f[p], to, S)
      BY <1>1, <2>1, <2>2
    <2> QED BY <1>1, <2>3 DEF A, B
  <1>3. CASE to \in S /\ f[p] \notin S
    <2>1. B = A \cup {p} /\ p \notin A BY <1>3
    <2>2. Cardinality(A \cup {p}) = Cardinality(A) + 1
      BY <1>1, <2>1, FS_AddElement
    <2> QED BY <1>1, <1>3, <2>1, <2>2 DEF Delta
  <1>4. CASE to \notin S /\ f[p] \in S
    <2>1. B = A \ {p} /\ p \in A BY <1>4
    <2>2. Cardinality(A \ {p}) = Cardinality(A) - 1
      BY <1>1, <2>1, FS_RemoveElement
    <2> QED BY <1>1, <1>4, <2>1, <2>2 DEF Delta
  <1> QED BY <1>2, <1>3, <1>4

\* A step that moves one packet keeps the counters exact if it adjusts them by
\* Delta.
LEMMA InflightMove ==
  ASSUME TypeOK, InflightExact, NEW p \in Packets, NEW to \in Stages,
         stage' = [stage EXCEPT ![p] = to],
         inflight' = inflight + Delta(stage[p], to, Inflight),
         inflightCount' = inflightCount + Delta(stage[p], to, Mirrored)
  PROVE  InflightExact'
  <1>1. stage \in [Packets -> Stages] BY DEF TypeOK, TypePackets
  <1>2. Cardinality(InStage(Inflight)') =
          Cardinality(InStage(Inflight)) + Delta(stage[p], to, Inflight)
    BY <1>1, CountMoved DEF InStage
  <1>3. Cardinality(InStage(Mirrored)') =
          Cardinality(InStage(Mirrored)) + Delta(stage[p], to, Mirrored)
    BY <1>1, CountMoved DEF InStage
  <1> QED BY <1>2, <1>3 DEF InflightExact

\* A step that moves a packet between stages of the same kind leaves the
\* counters alone.
LEMMA InflightSame ==
  ASSUME TypeOK, InflightExact, NEW p \in Packets, NEW to \in Stages,
         stage' = [stage EXCEPT ![p] = to],
         inflight' = inflight, inflightCount' = inflightCount,
         stage[p] \in Inflight <=> to \in Inflight,
         stage[p] \in Mirrored <=> to \in Mirrored
  PROVE  InflightExact'
  <1>1. stage \in [Packets -> Stages] BY DEF TypeOK, TypePackets
  <1>2. InStage(Inflight)' = InStage(Inflight) BY <1>1 DEF InStage
  <1>3. InStage(Mirrored)' = InStage(Mirrored) BY <1>1 DEF InStage
  <1> QED BY <1>2, <1>3 DEF InflightExact

LEMMA SafetyInit == Init => SafetyInv
  <1> SUFFICES ASSUME Init PROVE SafetyInv
    OBVIOUS
  <1>1. InStage(Inflight) = {} /\ InStage(Mirrored) = {}
    BY DEF Init, InStage, Inflight, Mirrored
  <1>2. InflightExact
    BY <1>1, FS_EmptySet DEF Init, InflightExact
  <1>3. ReleasedOnce /\ ResourceSafe /\ QuietAfterDrain
    BY DEF Init, ReleasedOnce, ResourceSafe, QuietAfterDrain
  <1>4. LifeInv BY DEF Init, LifeInv
  <1>5. LaneInv BY DEF Init, LaneInv, Executing
  <1> QED BY <1>2, <1>3, <1>4, <1>5, TypeInit DEF SafetyInv

LEMMA InflightStep ==
  ASSUME TypeOK, InflightExact, LaneInv, Next
  PROVE  InflightExact'
  <1>0. inflight \in Int /\ inflightCount \in Int BY DEF TypeOK, TypeLife
  <1>1. CASE Lifecycle
    BY <1>1 DEF Lifecycle, Start, DetachTrafficCounter, StopRefuse, StopWait,
       StopTake, StopRelease, StopJoin, StopFinish, CancelContext, InStage,
       InflightExact
  <1>2. CASE WorkerTake
    <2>1. Head(queue) \in Packets
      BY <1>2 DEF WorkerTake, TypeOK, TypeLife
    <2> QED BY <1>2, <2>1, InflightSame
            DEF WorkerTake, Move, Stages, Inflight, Mirrored
  <1>3. CASE WorkerExit
    BY <1>3 DEF WorkerExit, InStage, InflightExact
  <1>4. ASSUME NEW p \in Packets, NEW c \in Callers, HandleEnter(c, p)
        PROVE InflightExact'
    BY <1>4, InflightSame DEF HandleEnter, Move, Stages, Inflight, Mirrored
  <1>5. ASSUME NEW p \in Packets, Handle(p) PROVE InflightExact'
    <2> USE DEF Move, Stages, Inflight, Mirrored
    <2>1. CASE HandleAdmit(p)
      <3>1. /\ inflight' = inflight + Delta(stage[p], "admitted", Inflight)
            /\ inflightCount' = inflightCount + Delta(stage[p], "admitted", Mirrored)
        BY <2>1 DEF HandleAdmit, Delta
      <3> QED BY <2>1, <3>1, InflightMove DEF HandleAdmit
    <2>2. CASE HandleReject(p) BY <2>2, InflightSame DEF HandleReject
    <2>3. CASE HandleFastPath(p) BY <2>3, InflightSame DEF HandleFastPath
    <2>4. CASE HandlePool(p) BY <2>4, InflightSame DEF HandlePool
    <2>5. CASE HandleChannel(p) BY <2>5, InflightSame DEF HandleChannel
    <2>6. CASE HandleCancelled(p) BY <2>6, InflightSame DEF HandleCancelled
    <2>7. CASE DropDone(p)
      <3>1. /\ inflight' = inflight + Delta(stage[p], "dropDone", Inflight)
            /\ inflightCount' = inflightCount + Delta(stage[p], "dropDone", Mirrored)
        BY <1>0, <2>7 DEF DropDone, Delta
      <3> QED BY <2>7, <3>1, InflightMove DEF DropDone
    <2>8. CASE DropCount(p)
      <3>1. /\ inflight' = inflight + Delta(stage[p], "dropCount", Inflight)
            /\ inflightCount' = inflightCount + Delta(stage[p], "dropCount", Mirrored)
        BY <1>0, <2>8 DEF DropCount, Delta
      <3> QED BY <2>8, <3>1, InflightMove DEF DropCount
    <2>9. CASE DropRelease(p) BY <2>9, InflightSame DEF DropRelease
    <2> QED
      BY <1>5, <2>1, <2>2, <2>3, <2>4, <2>5, <2>6, <2>7, <2>8, <2>9 DEF Handle
  <1>6. ASSUME NEW p \in Packets, runPacket(p) PROVE InflightExact'
    <2> USE DEF Move, Stages, Inflight, Mirrored
    <2>1. CASE RunPipelines(p) BY <2>1, InflightSame DEF RunPipelines
    <2>2. ASSUME NEW s \in Senders, sendToSender(p, s) PROVE InflightExact'
      BY <2>2 DEF sendToSender, InStage, InflightExact
    <2>3. CASE RunRelease(p) BY <2>3, InflightSame DEF RunRelease
    <2>4. CASE RunCount(p)
      <3>1. /\ inflight' = inflight + Delta(stage[p], "counted", Inflight)
            /\ inflightCount' = inflightCount + Delta(stage[p], "counted", Mirrored)
        BY <1>0, <2>4 DEF RunCount, Delta
      <3> QED BY <2>4, <3>1, InflightMove DEF RunCount
    <2>5. CASE RunDone(p)
      <3>1. /\ inflight' = inflight + Delta(stage[p], "done", Inflight)
            /\ inflightCount' = inflightCount + Delta(stage[p], "done", Mirrored)
        BY <1>0, <2>5 DEF RunDone, Delta
      <3> QED BY <2>5, <3>1, InflightMove DEF RunDone
    <2> QED BY <1>6, <2>1, <2>2, <2>3, <2>4, <2>5 DEF runPacket
  <1> QED BY <1>1, <1>2, <1>3, <1>4, <1>5, <1>6 DEF Next, channelWorker

LEMMA ReleaseStep ==
  ASSUME TypeOK, ReleasedOnce, Next
  PROVE  ReleasedOnce'
  <1>0. stage \in [Packets -> Stages] /\ released \in [Packets -> Nat]
    BY DEF TypeOK, TypePackets
  <1> USE DEF ReleasedOnce
  <1>1. CASE Lifecycle \/ WorkerExit
    BY <1>1 DEF Lifecycle, Start, DetachTrafficCounter, StopRefuse, StopWait,
       StopTake, StopRelease, StopJoin, StopFinish, CancelContext, WorkerExit
  <1>2. CASE WorkerTake
    BY <1>0, <1>2 DEF WorkerTake, Move
  <1>3. ASSUME NEW p \in Packets, NEW c \in Callers, HandleEnter(c, p)
        PROVE ReleasedOnce'
    BY <1>0, <1>3 DEF HandleEnter, Move
  <1>4. ASSUME NEW p \in Packets, Handle(p) PROVE ReleasedOnce'
    <2>1. CASE HandleReject(p) \/ DropRelease(p)
      BY <1>0, <2>1 DEF HandleReject, DropRelease, Move, Release
    <2>2. CASE HandleAdmit(p) \/ HandleFastPath(p) \/ HandlePool(p)
      BY <1>0, <2>2 DEF HandleAdmit, HandleFastPath, HandlePool, Move
    <2>3. CASE HandleChannel(p) \/ HandleCancelled(p) \/ DropDone(p) \/ DropCount(p)
      BY <1>0, <2>3 DEF HandleChannel, HandleCancelled, DropDone, DropCount, Move
    <2> QED BY <1>4, <2>1, <2>2, <2>3 DEF Handle
  <1>5. ASSUME NEW p \in Packets, runPacket(p) PROVE ReleasedOnce'
    <2>1. CASE RunRelease(p)
      BY <1>0, <2>1 DEF RunRelease, Move, Release
    <2>2. CASE RunPipelines(p) \/ RunCount(p) \/ RunDone(p)
      BY <1>0, <2>2 DEF RunPipelines, RunCount, RunDone, Move
    <2>3. ASSUME NEW s \in Senders, sendToSender(p, s) PROVE ReleasedOnce'
      BY <2>3 DEF sendToSender
    <2> QED BY <1>5, <2>1, <2>2, <2>3 DEF runPacket
  <1> QED BY <1>1, <1>2, <1>3, <1>4, <1>5 DEF Next, channelWorker

LEMMA LifeInvStep ==
  ASSUME TypeOK, LifeInv, Next
  PROVE  LifeInv'
  <1>0. stage \in [Packets -> Stages] BY DEF TypeOK, TypePackets
  <1> USE DEF LifeInv
  <1>1. CASE Start
    BY <1>1 DEF Start, resolveExecutionModel, ExecutionModels
  <1>2. CASE DetachTrafficCounter \/ StopRefuse \/ StopWait
    BY <1>2 DEF DetachTrafficCounter, StopRefuse, StopWait
  <1>3. CASE StopTake \/ StopRelease
    BY <1>3 DEF StopTake, StopRelease
  <1>4. CASE StopJoin \/ StopFinish \/ CancelContext
    BY <1>4 DEF StopJoin, StopFinish, CancelContext, life
  <1>5. CASE channelWorker
    <2>1. CASE WorkerTake
      <3>1. Head(queue) \in Packets /\ stage[Head(queue)] = "queued"
        BY <2>1 DEF WorkerTake, Move, TypeOK, TypeLife
      <3>2. stop # "built" BY <3>1
      <3> QED BY <2>1, <3>2 DEF WorkerTake, life
    <2>2. CASE WorkerExit
      BY <2>2 DEF WorkerExit, life
    <2> QED BY <1>5, <2>1, <2>2 DEF channelWorker
  <1>6. ASSUME NEW p \in Packets, NEW c \in Callers, HandleEnter(c, p)
        PROVE LifeInv'
    BY <1>6 DEF HandleEnter, life
  <1>7. ASSUME NEW p \in Packets, Handle(p) PROVE LifeInv'
    <2>1. stop # "built" /\ UNCHANGED life
      BY <1>0, <1>7 DEF Handle, HandleAdmit, HandleReject, HandleFastPath,
         HandlePool, HandleChannel, HandleCancelled, DropDone, DropCount,
         DropRelease, Move, life
    <2> QED BY <2>1 DEF life
  <1>8. ASSUME NEW p \in Packets, runPacket(p) PROVE LifeInv'
    <2>1. stop # "built" /\ UNCHANGED life
      BY <1>0, <1>8 DEF runPacket, RunPipelines, sendToSender, RunRelease,
         RunCount, RunDone, Move, life
    <2> QED BY <2>1 DEF life
  <1> QED
    BY <1>1, <1>2, <1>3, <1>4, <1>5, <1>6, <1>7, <1>8 DEF Next, Lifecycle

LEMMA QuietStep ==
  ASSUME TypeOK, LifeInv, LaneInv, InflightExact, QuietAfterDrain, Next, LaneInv'
  PROVE  QuietAfterDrain'
  <1>0. stage \in [Packets -> Stages] BY DEF TypeOK, TypePackets
  <1> DEFINE Past == stop \notin {"built", "serving", "draining"}
  <1>1. ASSUME Past' , \A p \in Packets : stage'[p] \notin Inflight
        PROVE  QuietAfterDrain'
    <2>1. InStage(Inflight)' = {} BY <1>1 DEF InStage
    <2>2. DOMAIN queue' = {}
      BY <1>1, TypeNext DEF LaneInv, Inflight, TypeOK, TypeLife
    <2>3. queue' = <<>> BY <2>2, TypeNext DEF TypeOK, TypeLife
    <2>4. worker' = None
      BY <1>1, TypeNext DEF LaneInv, Inflight, Executing, TypeOK, TypeLife
    <2> QED BY <2>1, <2>3, <2>4 DEF QuietAfterDrain
  <1>2. CASE StopWait
    <2>1. IsFiniteSet(InStage(Inflight))
      BY PacketsAssumption, FS_Subset DEF InStage
    <2>2. InStage(Inflight) = {}
      BY <1>2, <2>1, FS_EmptySet DEF StopWait, InflightExact
    <2>3. \A p \in Packets : stage'[p] \notin Inflight
      BY <1>2, <2>2 DEF StopWait, InStage
    <2> QED BY <1>1, <1>2, <2>3 DEF StopWait, QuietAfterDrain
  <1>3. ASSUME Past', ~StopWait
        PROVE  \A p \in Packets : stage'[p] \notin Inflight
    <2>0. Past /\ ~accepting
      BY <1>3 DEF Next, Lifecycle, Start, DetachTrafficCounter, StopRefuse,
         StopTake, StopRelease, StopJoin, StopFinish, CancelContext,
         channelWorker, WorkerTake, WorkerExit, HandleEnter, Handle, HandleAdmit,
         HandleReject, HandleFastPath, HandlePool, HandleChannel,
         HandleCancelled, DropDone, DropCount, DropRelease, runPacket,
         RunPipelines, sendToSender, RunRelease, RunCount, RunDone, life, LifeInv
    <2>1. \A p \in Packets : stage[p] \notin Inflight
      BY <2>0 DEF QuietAfterDrain, InStage
    <2>2. CASE Lifecycle
      BY <2>1, <2>2 DEF Lifecycle, Start, DetachTrafficCounter, StopRefuse,
         StopWait, StopTake, StopRelease, StopJoin, StopFinish, CancelContext
    <2>3. CASE channelWorker
      BY <2>0, <2>1, <2>3 DEF channelWorker, WorkerTake, WorkerExit,
         QuietAfterDrain
    <2>4. ASSUME NEW q \in Packets, NEW c \in Callers, HandleEnter(c, q)
          PROVE  \A p \in Packets : stage'[p] \notin Inflight
      BY <1>0, <2>1, <2>4 DEF HandleEnter, Move, Inflight
    <2>5. ASSUME NEW q \in Packets, Handle(q)
          PROVE  \A p \in Packets : stage'[p] \notin Inflight
      BY <1>0, <2>0, <2>1, <2>5 DEF Handle, HandleAdmit, HandleReject,
         HandleFastPath, HandlePool, HandleChannel, HandleCancelled, DropDone,
         DropCount, DropRelease, Move, Inflight
    <2>6. ASSUME NEW q \in Packets, runPacket(q)
          PROVE  \A p \in Packets : stage'[p] \notin Inflight
      BY <1>0, <2>1, <2>6 DEF runPacket, RunPipelines, sendToSender, RunRelease,
         RunCount, RunDone, Move, Inflight
    <2> QED BY <2>2, <2>3, <2>4, <2>5, <2>6 DEF Next
  <1> QED BY <1>1, <1>2, <1>3 DEF QuietAfterDrain

\* A step that leaves queue, worker and model alone and moves a packet neither
\* into nor out of "queued", nor into Executing, keeps the lane invariant; it may
\* leave Executing only if the packet is not the worker's.
LEMMA LaneSame ==
  ASSUME TypeOK, LaneInv, UNCHANGED <<queue, worker, model>>,
         NEW p \in Packets, NEW to \in Stages,
         stage' = [stage EXCEPT ![p] = to],
         stage[p] # "queued", to # "queued",
         stage[p] \in Executing <=> to \in Executing
  PROVE  LaneInv'
  <1>0. stage \in [Packets -> Stages] /\ queue \in Seq(Packets)
        /\ worker \in Packets \cup {None}
    BY DEF TypeOK, TypeLife, TypePackets
  <1> QED BY <1>0 DEF LaneInv

LEMMA LaneStep ==
  ASSUME TypeOK, LifeInv, LaneInv, Next
  PROVE  LaneInv'
  <1>0. stage \in [Packets -> Stages] /\ queue \in Seq(Packets)
        /\ worker \in Packets \cup {None} /\ None \notin Packets
    BY PacketsAssumption DEF TypeOK, TypeLife, TypePackets
  <1>1. CASE Start
    <2>1. \A p \in Packets : stage[p] = "new" BY <1>1 DEF Start, LifeInv
    <2> QED BY <1>0, <1>1, <2>1 DEF Start, LaneInv, Executing, work
  <1>2. CASE Lifecycle /\ ~Start
    BY <1>2 DEF Lifecycle, DetachTrafficCounter, StopRefuse, StopWait,
       StopTake, StopRelease, StopJoin, StopFinish, CancelContext, LaneInv,
       life, lane
  <1>3. CASE WorkerExit
    BY <1>3 DEF WorkerExit, LaneInv, life
  <1>4. CASE WorkerTake
    <2> DEFINE h == Head(queue)
    <2>1. /\ queue # <<>> /\ h \in Packets /\ stage[h] = "queued"
          /\ queue' = Tail(queue) /\ worker' = h /\ worker = None
          /\ stage' = [stage EXCEPT ![h] = "running"] /\ model' = model
      BY <1>0, <1>4 DEF WorkerTake, Move, life
    <2>2. model = "channel" BY <2>1 DEF LaneInv
    <2>3. /\ DOMAIN queue = 1..Len(queue) /\ Len(queue) \in Nat
          /\ h = queue[1] /\ 1 \in DOMAIN queue
          /\ DOMAIN queue' = 1..(Len(queue) - 1)
          /\ \A i \in DOMAIN queue' : i + 1 \in DOMAIN queue
                                     /\ queue'[i] = queue[i + 1]
      BY <1>0, <2>1
    <2>4. \A i \in DOMAIN queue' : queue'[i] \in Packets /\ queue'[i] # h
                                   /\ stage'[queue'[i]] = "queued"
      BY <1>0, <2>1, <2>3 DEF LaneInv
    <2>5. \A i, j \in DOMAIN queue' : i # j => queue'[i] # queue'[j]
      BY <2>3 DEF LaneInv
    <2>6. \A p \in Packets : stage'[p] = "queued" =>
            model' = "channel" /\ \E i \in DOMAIN queue' : queue'[i] = p
      <3> SUFFICES ASSUME NEW p \in Packets, stage'[p] = "queued"
                   PROVE  \E i \in DOMAIN queue' : queue'[i] = p
        BY <2>1, <2>2
      <3>1. p # h /\ stage[p] = "queued" BY <1>0, <2>1
      <3>2. PICK i \in DOMAIN queue : queue[i] = p BY <3>1 DEF LaneInv
      <3>3. i # 1 /\ i - 1 \in DOMAIN queue' /\ queue'[i - 1] = p
        BY <2>3, <3>1, <3>2
      <3> QED BY <3>3
    <2>7. \A p \in Packets : stage'[p] \in Executing => worker' = p
      BY <1>0, <2>1, <2>2 DEF LaneInv, Executing
    <2> QED BY <1>0, <2>1, <2>4, <2>5, <2>6, <2>7 DEF LaneInv, Executing
  <1>5. ASSUME NEW p \in Packets, NEW c \in Callers, HandleEnter(c, p)
        PROVE LaneInv'
    BY <1>5, LaneSame DEF HandleEnter, Move, Stages, Executing, life, lane
  <1>6. ASSUME NEW p \in Packets, Handle(p) PROVE LaneInv'
    <2>1. CASE HandleAdmit(p)
      BY <2>1, LaneSame DEF HandleAdmit, Move, Stages, Executing, life, lane
    <2>2. CASE HandleReject(p) \/ HandleCancelled(p) \/ DropDone(p)
               \/ DropCount(p) \/ DropRelease(p)
      BY <2>2, LaneSame DEF HandleReject, HandleCancelled, DropDone, DropCount,
         DropRelease, Move, Stages, Executing, life, lane
    <2>3. CASE HandleFastPath(p) \/ HandlePool(p)
      BY <1>0, <2>3 DEF HandleFastPath, HandlePool, Move, Stages, Executing,
         life, lane, LaneInv
    <2>4. CASE HandleChannel(p) /\ ~snap[p]
      BY <2>4, LaneSame DEF HandleChannel, Move, Stages, Executing, life
    <2>5. CASE HandleChannel(p) /\ snap[p]
      <3>1. /\ stage[p] = "admitted" /\ stage' = [stage EXCEPT ![p] = "queued"]
            /\ queue' = Append(queue, p) /\ worker' = worker
            /\ model = "channel" /\ model' = model
        BY <2>5 DEF HandleChannel, Move, life
      <3>2. /\ DOMAIN queue = 1..Len(queue) /\ Len(queue) \in Nat
            /\ DOMAIN queue' = 1..(Len(queue) + 1)
            /\ queue'[Len(queue) + 1] = p
            /\ \A i \in DOMAIN queue : queue'[i] = queue[i]
        BY <1>0, <3>1
      <3>3. \A i \in DOMAIN queue : queue[i] \in Packets /\ queue[i] # p
        BY <1>0, <3>1 DEF LaneInv
      <3>4. \A i \in DOMAIN queue' : stage'[queue'[i]] = "queued"
        BY <1>0, <3>1, <3>2, <3>3 DEF LaneInv
      <3>5. \A i, j \in DOMAIN queue' : i # j => queue'[i] # queue'[j]
        BY <3>2, <3>3 DEF LaneInv
      <3>6. \A q \in Packets : stage'[q] = "queued" =>
              model' = "channel" /\ \E i \in DOMAIN queue' : queue'[i] = q
        BY <1>0, <3>1, <3>2 DEF LaneInv
      <3> QED BY <1>0, <3>1, <3>4, <3>5, <3>6 DEF LaneInv, Executing
    <2> QED BY <1>6, <2>1, <2>2, <2>3, <2>4, <2>5 DEF Handle
  <1>7. ASSUME NEW p \in Packets, runPacket(p) PROVE LaneInv'
    <2>1. CASE RunPipelines(p)
      BY <2>1, LaneSame DEF RunPipelines, Move, Stages, Executing, life, lane
    <2>2. ASSUME NEW s \in Senders, sendToSender(p, s) PROVE LaneInv'
      BY <2>2 DEF sendToSender, LaneInv, life, lane
    <2>3. CASE RunRelease(p) \/ RunCount(p)
      BY <2>3, LaneSame DEF RunRelease, RunCount, Move, Stages, Executing,
         life, lane
    <2>4. CASE RunDone(p)
      BY <1>0, <2>4 DEF RunDone, Move, LaneInv, Executing, life
    <2> QED BY <1>7, <2>1, <2>2, <2>3, <2>4 DEF runPacket
  <1> QED
    BY <1>1, <1>2, <1>3, <1>4, <1>5, <1>6, <1>7 DEF Next, channelWorker

\* An admitted packet's snapshot was taken while the resource was there.
LEMMA SnapStep ==
  ASSUME TypeOK, LifeInv, ResourceSafe, Next
  PROVE  \A p \in Packets : stage'[p] = "admitted" /\ model' \in {"pool", "channel"}
                              => snap'[p]
  <1>0. stage \in [Packets -> Stages] /\ snap \in [Packets -> BOOLEAN]
    BY DEF TypeOK, TypeFlags, TypePackets
  <1> DEFINE Goal == \A p \in Packets :
               stage'[p] = "admitted" /\ model' \in {"pool", "channel"} => snap'[p]
  <1>1. ASSUME UNCHANGED <<snap, model>>,
               \A p \in Packets : stage'[p] = "admitted" => stage[p] = "admitted"
        PROVE Goal
    BY <1>1 DEF ResourceSafe
  <1>2. CASE Start
    BY <1>2 DEF Start, LifeInv
  <1>3. CASE Lifecycle /\ ~Start
    BY <1>1, <1>3 DEF Lifecycle, DetachTrafficCounter, StopRefuse, StopWait,
       StopTake, StopRelease, StopJoin, StopFinish, CancelContext, life
  <1>4. CASE channelWorker
    BY <1>0, <1>1, <1>4 DEF channelWorker, WorkerTake, WorkerExit, Move, life
  <1>5. ASSUME NEW q \in Packets, NEW c \in Callers, HandleEnter(c, q)
        PROVE Goal
    BY <1>0, <1>1, <1>5 DEF HandleEnter, Move, life
  <1>6. ASSUME NEW q \in Packets, Handle(q) PROVE Goal
    <2>1. CASE HandleAdmit(q)
      <3>1. stop = "serving" BY <2>1 DEF HandleAdmit, LifeInv
      <3>2. /\ model = "pool" => pool = "attached"
            /\ model = "channel" => ch \in {"open", "closed"}
        BY <3>1 DEF LifeInv
      <3>3. model \in {"pool", "channel"} => snap'[q]
        BY <1>0, <2>1, <3>2 DEF HandleAdmit
      <3>4. \A p \in Packets \ {q} : stage'[p] = stage[p] /\ snap'[p] = snap[p]
        BY <1>0, <2>1 DEF HandleAdmit, Move
      <3>5. model' = model BY <2>1 DEF HandleAdmit, life
      <3> QED BY <3>3, <3>4, <3>5 DEF ResourceSafe
    <2>2. CASE ~HandleAdmit(q)
      BY <1>0, <1>1, <1>6, <2>2 DEF Handle, HandleReject, HandleFastPath,
         HandlePool, HandleChannel, HandleCancelled, DropDone, DropCount,
         DropRelease, Move, life
    <2> QED BY <2>1, <2>2
  <1>7. ASSUME NEW q \in Packets, runPacket(q) PROVE Goal
    BY <1>0, <1>1, <1>7 DEF runPacket, RunPipelines, sendToSender, RunRelease,
       RunCount, RunDone, Move, life
  <1> QED BY <1>2, <1>3, <1>4, <1>5, <1>6, <1>7 DEF Next

LEMMA SafetyStep == SafetyInv /\ [Next]_vars => SafetyInv'
  <1> SUFFICES ASSUME SafetyInv, [Next]_vars PROVE SafetyInv'
    OBVIOUS
  <1> USE DEF SafetyInv
  <1>1. CASE UNCHANGED vars
    BY <1>1, TypeNext DEF vars, LifeInv, LaneInv, InflightExact, ReleasedOnce,
       ResourceSafe, QuietAfterDrain, InStage
  <1>2. CASE Next
    <2>1. TypeOK' /\ LifeInv' /\ LaneInv' /\ InflightExact' /\ ReleasedOnce'
      BY <1>2, TypeNext, LifeInvStep, LaneStep, InflightStep, ReleaseStep
    <2>2. QuietAfterDrain' BY <1>2, <2>1, QuietStep
    <2>3. ASSUME NEW p \in Packets, stage'[p] = "admitted"
          PROVE  /\ model' = "pool" => snap'[p] /\ pool' = "attached"
                 /\ model' = "channel" => snap'[p] /\ ch' = "open"
      <3>1. /\ model' = "pool" => pool' = "attached"
            /\ model' = "channel" => ch' = "open"
        <4>1. stop' \in {"serving", "draining"}
          BY <2>1, <2>2, <2>3 DEF LifeInv, QuietAfterDrain, InStage, Inflight,
             TypeOK, TypeLife, StopSteps
        <4> QED BY <2>1, <4>1 DEF LifeInv
      <3>2. model' \in {"pool", "channel"} => snap'[p]
        BY <1>2, <2>3, SnapStep
      <3> QED BY <3>1, <3>2
    <2>4. ResourceSafe' BY <2>3 DEF ResourceSafe
    <2> QED BY <2>1, <2>2, <2>4
  <1> QED BY <1>1, <1>2

LEMMA SafetyAlways == Spec => []SafetyInv
  BY SafetyInit, SafetyStep, PTL DEF Spec

\* Handle, runPacket and the error branches pair every inflight.Add with one
\* Done, for any number of goroutines and packets.
THEOREM InflightCorrect == Spec => []InflightExact
  BY SafetyAlways, PTL DEF SafetyInv

\* No packet is released twice, or released while still in use.
THEOREM ReleaseCorrect == Spec => []ReleasedOnce
  BY SafetyAlways, PTL DEF SafetyInv

\* No Handle meets a released pool or a closed or missing channel.
THEOREM ResourceCorrect == Spec => []ResourceSafe
  BY SafetyAlways, PTL DEF SafetyInv

\* After the wait of StopGraceful nothing of the task runs any more.
THEOREM QuietCorrect == Spec => []QuietAfterDrain
  BY SafetyAlways, PTL DEF SafetyInv

-----------------------------------------------------------------------------
(* Delivery in call order.                                                 *)

\* Steps that move one packet p that already was with its caller, or take it out
\* of the caller's hands, without touching the queue or the numbering.
LEMMA TurnSame ==
  ASSUME TypeOK, TurnInv, UNCHANGED <<hist, queue, model>>,
         worker' \in {worker, None},
         NEW p \in Packets, NEW to \in Stages,
         stage' = [stage EXCEPT ![p] = to], stage[p] # "new",
         CallerHolds(p)' => CallerHolds(p)
  PROVE  TurnInv'
  <1>0. /\ stage \in [Packets -> Stages] /\ queue \in Seq(Packets)
        /\ \A q \in Packets : stage'[q] # "new" => stage[q] # "new"
        /\ \A q \in Packets : CallerHolds(q)' => CallerHolds(q)
    BY DEF TypeOK, TypeLife, TypePackets, CallerHolds
  <1>1. UNCHANGED <<caller, turn, calls, queue>> BY DEF hist
  <1> QED BY <1>0, <1>1, Zenon DEF TurnInv

\* What TurnInv says of the numbering survives any step that makes no packet
\* known and puts none back into its caller's hands.
LEMMA TurnKept ==
  ASSUME TurnInv, UNCHANGED <<caller, turn, calls>>,
         \A q \in Packets : /\ stage'[q] # "new" => stage[q] # "new"
                            /\ CallerHolds(q)' => CallerHolds(q)
  PROVE  /\ \A q \in Packets : stage'[q] # "new" => turn'[q] \in 1..calls'
         /\ \A q, r \in Packets :
              stage'[q] # "new" /\ stage'[r] # "new" /\ q # r => turn'[q] # turn'[r]
         /\ \A q, r \in Packets :
              CallerHolds(q)' /\ stage'[r] # "new" /\ caller'[q] = caller'[r] /\ q # r
                => turn'[r] < turn'[q]
  BY Zenon DEF TurnInv

LEMMA TurnStep ==
  ASSUME TypeOK, LifeInv, LaneInv, TurnInv, Next
  PROVE  TurnInv'
  <1>0. /\ stage \in [Packets -> Stages] /\ queue \in Seq(Packets)
        /\ worker \in Packets \cup {None} /\ None \notin Packets
        /\ caller \in [Packets -> Callers \cup {None}]
        /\ turn \in [Packets -> Nat] /\ calls \in Nat
    BY PacketsAssumption DEF TypeOK, TypeLife, TypePackets
  <1>1. CASE Start
    <2>1. \A p \in Packets : stage[p] = "new" BY <1>1 DEF Start, LifeInv
    <2>2. \A p \in Packets : ~CallerHolds(p)'
      BY <1>1, <2>1 DEF Start, CallerHolds, Executing
    <2> QED BY <1>0, <1>1, <2>1, <2>2 DEF Start, TurnInv, hist
  <1>2. CASE (Lifecycle /\ ~Start) \/ WorkerExit
    BY <1>2 DEF Lifecycle, DetachTrafficCounter, StopRefuse, StopWait,
       StopTake, StopRelease, StopJoin, StopFinish, CancelContext, WorkerExit,
       TurnInv, CallerHolds, life, lane, hist
  <1>3. CASE WorkerTake
    <2> DEFINE h == Head(queue)
    <2>1. /\ queue # <<>> /\ h \in Packets /\ stage[h] = "queued"
          /\ queue' = Tail(queue) /\ worker' = h /\ worker = None
          /\ stage' = [stage EXCEPT ![h] = "running"]
          /\ UNCHANGED <<model, caller, turn, calls>>
      BY <1>0, <1>3 DEF WorkerTake, Move, life, hist
    <2>2. model = "channel" BY <2>1 DEF LaneInv
    <2>3. /\ DOMAIN queue = 1..Len(queue) /\ Len(queue) \in Nat
          /\ h = queue[1] /\ 1 \in DOMAIN queue
          /\ DOMAIN queue' = 1..(Len(queue) - 1)
          /\ \A i \in DOMAIN queue' : i + 1 \in DOMAIN queue
                                     /\ queue'[i] = queue[i + 1]
      BY <1>0, <2>1
    <2>4. \A q \in Packets : /\ stage'[q] # "new" => stage[q] # "new"
                             /\ CallerHolds(q)' => CallerHolds(q)
      BY <1>0, <2>1, <2>2 DEF CallerHolds
    <2>5. \A i, j \in DOMAIN queue' :
            i < j /\ caller[queue'[i]] = caller[queue'[j]]
              => turn[queue'[i]] < turn[queue'[j]]
      BY <2>3 DEF TurnInv
    <2>6. \A i \in DOMAIN queue' : caller[h] = caller[queue'[i]]
                                     => turn[h] < turn[queue'[i]]
      BY <2>3 DEF TurnInv
    <2>7. /\ \A q \in Packets : stage'[q] # "new" => turn'[q] \in 1..calls'
          /\ \A q, r \in Packets :
               stage'[q] # "new" /\ stage'[r] # "new" /\ q # r => turn'[q] # turn'[r]
          /\ \A q, r \in Packets :
               CallerHolds(q)' /\ stage'[r] # "new" /\ caller'[q] = caller'[r] /\ q # r
                 => turn'[r] < turn'[q]
      BY <2>1, <2>4, TurnKept DEF CallerHolds
    <2>8. \A i, j \in DOMAIN queue' :
            i < j /\ caller'[queue'[i]] = caller'[queue'[j]]
              => turn'[queue'[i]] < turn'[queue'[j]]
      BY <2>1, <2>5, Zenon
    <2>9. \A i \in DOMAIN queue' : caller'[worker'] = caller'[queue'[i]]
                                     => turn'[worker'] < turn'[queue'[i]]
      BY <2>1, <2>6, Zenon
    <2> QED BY <2>7, <2>8, <2>9, Zenon DEF TurnInv
  <1>4. ASSUME NEW p \in Packets, NEW c \in Callers, HandleEnter(c, p)
        PROVE TurnInv'
    <2>1. /\ stage[p] = "new" /\ stage' = [stage EXCEPT ![p] = "offered"]
          /\ calls' = calls + 1 /\ caller' = [caller EXCEPT ![p] = c]
          /\ turn' = [turn EXCEPT ![p] = calls + 1]
          /\ UNCHANGED <<queue, worker, model>>
          /\ \A q \in Packets : caller[q] = c => ~CallerHolds(q)
      BY <1>4 DEF HandleEnter, Move, life, lane, CallerBusy
    <2>2. \A i \in DOMAIN queue : queue[i] \in Packets /\ queue[i] # p
      BY <1>0, <2>1 DEF LaneInv
    <2>3. worker # p BY <1>0, <2>1 DEF LaneInv, Executing
    <2>4. \A q \in Packets \ {p} :
             /\ stage'[q] = stage[q] /\ caller'[q] = caller[q] /\ turn'[q] = turn[q]
             /\ CallerHolds(q)' <=> CallerHolds(q)
      BY <1>0, <2>1 DEF CallerHolds
    <2>5. stage'[p] = "offered" /\ caller'[p] = c /\ turn'[p] = calls + 1
      BY <1>0, <2>1
    <2>6. \A q \in Packets : stage'[q] # "new" => turn'[q] \in 1..calls'
      BY <1>0, <2>1, <2>4, <2>5 DEF TurnInv
    <2>7. \A q, r \in Packets :
            stage'[q] # "new" /\ stage'[r] # "new" /\ q # r => turn'[q] # turn'[r]
      BY <1>0, <2>4, <2>5 DEF TurnInv
    <2>8. \A q, r \in Packets :
            CallerHolds(q)' /\ stage'[r] # "new" /\ caller'[q] = caller'[r] /\ q # r
              => turn'[r] < turn'[q]
      BY <1>0, <2>1, <2>4, <2>5 DEF TurnInv
    <2>9. \A i, j \in DOMAIN queue :
            i < j /\ caller'[queue[i]] = caller'[queue[j]]
              => turn'[queue[i]] < turn'[queue[j]]
      BY <2>2, <2>4 DEF TurnInv
    <2>10. worker # None => \A i \in DOMAIN queue :
            caller'[worker] = caller'[queue[i]] => turn'[worker] < turn'[queue[i]]
      BY <1>0, <2>2, <2>3, <2>4 DEF TurnInv
    <2> QED BY <2>1, <2>6, <2>7, <2>8, <2>9, <2>10 DEF TurnInv
  <1>5. ASSUME NEW p \in Packets, Handle(p) PROVE TurnInv'
    <2>1. CASE \/ HandleAdmit(p) \/ HandleReject(p) \/ HandleCancelled(p)
               \/ DropDone(p) \/ DropCount(p) \/ DropRelease(p)
      <3> USE <1>0, TurnSame DEF Move, Stages, CallerHolds, life, lane, Executing
      <3>1. CASE HandleAdmit(p) BY <3>1 DEF HandleAdmit
      <3>2. CASE HandleReject(p) BY <3>2 DEF HandleReject
      <3>3. CASE HandleCancelled(p) BY <3>3 DEF HandleCancelled
      <3>4. CASE DropDone(p) BY <3>4 DEF DropDone
      <3>5. CASE DropCount(p) BY <3>5 DEF DropCount
      <3>6. CASE DropRelease(p) BY <3>6 DEF DropRelease
      <3> QED BY <2>1, <3>1, <3>2, <3>3, <3>4, <3>5, <3>6
    <2>2. CASE HandleFastPath(p) \/ HandlePool(p)
               \/ (HandleChannel(p) /\ ~snap[p])
      <3> USE <1>0, TurnSame DEF Move, Stages, CallerHolds, life, lane, Executing
      <3>1. CASE HandleFastPath(p) BY <3>1 DEF HandleFastPath
      <3>2. CASE HandlePool(p) BY <3>2 DEF HandlePool
      <3>3. CASE HandleChannel(p) /\ ~snap[p] BY <3>3 DEF HandleChannel
      <3> QED BY <2>2, <3>1, <3>2, <3>3
    <2>3. CASE HandleChannel(p) /\ snap[p]
      <3>1. /\ stage[p] = "admitted" /\ stage' = [stage EXCEPT ![p] = "queued"]
            /\ queue' = Append(queue, p) /\ worker' = worker
            /\ model = "channel" /\ UNCHANGED <<model, caller, turn, calls>>
        BY <2>3 DEF HandleChannel, Move, life, hist
      <3>2. /\ DOMAIN queue = 1..Len(queue) /\ Len(queue) \in Nat
            /\ DOMAIN queue' = 1..(Len(queue) + 1)
            /\ queue'[Len(queue) + 1] = p
            /\ \A i \in DOMAIN queue : queue'[i] = queue[i]
        BY <1>0, <3>1
      <3>3. \A q \in Packets : stage[q] # "new" /\ caller[p] = caller[q] /\ p # q
                                => turn[q] < turn[p]
        BY <3>1 DEF TurnInv, CallerHolds
      <3>4. \A i \in DOMAIN queue : queue[i] \in Packets /\ queue[i] # p
                                    /\ stage[queue[i]] # "new"
        BY <1>0, <3>1 DEF LaneInv
      <3>5. \A q \in Packets : /\ stage'[q] # "new" => stage[q] # "new"
                               /\ CallerHolds(q)' => CallerHolds(q)
        BY <1>0, <3>1 DEF CallerHolds, Executing
      <3>6. \A i, j \in DOMAIN queue' :
              i < j /\ caller[queue'[i]] = caller[queue'[j]]
                => turn[queue'[i]] < turn[queue'[j]]
        BY <3>2, <3>3, <3>4 DEF TurnInv
      <3>7. worker # None => \A i \in DOMAIN queue' :
              caller[worker] = caller[queue'[i]] => turn[worker] < turn[queue'[i]]
        <4>1. worker # None => worker \in Packets /\ worker # p
                               /\ stage[worker] # "new"
          BY <1>0, <3>1 DEF LaneInv, Executing
        <4> QED BY <3>2, <3>3, <4>1 DEF TurnInv
      <3>8. /\ \A q \in Packets : stage'[q] # "new" => turn'[q] \in 1..calls'
            /\ \A q, r \in Packets :
                 stage'[q] # "new" /\ stage'[r] # "new" /\ q # r => turn'[q] # turn'[r]
            /\ \A q, r \in Packets :
                 CallerHolds(q)' /\ stage'[r] # "new" /\ caller'[q] = caller'[r] /\ q # r
                   => turn'[r] < turn'[q]
        BY <3>1, <3>5, TurnKept DEF CallerHolds
      <3>9. \A i, j \in DOMAIN queue' :
              i < j /\ caller'[queue'[i]] = caller'[queue'[j]]
                => turn'[queue'[i]] < turn'[queue'[j]]
        BY <3>1, <3>6, Zenon
      <3>10. worker' # None => \A i \in DOMAIN queue' :
              caller'[worker'] = caller'[queue'[i]] => turn'[worker'] < turn'[queue'[i]]
        BY <3>1, <3>7, Zenon
      <3> QED BY <3>8, <3>9, <3>10, Zenon DEF TurnInv
    <2> QED BY <1>5, <2>1, <2>2, <2>3 DEF Handle
  <1>6. ASSUME NEW p \in Packets, runPacket(p) PROVE TurnInv'
    <2> USE <1>0 DEF Move, Stages, CallerHolds, life, lane, Executing
    <2>1. CASE RunPipelines(p) BY <2>1, TurnSame DEF RunPipelines
    <2>2. ASSUME NEW s \in Senders, sendToSender(p, s) PROVE TurnInv'
      BY <2>2 DEF sendToSender, TurnInv, hist
    <2>3. CASE RunRelease(p) BY <2>3, TurnSame DEF RunRelease
    <2>4. CASE RunCount(p) BY <2>4, TurnSame DEF RunCount
    <2>5. CASE RunDone(p) BY <2>5, TurnSame DEF RunDone
    <2> QED BY <1>6, <2>1, <2>2, <2>3, <2>4, <2>5 DEF runPacket
  <1> QED
    BY <1>1, <1>2, <1>3, <1>4, <1>5, <1>6 DEF Next, channelWorker

LEMMA TurnInit == Init => TurnInv
  <1> SUFFICES ASSUME Init PROVE TurnInv
    OBVIOUS
  <1>1. /\ \A p \in Packets : stage[p] = "new"
        /\ \A p \in Packets : ~CallerHolds(p)
        /\ queue = <<>> /\ worker = None
    BY DEF Init, CallerHolds, Executing
  <1>2. DOMAIN queue = {} BY <1>1
  <1> QED BY <1>1, <1>2 DEF TurnInv

LEMMA OrderAlways == Spec => [](SafetyInv /\ TurnInv)
  <1>1. Init => SafetyInv /\ TurnInv
    BY SafetyInit, TurnInit
  <1>2. SafetyInv /\ TurnInv /\ [Next]_vars => (SafetyInv /\ TurnInv)'
    <2> SUFFICES ASSUME SafetyInv, TurnInv, [Next]_vars
                 PROVE  SafetyInv' /\ TurnInv'
      OBVIOUS
    <2>1. SafetyInv' BY SafetyStep
    <2>2. TypeOK /\ LifeInv /\ LaneInv BY DEF SafetyInv
    <2>3. CASE Next BY <2>1, <2>2, <2>3, TurnStep
    <2>4. CASE UNCHANGED vars
      <3>1. UNCHANGED <<caller, turn, calls, stage, queue, worker, model>>
        BY <2>4 DEF vars
      <3>2. TurnInv' BY <3>1, Zenon DEF TurnInv, CallerHolds
      <3> QED BY <2>1, <3>2
    <2> QED BY <2>1, <2>3, <2>4
  <1> QED BY <1>1, <1>2, PTL DEF Spec

\* In the channel and fastpath models the packets of one caller are delivered in
\* the order of its Handle calls.
LEMMA OrderFromTurns ==
  ASSUME TypeOK, LaneInv, TurnInv
  PROVE  OrderedPerCaller
  <1> SUFFICES ASSUME NEW p \in Packets, NEW q \in Packets,
                      model \in {"channel", "fastpath"},
                      caller[p] = caller[q], turn[p] < turn[q],
                      stage[q] \in {"running", "sending"},
                      stage[p] \in {"offered", "admitted", "queued", "running",
                                    "sending"}
               PROVE  FALSE
    BY DEF OrderedPerCaller
  <1>0. /\ turn[p] \in Nat /\ turn[q] \in Nat /\ p # q
        /\ stage[p] # "new" /\ stage[q] # "new"
        /\ queue \in Seq(Packets)
    BY DEF TypeOK, TypePackets, TypeLife
  <1>1. ~(turn[q] < turn[p]) BY <1>0
  <1>2. ~CallerHolds(p) BY <1>0, <1>1 DEF TurnInv
  <1>3. model = "channel" /\ stage[p] \in {"queued", "running", "sending"}
    BY <1>2 DEF CallerHolds, LaneInv, Executing
  <1>4. worker = q BY <1>3 DEF LaneInv, Executing
  <1>5. stage[p] = "queued" BY <1>0, <1>3, <1>4 DEF LaneInv, Executing
  <1>6. PICK i \in DOMAIN queue : queue[i] = p BY <1>5 DEF LaneInv
  <1>7. worker # None BY <1>4, PacketsAssumption
  <1>8. turn[q] < turn[p] BY <1>4, <1>6, <1>7 DEF TurnInv
  <1> QED BY <1>1, <1>8

\* In the channel and fastpath models the packets of one receiver goroutine are
\* delivered in the order of its Handle calls, for any number of packets,
\* callers and senders and any queue size.
THEOREM OrderCorrect == Spec => []OrderedPerCaller
  <1>1. SafetyInv /\ TurnInv => OrderedPerCaller
    BY OrderFromTurns DEF SafetyInv
  <1> QED BY OrderAlways, <1>1, PTL

-----------------------------------------------------------------------------
(* Concurrency of the execution models.                                    *)

\* The pool bound, made inductive: Submit starts a worker only below the cap.
PoolInv == model = "pool" => Cardinality(InStage(Executing)) <= PoolCap

LEMMA PoolCapNat == PoolCap \in Nat
  BY SizesAssumption DEF PoolCap, EffectiveSize

\* A step that does not start the execution of a packet keeps the bound.
LEMMA PoolMove ==
  ASSUME TypeOK, PoolInv, NEW p \in Packets, NEW to \in Stages,
         stage' = [stage EXCEPT ![p] = to], model' = model,
         to \in Executing => \/ stage[p] \in Executing
                             \/ model # "pool"
                             \/ Cardinality(InStage(Executing)) < PoolCap
  PROVE  PoolInv'
  <1>1. stage \in [Packets -> Stages] BY DEF TypeOK, TypePackets
  <1>2. /\ Cardinality(InStage(Executing)) \in Nat
        /\ Cardinality(InStage(Executing)') =
             Cardinality(InStage(Executing)) + Delta(stage[p], to, Executing)
    BY <1>1, CountMoved DEF InStage
  <1>3. PoolCap' = PoolCap BY DEF PoolCap, EffectiveSize
  <1> QED BY <1>2, <1>3, PoolCapNat DEF PoolInv, Delta

LEMMA PoolStep ==
  ASSUME TypeOK, LifeInv, LaneInv, PoolInv, Next
  PROVE  PoolInv'
  <1>0. PoolCap' = PoolCap BY DEF PoolCap, EffectiveSize
  <1>1. CASE Start
    <2>1. InStage(Executing)' = {}
      BY <1>1 DEF Start, LifeInv, InStage, Executing
    <2> QED BY <1>0, <2>1, PoolCapNat, FS_EmptySet DEF PoolInv
  <1>2. CASE (Lifecycle /\ ~Start) \/ WorkerExit
    <2>1. UNCHANGED <<model, stage>>
      BY <1>2 DEF Lifecycle, DetachTrafficCounter, StopRefuse, StopWait,
         StopTake, StopRelease, StopJoin, StopFinish, CancelContext,
         WorkerExit, life
    <2> QED BY <1>0, <2>1 DEF PoolInv, InStage
  <1>3. CASE WorkerTake
    <2>1. Head(queue) \in Packets BY <1>3 DEF WorkerTake, TypeOK, TypeLife
    <2>2. 1 \in DOMAIN queue /\ queue[1] = Head(queue)
      BY <1>3 DEF WorkerTake, TypeOK, TypeLife
    <2>3. model = "channel" BY <2>1, <2>2 DEF LaneInv
    <2> QED BY <1>3, <2>1, <2>3, PoolMove DEF WorkerTake, Move, Stages, life
  <1>4. ASSUME NEW p \in Packets, NEW c \in Callers, HandleEnter(c, p)
        PROVE PoolInv'
    BY <1>4, PoolMove DEF HandleEnter, Move, Stages, Executing, life
  <1>5. ASSUME NEW p \in Packets, Handle(p) PROVE PoolInv'
    <2> USE PoolMove DEF Move, Stages, Executing, life
    <2>1. CASE HandleAdmit(p) BY <2>1 DEF HandleAdmit
    <2>2. CASE HandleReject(p) BY <2>2 DEF HandleReject
    <2>3. CASE HandleFastPath(p) BY <2>3 DEF HandleFastPath
    <2>4. CASE HandlePool(p) BY <2>4 DEF HandlePool
    <2>5. CASE HandleChannel(p) BY <2>5 DEF HandleChannel
    <2>6. CASE HandleCancelled(p) BY <2>6 DEF HandleCancelled
    <2>7. CASE DropDone(p) BY <2>7 DEF DropDone
    <2>8. CASE DropCount(p) BY <2>8 DEF DropCount
    <2>9. CASE DropRelease(p) BY <2>9 DEF DropRelease
    <2> QED
      BY <1>5, <2>1, <2>2, <2>3, <2>4, <2>5, <2>6, <2>7, <2>8, <2>9 DEF Handle
  <1>6. ASSUME NEW p \in Packets, runPacket(p) PROVE PoolInv'
    <2> USE DEF Move, Stages, Executing, life
    <2>1. CASE RunPipelines(p) BY <2>1, PoolMove DEF RunPipelines
    <2>2. ASSUME NEW s \in Senders, sendToSender(p, s) PROVE PoolInv'
      BY <1>0, <2>2 DEF sendToSender, PoolInv, InStage
    <2>3. CASE RunRelease(p) BY <2>3, PoolMove DEF RunRelease
    <2>4. CASE RunCount(p) BY <2>4, PoolMove DEF RunCount
    <2>5. CASE RunDone(p) BY <2>5, PoolMove DEF RunDone
    <2> QED BY <1>6, <2>1, <2>2, <2>3, <2>4, <2>5 DEF runPacket
  <1> QED BY <1>1, <1>2, <1>3, <1>4, <1>5, <1>6 DEF Next, channelWorker

LEMMA PoolInit == Init => PoolInv
  <1> SUFFICES ASSUME Init PROVE PoolInv
    OBVIOUS
  <1>1. InStage(Executing) = {} BY DEF Init, InStage, Executing
  <1> QED BY <1>1, PoolCapNat, FS_EmptySet DEF PoolInv

\* One packet at a time in the channel model, at most the configured number of
\* workers in the pool model, whatever the sizes configured.
THEOREM ConcurrencyCorrect == Spec => []ConcurrencyBound
  <1>1. Init => SafetyInv /\ PoolInv
    BY SafetyInit, PoolInit
  <1>2. SafetyInv /\ PoolInv /\ [Next]_vars => (SafetyInv /\ PoolInv)'
    <2> SUFFICES ASSUME SafetyInv, PoolInv, [Next]_vars
                 PROVE  SafetyInv' /\ PoolInv'
      OBVIOUS
    <2>1. SafetyInv' BY SafetyStep
    <2>2. TypeOK /\ LifeInv /\ LaneInv BY DEF SafetyInv
    <2>3. CASE Next BY <2>1, <2>2, <2>3, PoolStep
    <2>4. CASE UNCHANGED vars
      <3>1. UNCHANGED <<stage, model>> /\ PoolCap' = PoolCap
        BY <2>4 DEF vars, PoolCap, EffectiveSize
      <3> QED BY <2>1, <3>1 DEF PoolInv, InStage
    <2> QED BY <2>3, <2>4
  <1>3. SafetyInv /\ PoolInv => ConcurrencyBound
    <2> SUFFICES ASSUME SafetyInv, PoolInv PROVE ConcurrencyBound
      OBVIOUS
    <2>1. worker \in Packets \cup {None}
      BY DEF SafetyInv, TypeOK, TypeLife
    <2>2. model = "channel" =>
            InStage(Executing) = IF worker = None THEN {} ELSE {worker}
      BY <2>1, PacketsAssumption DEF SafetyInv, LaneInv, InStage
    <2> QED BY <2>2 DEF ConcurrencyBound, PoolInv
  <1> QED BY <1>1, <1>2, <1>3, PTL DEF Spec

-----------------------------------------------------------------------------
(* Traffic counting.                                                       *)

\* The counter is taken only after the wait, when no Send can happen any more.
CountInv ==
  /\ CountedUnlessDetached
  /\ stop = "built" => uncounted = {}
  /\ sendStats \in {"taken", "closed"} =>
       stop \notin {"built", "serving", "draining"}

LEMMA CountStep ==
  ASSUME TypeOK, LifeInv, QuietAfterDrain, CountInv, [Next]_vars
  PROVE  CountInv'
  <1>0. stop \in StopSteps BY DEF TypeOK, TypeLife
  <1> USE DEF CountInv, CountedUnlessDetached
  <1>1. CASE UNCHANGED vars BY <1>1 DEF vars
  <1>2. CASE Lifecycle
    BY <1>0, <1>2 DEF Lifecycle, Start, DetachTrafficCounter, StopRefuse,
       StopWait, StopTake, StopRelease, StopJoin, StopFinish, CancelContext,
       life, work
  <1>3. CASE channelWorker
    BY <1>3 DEF channelWorker, WorkerTake, WorkerExit, life, work
  <1>4. ASSUME NEW p \in Packets, NEW c \in Callers, HandleEnter(c, p)
        PROVE CountInv'
    BY <1>4 DEF HandleEnter, life, work
  <1>5. ASSUME NEW p \in Packets, Handle(p) PROVE CountInv'
    BY <1>5 DEF Handle, HandleAdmit, HandleReject, HandleFastPath, HandlePool,
       HandleChannel, HandleCancelled, DropDone, DropCount, DropRelease, life,
       work
  <1>6. ASSUME NEW p \in Packets, NEW s \in Senders, sendToSender(p, s)
        PROVE CountInv'
    <2>1. stage[p] = "sending" BY <1>6 DEF sendToSender
    <2>2. stop \in {"serving", "draining"}
      BY <1>0, <2>1 DEF LifeInv, QuietAfterDrain, InStage, Inflight, StopSteps
    <2> QED BY <1>6, <2>2 DEF sendToSender, life
  <1>7. ASSUME NEW p \in Packets,
               \/ RunPipelines(p) \/ RunRelease(p) \/ RunCount(p) \/ RunDone(p)
        PROVE CountInv'
    BY <1>7 DEF RunPipelines, RunRelease, RunCount, RunDone, life, work
  <1> QED BY <1>1, <1>2, <1>3, <1>4, <1>5, <1>6, <1>7 DEF Next, runPacket

\* Unless the runtime detached the counter, every Send of the task is counted.
THEOREM CountingCorrect == Spec => []CountedUnlessDetached
  <1>1. Init => SafetyInv /\ CountInv
    <2>1. Init => CountInv BY DEF Init, CountInv, CountedUnlessDetached
    <2> QED BY <2>1, SafetyInit
  <1>2. SafetyInv /\ CountInv /\ [Next]_vars => (SafetyInv /\ CountInv)'
    BY SafetyStep, CountStep DEF SafetyInv
  <1>3. CountInv => CountedUnlessDetached BY DEF CountInv
  <1> QED BY <1>1, <1>2, <1>3, PTL DEF Spec

-----------------------------------------------------------------------------
(* Task implements TaskGate.                                               *)

\* What processAndSend still has to do and what it has done are disjoint, and
\* nothing was sent before the pipelines ran.
SentInv ==
  \A p \in Packets :
    /\ stage[p] \in {"new", "offered", "admitted", "queued", "running"} => sent[p] = {}
    /\ stage[p] = "sending" => todo[p] \cap sent[p] = {}

LEMMA SentInit == Init => SentInv
  BY DEF Init, SentInv

LEMMA SentStep ==
  ASSUME TypeOK, SentInv, [Next]_vars
  PROVE  SentInv'
  <1>0. /\ stage \in [Packets -> Stages]
        /\ todo \in [Packets -> SUBSET Senders]
        /\ sent \in [Packets -> SUBSET Senders]
    BY DEF TypeOK, TypePackets
  <1> USE <1>0 DEF SentInv
  <1>1. CASE UNCHANGED vars
    BY <1>1 DEF vars
  <1>2. CASE Lifecycle
    BY <1>2 DEF Lifecycle, Start, DetachTrafficCounter, StopRefuse, StopWait,
       StopTake, StopRelease, StopJoin, StopFinish, CancelContext, work
  <1>3. CASE channelWorker
    BY <1>3 DEF channelWorker, WorkerTake, WorkerExit, Move, work
  <1>4. ASSUME NEW p \in Packets, NEW c \in Callers, HandleEnter(c, p)
        PROVE SentInv'
    BY <1>4 DEF HandleEnter, Move, work
  <1>5. ASSUME NEW p \in Packets, Handle(p) PROVE SentInv'
    BY <1>5 DEF Handle, HandleAdmit, HandleReject, HandleFastPath, HandlePool,
       HandleChannel, HandleCancelled, DropDone, DropCount, DropRelease, Move,
       work
  <1>6. ASSUME NEW p \in Packets, RunPipelines(p) PROVE SentInv'
    BY <1>6 DEF RunPipelines, Move
  <1>7. ASSUME NEW p \in Packets, NEW s \in Senders, sendToSender(p, s)
        PROVE SentInv'
    BY <1>7 DEF sendToSender
  <1>8. ASSUME NEW p \in Packets, RunRelease(p) \/ RunCount(p) \/ RunDone(p)
        PROVE SentInv'
    BY <1>8 DEF RunRelease, RunCount, RunDone, Move, work
  <1> QED BY <1>1, <1>2, <1>3, <1>4, <1>5, <1>6, <1>7, <1>8 DEF Next, runPacket

\* The place a stage stands for.
PlaceOf(st) ==
  IF st \in Inflight THEN "inside"
  ELSE IF st \in {"new", "offered"} THEN "outside" ELSE "gone"

\* A packet that moves between stages of one place does not move at the gate.
LEMMA PlaceMoved ==
  ASSUME stage \in [Packets -> Stages], NEW p \in Packets, NEW to,
         stage' = [stage EXCEPT ![p] = to]
  PROVE  /\ Place' = [Place EXCEPT ![p] = PlaceOf(to)]
         /\ Place[p] = PlaceOf(stage[p])
         /\ PlaceOf(to) = PlaceOf(stage[p]) => Place' = Place
  BY DEF Place, PlaceOf

LEMMA PlaceGone ==
  ASSUME stage \in [Packets -> Stages], NEW p \in Packets,
         NEW to \in {"done", "dropDone"}, stage' = [stage EXCEPT ![p] = to]
  PROVE  Place' = [Place EXCEPT ![p] = "gone"]
  <1>1. PlaceOf(to) = "gone" BY DEF PlaceOf, Inflight
  <1> QED BY <1>1, PlaceMoved

LEMMA GateStep ==
  ASSUME SafetyInv, SentInv, [Next]_vars
  PROVE  [Gate!GateNext]_(Gate!gvars)
  <1>0. stage \in [Packets -> Stages] /\ stop \in StopSteps
    BY DEF SafetyInv, TypeOK, TypePackets, TypeLife
  <1> USE DEF Gate!gvars
  <1>1. CASE UNCHANGED vars
    BY <1>1 DEF vars, Door, Place
  <1>2. CASE Lifecycle
    <2>0. Place' = Place /\ sent' = sent
      BY <1>2 DEF Lifecycle, Start, DetachTrafficCounter, StopRefuse, StopWait,
         StopTake, StopRelease, StopJoin, StopFinish, CancelContext, work, Place
    <2>1. CASE Start
      <3>1. Gate!Open BY <2>0, <2>1 DEF Start, Gate!Open, Door
      <3> QED BY <3>1 DEF Gate!GateNext
    <2>2. CASE StopRefuse
      <3>1. Gate!Close BY <2>0, <2>2 DEF StopRefuse, Gate!Close, Door
      <3> QED BY <3>1 DEF Gate!GateNext
    <2>3. CASE StopWait
      <3>1. IsFiniteSet(InStage(Inflight))
        BY PacketsAssumption, FS_Subset DEF InStage
      <3>2. InStage(Inflight) = {}
        BY <2>3, <3>1, FS_EmptySet DEF StopWait, SafetyInv, InflightExact
      <3>3. \A p \in Packets : Place[p] # "inside"
        BY <3>2 DEF Place, InStage
      <3>4. Gate!Shut BY <2>0, <2>3, <3>3 DEF StopWait, Gate!Shut, Door
      <3> QED BY <3>4 DEF Gate!GateNext
    <2>4. CASE StopTake \/ StopRelease \/ StopJoin \/ StopFinish
      BY <2>0, <2>4 DEF StopTake, StopRelease, StopJoin, StopFinish, Door
    <2>5. CASE DetachTrafficCounter \/ CancelContext
      BY <2>0, <2>5 DEF DetachTrafficCounter, CancelContext, life, Door
    <2> QED BY <1>2, <2>1, <2>2, <2>3, <2>4, <2>5 DEF Lifecycle
  <1>3. CASE channelWorker
    <2>0. Door' = Door /\ sent' = sent
      BY <1>3 DEF channelWorker, WorkerTake, WorkerExit, life, work, Door
    <2>1. CASE WorkerTake
      <3>1. Head(queue) \in Packets
        BY <2>1 DEF WorkerTake, SafetyInv, TypeOK, TypeLife
      <3>2. Place' = Place
        BY <1>0, <2>1, <3>1, PlaceMoved DEF WorkerTake, Move, PlaceOf, Inflight
      <3> QED BY <2>0, <3>2
    <2>2. CASE WorkerExit BY <2>0, <2>2 DEF WorkerExit, Place
    <2> QED BY <1>3, <2>1, <2>2 DEF channelWorker
  <1>4. ASSUME NEW p \in Packets, NEW c \in Callers, HandleEnter(c, p)
        PROVE  UNCHANGED Gate!gvars
    <2>1. Place' = Place
      BY <1>0, <1>4, PlaceMoved DEF HandleEnter, Move, PlaceOf, Inflight
    <2> QED BY <1>4, <2>1 DEF HandleEnter, life, work, Door
  <1>5. ASSUME NEW p \in Packets, Handle(p)
        PROVE  [Gate!GateNext]_(Gate!gvars)
    <2>0. Door' = Door /\ sent' = sent /\ stop' = stop
      BY <1>5 DEF Handle, HandleAdmit, HandleReject, HandleFastPath, HandlePool,
         HandleChannel, HandleCancelled, DropDone, DropCount, DropRelease, life,
         work, Door
    <2> USE DEF Move, PlaceOf, Inflight
    <2>1. CASE HandleAdmit(p)
      <3>1. Door = "open"
        BY <2>1 DEF HandleAdmit, SafetyInv, LifeInv, Door
      <3>2. Gate!Enter(p)
        BY <1>0, <2>0, <2>1, <3>1, PlaceMoved DEF HandleAdmit, Gate!Enter
      <3> QED BY <3>2 DEF Gate!GateNext
    <2>2. CASE HandleReject(p)
      <3>1. stop \notin {"built", "serving"}
        BY <2>2 DEF HandleReject, SafetyInv, LifeInv
      <3>2. Door \in {"closing", "shut"} BY <1>0, <3>1 DEF Door, StopSteps
      <3>3. Place[p] = "outside" /\ Place' = [Place EXCEPT ![p] = "gone"]
        BY <1>0, <2>2, PlaceGone DEF HandleReject, Place
      <3>4. Gate!TurnAway(p)
        BY <2>0, <3>2, <3>3 DEF Gate!TurnAway
      <3> QED BY <3>4 DEF Gate!GateNext
    <2>3. CASE HandleFastPath(p) \/ HandlePool(p) \/ HandleChannel(p) \/ HandleCancelled(p)
      BY <1>0, <2>0, <2>3, PlaceMoved DEF HandleFastPath, HandlePool,
         HandleChannel, HandleCancelled
    <2>4. CASE DropDone(p)
      <3>1. Place[p] = "inside" /\ Place' = [Place EXCEPT ![p] = "gone"]
        BY <1>0, <2>4, PlaceGone DEF DropDone, Place
      <3>2. Gate!Leave(p)
        BY <2>0, <2>4, <3>1 DEF DropDone, Gate!Leave
      <3> QED BY <3>2 DEF Gate!GateNext
    <2>5. CASE DropCount(p) \/ DropRelease(p)
      BY <1>0, <2>0, <2>5, PlaceMoved DEF DropCount, DropRelease
    <2> QED BY <1>5, <2>1, <2>2, <2>3, <2>4, <2>5 DEF Handle
  <1>6. ASSUME NEW p \in Packets, runPacket(p)
        PROVE  [Gate!GateNext]_(Gate!gvars)
    <2>0. Door' = Door
      BY <1>6 DEF runPacket, RunPipelines, sendToSender, RunRelease, RunCount,
         RunDone, life, Door
    <2> USE DEF Move, PlaceOf, Inflight
    <2>1. CASE RunPipelines(p)
      BY <1>0, <2>0, <2>1, PlaceMoved DEF RunPipelines
    <2>2. ASSUME NEW s \in Senders, sendToSender(p, s)
          PROVE  Gate!Deliver(p, s)
      <3>1. Place' = Place /\ Place[p] = "inside"
        BY <2>2 DEF sendToSender, Place
      <3>2. s \notin sent[p]
        BY <2>2 DEF sendToSender, SentInv
      <3> QED BY <2>0, <2>2, <3>1, <3>2 DEF sendToSender, Gate!Deliver
    <2>3. CASE RunRelease(p) \/ RunCount(p)
      BY <1>0, <2>0, <2>3, PlaceMoved DEF RunRelease, RunCount, work
    <2>4. CASE RunDone(p)
      <3>1. Place[p] = "inside" /\ Place' = [Place EXCEPT ![p] = "gone"]
        BY <1>0, <2>4, PlaceGone DEF RunDone, Place
      <3>2. Gate!Leave(p)
        BY <2>0, <2>4, <3>1 DEF RunDone, work, Gate!Leave
      <3> QED BY <3>2 DEF Gate!GateNext
    <2> QED BY <1>6, <2>1, <2>2, <2>3, <2>4 DEF runPacket, Gate!GateNext
  <1> QED BY <1>1, <1>2, <1>3, <1>4, <1>5, <1>6 DEF Next

\* A task behaves as a gate towards its owner, whatever its execution model,
\* sizes and number of packets: StopGraceful shuts it only when it is empty, and
\* no sender is given a packet twice or after that.
THEOREM GateCorrect == Spec => ImplementsGate
  <1>1. Init => Gate!GateInit
    BY DEF Init, Gate!GateInit, Door, Place, Inflight
  <1>2. Init => SafetyInv /\ SentInv
    BY SafetyInit, SentInit
  <1>3. SafetyInv /\ SentInv /\ [Next]_vars => (SafetyInv /\ SentInv)'
    BY SafetyStep, SentStep DEF SafetyInv
  <1>4. SafetyInv /\ SentInv /\ [Next]_vars => [Gate!GateNext]_(Gate!gvars)
    BY GateStep
  <1> QED BY <1>1, <1>2, <1>3, <1>4, PTL DEF Spec, ImplementsGate, Gate!GateSpec

=============================================================================
