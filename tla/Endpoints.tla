----------------------------- MODULE Endpoints -----------------------------
(***************************************************************************)
(* A receiver or sender that buildReceiver or buildSender makes of a       *)
(* configuration (src/runtime/builders.go): one of the kinds whose modules *)
(* are KafkaAsync, SkyddsLink, TcpLink, UdpSockets, FilePolling and        *)
(* StreamReceivers. The senders of files, OssTransfer and SftpTransfer,    *)
(* are checked on their own. The variables of a kind begin with its        *)
(* letter, those of the Kafka sender are KafkaAsync's; the kinds that were *)
(* not chosen stay as they begin.                                          *)
(***************************************************************************)
EXTENDS KafkaAsync

CONSTANTS
  Types,       \* values of "type", with the role where both have it
  Messages, Size, Payload, Base,
  Models, BatchNum, BatchSize, Timers, SoftLimit, DrainItems, DrainBytes, MaxFaults, Closer,
  Frames, TcpConcurrency, NumConns, Framings, MaxBreaks,
  UdpConcurrency, NumSockets,
  FileKinds, NumFiles, MaxSize, MaxWrites, FileFaults, SeenLimit,
  StreamKinds, Totals, Unit, PerTick, MaxTicks, MaxPolls, MaxErrors

ASSUME UdpAssumption ==
  UdpConcurrency \in Nat \ {0} /\ NumSockets \in Nat /\ None \notin 1..NumSockets
ASSUME SkyAssumption ==
  /\ Size \in [Messages -> Nat] /\ DrainItems \in Nat /\ DrainBytes \in Nat
  /\ Messages \cap Timers = {} /\ Closer \notin Messages \cup Timers
  /\ None \notin Timers /\ None \notin {"ok", "error"}
ASSUME TcpAssumption ==
  /\ IsFiniteSet(Frames) /\ Base \in Nat \ {0} /\ Payload \in [Frames -> Seq(0..(Base - 1))]
  /\ Framings \subseteq BOOLEAN
  /\ TcpConcurrency \in Nat /\ NumConns \in Nat /\ TcpConcurrency <= NumConns
ASSUME StreamAssumption ==
  /\ StreamKinds \subseteq {"kafka", "interval", "rate", "gnet"} /\ Totals \subseteq Nat
  /\ Unit \in Nat \ {0} /\ PerTick \in Nat /\ MaxPolls \in Nat
ASSUME FileAssumption ==
  /\ FileKinds \subseteq {"sftp", "oss"} /\ NumFiles \in Nat /\ MaxSize \in Nat
  /\ MaxWrites \in Nat /\ SeenLimit \in Nat

VARIABLES
  type,
  sModel, sSend, sResult, sBatch, sBatchBytes, sClosed, sFlushTimer, sTimer, sHold, sClosing,
  sWriter, sTopic, sQueue, sPumpError, sReader, sLoop, sDrained, sFaults, sLost, sWrote, sGot,
  sDropped,
  tFramed, tSend, tResult, tPicked, tConns, tRr, tCli, tConn, tTasks, tAsked, tPool, tBuffer,
  tClosing, tWire, tRest, tBroken, tSent, tGot,
  uBuild, uAt, uConns, uFresh, uOpen, uNextIdx, uSend, uResult, uShard, uConn, uClosing,
  uOverlap,
  fKind, fDir, fPoller, fCancelled, fEntries, fOffset, fSeen, fSeenOrder, fStopper, fOut,
  fWhole, fRepeated, fWrites, fFaults,
  rKind, rTotal, rStart, rCancelled, rLeft, rCredit, rTicks, rSent, rPolls, rErrors, rStats,
  rCloses, rStop, rFound

Sky == INSTANCE SkyddsLink WITH
  model <- sModel, send <- sSend, result <- sResult, batch <- sBatch,
  batchBytes <- sBatchBytes, closed <- sClosed, flushTimer <- sFlushTimer, timer <- sTimer,
  hold <- sHold, closing <- sClosing, writer <- sWriter, topic <- sTopic, queue <- sQueue,
  pumpError <- sPumpError, reader <- sReader, loop <- sLoop, drained <- sDrained,
  faults <- sFaults, lost <- sLost, wrote <- sWrote, got <- sGot, dropped <- sDropped

Tcp == INSTANCE TcpLink WITH
  Packets <- Frames, Concurrency <- TcpConcurrency,
  framed <- tFramed, send <- tSend, result <- tResult, picked <- tPicked, conns <- tConns,
  rr <- tRr, cli <- tCli, conn <- tConn, tasks <- tTasks, asked <- tAsked, pool <- tPool,
  buffer <- tBuffer, closing <- tClosing, wire <- tWire, rest <- tRest, broken <- tBroken,
  sent <- tSent, got <- tGot

Udp == INSTANCE UdpSockets WITH
  Packets <- Messages, Concurrency <- UdpConcurrency,
  build <- uBuild, at <- uAt, conns <- uConns, fresh <- uFresh, open <- uOpen,
  nextIdx <- uNextIdx, send <- uSend, result <- uResult, shard <- uShard, conn <- uConn,
  closing <- uClosing, overlap <- uOverlap

Poll == INSTANCE FilePolling WITH
  Kinds <- FileKinds, MaxFaults <- FileFaults,
  kind <- fKind, dir <- fDir, poller <- fPoller, cancelled <- fCancelled,
  entries <- fEntries, offset <- fOffset, seen <- fSeen, seenOrder <- fSeenOrder,
  stopper <- fStopper, out <- fOut, whole <- fWhole, repeated <- fRepeated,
  writes <- fWrites, faults <- fFaults

Stream == INSTANCE StreamReceivers WITH
  Kinds <- StreamKinds,
  kind <- rKind, total <- rTotal, start <- rStart, cancelled <- rCancelled, left <- rLeft,
  credit <- rCredit, ticks <- rTicks, sent <- rSent, polls <- rPolls, errors <- rErrors,
  stats <- rStats, closes <- rCloses, stop <- rStop, found <- rFound

skyVars == <<sModel, sSend, sResult, sBatch, sBatchBytes, sClosed, sFlushTimer, sTimer, sHold,
             sClosing, sWriter, sTopic, sQueue, sPumpError, sReader, sLoop, sDrained, sFaults,
             sLost, sWrote, sGot, sDropped>>
tcpVars == <<tFramed, tSend, tResult, tPicked, tConns, tRr, tCli, tConn, tTasks, tAsked, tPool,
             tBuffer, tClosing, tWire, tRest, tBroken, tSent, tGot>>
udpVars == <<uBuild, uAt, uConns, uFresh, uOpen, uNextIdx, uSend, uResult, uShard, uConn,
             uClosing, uOverlap>>
pollVars == <<fKind, fDir, fPoller, fCancelled, fEntries, fOffset, fSeen, fSeenOrder, fStopper,
              fOut, fWhole, fRepeated, fWrites, fFaults>>
streamVars == <<rKind, rTotal, rStart, rCancelled, rLeft, rCredit, rTicks, rSent, rPolls,
                rErrors, rStats, rCloses, rStop, rFound>>
allVars == <<type, vars, skyVars, tcpVars, udpVars, pollVars, streamVars>>
-----------------------------------------------------------------------------
Some(S) == CHOOSE x \in S : TRUE

\* The options of a kind matter, and vary, where it is chosen.
Build ==
  /\ type \in Types
  /\ Init /\ Sky!Init /\ Tcp!Init /\ Udp!Init /\ Poll!Init /\ Stream!Init
  /\ type # "kafka sender" => mode = Some(Modes) /\ backpressure = Some(Backpressures)
  /\ type # "dds_skydds" => sModel = Some(Models)
  /\ type # "tcp_gnet" => tFramed = Some(Framings)
  /\ type # "file receiver" =>
       fKind = Some(FileKinds) /\ fDir = Some([1..NumFiles -> [ver : {1}, size : {0}]])
  /\ type # "stream receiver" => rKind = Some(StreamKinds) /\ rTotal = Some({0})

EndpointNext ==
  /\ UNCHANGED type
  /\ \/ /\ type = "kafka sender" /\ Next
        /\ UNCHANGED <<skyVars, tcpVars, udpVars, pollVars, streamVars>>
     \/ /\ type = "dds_skydds" /\ Sky!Next
        /\ UNCHANGED <<vars, tcpVars, udpVars, pollVars, streamVars>>
     \/ /\ type = "tcp_gnet" /\ Tcp!Next
        /\ UNCHANGED <<vars, skyVars, udpVars, pollVars, streamVars>>
     \/ /\ type = "udp sender" /\ Udp!Next
        /\ UNCHANGED <<vars, skyVars, tcpVars, pollVars, streamVars>>
     \/ /\ type = "file receiver" /\ Poll!Next
        /\ UNCHANGED <<vars, skyVars, tcpVars, udpVars, streamVars>>
     \/ /\ type = "stream receiver" /\ Stream!Next
        /\ UNCHANGED <<vars, skyVars, tcpVars, udpVars, pollVars>>

\* The fairness of each kind; what it is about is not enabled in the initial
\* state of a kind that was not chosen.
EndpointSpec ==
  /\ Build /\ [][EndpointNext]_allVars
  /\ Fairness /\ Sky!Fairness /\ Tcp!Fairness /\ Poll!Fairness /\ Stream!Fairness
-----------------------------------------------------------------------------
(* Properties.                                                             *)

\* A SkyDDS topic: no message a Send accepted is lost or doubled without a fault
\* that a caller was told of, from the batch to the emitted packet, and a waiting
\* batch has a timer that will flush it.
LinkAccounted == type = "dds_skydds" => Sky!LinkAccounted

\* A TCP connection: the receiver cuts the frames that were sent.
FramesIntact == type = "tcp_gnet" => Tcp!FramesIntact

\* A UDP sender: every open socket can be found and closed.
SocketsAccounted == type = "udp sender" => Udp!SocketsAccounted

\* A receiver of files: what it will skip was delivered as a whole, and what it
\* remembers of an unchanged file keeps it from being read again.
SeenDelivered == type = "file receiver" => Poll!SeenDelivered

\* A receiver of streams: a Stop that finds it running ends it, its handle is closed
\* once, and the generator keeps to its total and its rate.
ReceiverStops == type = "stream receiver" => Stream!ReceiverStops

AllSettled ==
  /\ type = "kafka sender" => Settled
  /\ type = "dds_skydds" => Sky!Settled
  /\ type = "tcp_gnet" => Tcp!Settled
  /\ type = "file receiver" => Poll!Settled
  /\ type = "stream receiver" => Stream!Settled

\* What an endpoint owes is done in the end. Kafka sender: every Send and Close
\* returns and every packet accepted before Close is reported, also when queue and
\* producer are full and both kinds of back-pressure meet the closing. SkyDDS: an
\* accepted message is written or its failure reported, and what is written is
\* emitted. TCP: an accepted packet is delivered without waiting for the next one.
\* Receivers: a file is delivered as a whole in its last version, whatever failed and
\* however it was written in between; and one that is stopped comes to its end.
EndpointsSettle == ~AllSettled ~> AllSettled

=============================================================================
