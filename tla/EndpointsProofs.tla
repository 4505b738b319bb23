-------------------------- MODULE EndpointsProofs --------------------------
(***************************************************************************)
(* Proofs about Endpoints, for any numbers of packets, shards, sockets,    *)
(* files and calls: what a stopped receiver leaves, which sockets are open,*)
(* where each record of a Kafka sender is, what a file receiver remembers, *)
(* what the receiver of a TCP link cuts from the bytes it is handed, and   *)
(* where each message of a SkyDDS topic is. Each kind of endpoint has an   *)
(* invariant of its own, which the steps of the others leave alone.        *)
(***************************************************************************)
EXTENDS Endpoints, FiniteSetTheorems, SequenceTheorems, WellFoundedInduction, TLAPS

-----------------------------------------------------------------------------
(* A step of an endpoint is a step of its kind; the other kinds stutter.   *)

\* A step of a stream receiver, or none.
LEMMA StreamMoves == EndpointNext => [Stream!Next]_streamVars
  BY DEF EndpointNext, streamVars

\* So for the Kafka sender,
LEMMA KafkaMoves == EndpointNext => [Next]_vars
  BY DEF EndpointNext, vars

\* for file receivers,
LEMMA PollMoves == EndpointNext => [Poll!Next]_pollVars
  BY DEF EndpointNext, pollVars

\* TCP links,
LEMMA TcpMoves == EndpointNext => [Tcp!Next]_tcpVars
  BY DEF EndpointNext, tcpVars

\* SkyDDS topics
LEMMA SkyMoves == EndpointNext => [Sky!Next]_skyVars
  BY DEF EndpointNext, skyVars

\* and for UDP senders.
LEMMA UdpMoves == EndpointNext => [Udp!Next]_udpVars
  BY DEF EndpointNext, udpVars

-----------------------------------------------------------------------------
(* Receivers that produce a stream: Start, Stop and the traffic handle.    *)

StreamType ==
  /\ rKind \in {"kafka", "interval", "rate", "gnet"} /\ rTotal \in Nat
  /\ rStart \in {"new", "boot", "delay", "loop", "emit", "exit", "ended"}
  /\ rCredit \in Int /\ rTicks \in Nat /\ rSent \in Nat
  /\ rStats \in {"none", "open"} /\ rCloses \in Nat
  /\ rStop \in {"idle", "wait", "returned", "timedOut"}

\* Where Start and Stop may be together. A Stop that found something to stop found it
\* installed (rFound), and returns only when Start's loop is down.
StreamPhases ==
  /\ rKind = "gnet" => rStart \notin {"delay", "emit"}
  /\ rKind # "gnet" => rStart # "boot"
  /\ rTotal > 0 => rKind \in {"interval", "rate"}
  /\ rStop = "idle" => ~rFound
  /\ rFound => rStart # "new" /\ (rKind = "gnet" => rStart # "boot")
  /\ rStop = "returned" /\ rFound => Stream!Down

\* The traffic handle is open from the beginning of Start until one of the two closes it.
StreamStats ==
  /\ rStart = "new" => rStats = "none" /\ rCloses = 0
  /\ rStart # "new" =>
       \/ rStats = "open" /\ rCloses = 0
       \/ rStats = "none" /\ rCloses = 1
  /\ rStart = "ended" => rCloses = 1

\* The generator never exceeds its total, and its credit is what its ticks have earned
\* and it has not yet sent; it waits for a tick only when that is less than a packet.
StreamRate ==
  /\ rTotal > 0 => /\ rSent <= rTotal
                   /\ rSent = rTotal => rStart \in {"exit", "ended"}
  /\ rStart \in {"new", "delay"} => rCredit = 0
  /\ rKind = "rate" => /\ rSent * Unit + rCredit = rTicks * PerTick
                       /\ rStart = "loop" => rCredit < Unit
                       /\ rStart = "emit" => rCredit >= Unit

StreamInv == StreamType /\ StreamPhases /\ StreamStats /\ StreamRate

\* The invariant holds initially.
LEMMA StreamInit == Stream!Init => StreamInv
<1> SUFFICES ASSUME Stream!Init PROVE StreamInv
  OBVIOUS
<1> USE DEF Stream!Init
<1>1. StreamType
  BY StreamAssumption DEF StreamType
<1>2. StreamPhases /\ StreamStats
  BY DEF StreamPhases, StreamStats
<1>3. 0 * Unit + 0 = 0 * PerTick
  BY StreamAssumption
<1>4. StreamRate
  BY <1>1, <1>3, StreamAssumption DEF StreamRate, StreamType
<1> QED BY <1>1, <1>2, <1>4 DEF StreamInv

\* One step per action: StreamInv is inductive.
LEMMA StreamStep == StreamInv /\ [Stream!Next]_streamVars => StreamInv'
<1> SUFFICES ASSUME StreamInv, [Stream!Next]_streamVars PROVE StreamInv'
  OBVIOUS
<1> USE DEF Stream!CloseStats, Stream!Running, Stream!Down, Stream!Timer, Stream!reachedTotal
<1>1. StreamType'
  <2> USE StreamAssumption DEF StreamInv, StreamType
  <2>1. CASE UNCHANGED streamVars
    BY <2>1 DEF streamVars
  <2>2. CASE Stream!Start \/ Stream!OnBoot \/ Stream!Delayed \/ Stream!SeesCancel
    BY <2>2 DEF Stream!Start, Stream!OnBoot, Stream!Delayed, Stream!SeesCancel,
                Stream!generator, Stream!source, Stream!statistics, Stream!stopping
  <2>3. CASE Stream!Poll \/ Stream!EmitRecord \/ Stream!OnTraffic \/ Stream!IntervalTick
    BY <2>3 DEF Stream!Poll, Stream!EmitRecord, Stream!OnTraffic, Stream!IntervalTick,
                Stream!generator, Stream!source, Stream!statistics, Stream!stopping
  <2>4. CASE Stream!RateTick \/ Stream!RateEmit \/ Stream!Exit
    BY <2>4 DEF Stream!RateTick, Stream!RateEmit, Stream!Exit,
                Stream!generator, Stream!source, Stream!statistics, Stream!stopping
  <2>5. CASE Stream!Stop \/ Stream!StopReturns \/ Stream!StopTimesOut
    BY <2>5 DEF Stream!Stop, Stream!StopReturns, Stream!StopTimesOut,
                Stream!generator, Stream!source, Stream!statistics, Stream!stopping
  <2> QED BY <2>1, <2>2, <2>3, <2>4, <2>5 DEF Stream!Next, Stream!StartStep
<1>2. StreamPhases' /\ StreamStats'
  <2> USE DEF StreamInv, StreamType, StreamPhases, StreamStats
  <2>1. CASE UNCHANGED streamVars
    BY <2>1 DEF streamVars
  <2>2. CASE Stream!Start \/ Stream!OnBoot \/ Stream!Delayed \/ Stream!SeesCancel
    BY <2>2 DEF Stream!Start, Stream!OnBoot, Stream!Delayed, Stream!SeesCancel,
                Stream!generator, Stream!source, Stream!statistics, Stream!stopping
  <2>3. CASE Stream!Poll \/ Stream!EmitRecord \/ Stream!OnTraffic \/ Stream!IntervalTick
    BY <2>3 DEF Stream!Poll, Stream!EmitRecord, Stream!OnTraffic, Stream!IntervalTick,
                Stream!generator, Stream!source, Stream!statistics, Stream!stopping
  <2>4. CASE Stream!RateTick \/ Stream!RateEmit \/ Stream!Exit
    BY <2>4 DEF Stream!RateTick, Stream!RateEmit, Stream!Exit,
                Stream!generator, Stream!source, Stream!statistics, Stream!stopping
  <2>5. CASE Stream!Stop \/ Stream!StopReturns \/ Stream!StopTimesOut
    BY <2>5 DEF Stream!Stop, Stream!StopReturns, Stream!StopTimesOut,
                Stream!generator, Stream!source, Stream!statistics, Stream!stopping
  <2> QED BY <2>1, <2>2, <2>3, <2>4, <2>5 DEF Stream!Next, Stream!StartStep
<1>3. StreamRate'
  <2> USE StreamAssumption DEF StreamInv, StreamType, StreamPhases, StreamRate
  <2>1. CASE UNCHANGED streamVars
    BY <2>1 DEF streamVars
  <2>2. CASE Stream!Start \/ Stream!OnBoot \/ Stream!Delayed \/ Stream!SeesCancel
    BY <2>2 DEF Stream!Start, Stream!OnBoot, Stream!Delayed, Stream!SeesCancel,
                Stream!generator, Stream!source, Stream!statistics, Stream!stopping
  <2>3. CASE Stream!Poll \/ Stream!EmitRecord \/ Stream!OnTraffic \/ Stream!IntervalTick
    BY <2>3 DEF Stream!Poll, Stream!EmitRecord, Stream!OnTraffic, Stream!IntervalTick,
                Stream!generator, Stream!source, Stream!statistics, Stream!stopping
  <2>4. CASE Stream!RateTick
    <3>1. (rTicks + 1) * PerTick = rTicks * PerTick + PerTick
      OBVIOUS
    <3> QED BY <2>4, <3>1 DEF Stream!RateTick, Stream!source, Stream!statistics, Stream!stopping
  <2>5. CASE Stream!RateEmit
    <3>1. (rSent + 1) * Unit = rSent * Unit + Unit
      OBVIOUS
    <3> QED BY <2>5, <3>1 DEF Stream!RateEmit, Stream!source, Stream!statistics, Stream!stopping
  <2>6. CASE Stream!Exit \/ Stream!Stop \/ Stream!StopReturns \/ Stream!StopTimesOut
    BY <2>6 DEF Stream!Exit, Stream!Stop, Stream!StopReturns, Stream!StopTimesOut,
                Stream!generator, Stream!source, Stream!statistics, Stream!stopping
  <2> QED BY <2>1, <2>2, <2>3, <2>4, <2>5, <2>6 DEF Stream!Next, Stream!StartStep
<1> QED BY <1>1, <1>2, <1>3 DEF StreamInv

\* The invariant holds of every endpoint, since the steps of other kinds keep it.
LEMMA StreamCorrect == EndpointSpec => []StreamInv
<1>1. Build => StreamInv
  BY StreamInit DEF Build
<1>2. StreamInv /\ [EndpointNext]_allVars => StreamInv'
  <2> SUFFICES ASSUME StreamInv, [EndpointNext]_allVars PROVE StreamInv'
    OBVIOUS
  <2>1. [Stream!Next]_streamVars
    BY StreamMoves DEF allVars, streamVars
  <2> QED BY <2>1, StreamStep
<1> QED BY <1>1, <1>2, PTL DEF EndpointSpec

\* A Stop that found its receiver running returns only after Start's loop has ended, the
\* traffic handle is closed exactly once, by Start or by Stop's Swap, and the generator
\* sends what its ticks earned and never more than its total (kafka.go, local_timer.go,
\* gnet_udp.go, gnet_tcp.go).
THEOREM ReceiversStop == EndpointSpec => []ReceiverStops
<1>1. StreamInv => ReceiverStops
  <2> SUFFICES ASSUME StreamInv PROVE Stream!ReceiverStops
    BY DEF ReceiverStops
  <2>1. /\ rStop = "returned" /\ rFound =>
             rStart = "ended" \/ (rKind = "gnet" /\ rStart = "exit")
        /\ rCloses <= 1 /\ (rCloses = 1 => rStats = "none")
        /\ rStart = "ended" => rCloses = 1
    BY DEF StreamInv, StreamType, StreamPhases, StreamStats, Stream!Down
  <2>2. rTotal > 0 /\ rSent >= rTotal => rSent = rTotal /\ rStart \in {"exit", "ended"}
    BY DEF StreamInv, StreamType, StreamRate
  <2>3. rKind = "rate" => /\ rSent * Unit + rCredit = rTicks * PerTick
                          /\ rStart = "loop" => rCredit < Unit
    BY DEF StreamInv, StreamRate
  <2> QED BY <2>1, <2>2, <2>3 DEF Stream!ReceiverStops
<1> QED BY <1>1, StreamCorrect, PTL
-----------------------------------------------------------------------------
(* UDP senders: a socket per shard.                                        *)

UdpType ==
  /\ uBuild \in {"begun", "built", "failed"} /\ uAt \in Udp!Shards
  /\ uConns \in [Udp!Shards -> Udp!Sockets \cup {None}]
  /\ uFresh \in Nat \ {0} /\ uNextIdx \in Udp!Shards
  /\ uClosing \in {"idle", "begun", "returned"}
  /\ uSend \in [Messages -> {"new", "load", "get", "write", "returned"}]
  /\ uShard \in [Messages -> Udp!Shards \cup {None}]
  /\ \A p \in Messages : uSend[p] \in {"load", "get", "write"} => uShard[p] \in Udp!Shards

\* The open sockets are those of the shards, one each.
UdpOwned ==
  /\ \A s : s \in uOpen <=> s # None /\ \E i \in Udp!Shards : uConns[i] = s
  /\ \A i \in Udp!Shards : uConns[i] # None => uConns[i] < uFresh
  /\ \A i, j \in Udp!Shards : uConns[i] = uConns[j] /\ i # j => uConns[i] = None

\* No Send is on its way.
UdpQuiet == \A p \in Messages : uSend[p] \in {"new", "returned"}

\* The constructor and Close go through the shards in order (uAt). Without a Send beside
\* it, Close leaves nothing behind it open; with one (uOverlap) nothing is promised.
UdpPhases ==
  /\ uBuild # "built" => UdpQuiet /\ (\A p \in Messages : uSend[p] = "new") /\ uClosing = "idle"
  /\ uBuild = "begun" => \A i \in Udp!Shards : i >= uAt => uConns[i] = None
  /\ uBuild = "failed" => \A i \in Udp!Shards : uConns[i] = None
  /\ uBuild = "built" /\ uClosing = "idle" => uAt = 0
  /\ uClosing # "idle" /\ ~uOverlap =>
       /\ UdpQuiet
       /\ \A i \in Udp!Shards : uClosing = "returned" \/ i < uAt => uConns[i] = None

UdpInv == UdpType /\ UdpOwned /\ UdpPhases

\* The invariant holds initially.
LEMMA UdpInit == Udp!Init => UdpInv
<1> SUFFICES ASSUME Udp!Init PROVE UdpInv
  OBVIOUS
<1> USE UdpAssumption DEF Udp!Init, Udp!Shards, Udp!Sockets
<1>1. UdpType
  BY DEF UdpType
<1>2. UdpOwned
  BY DEF UdpOwned
<1>3. UdpPhases
  BY DEF UdpPhases, UdpQuiet
<1> QED BY <1>1, <1>2, <1>3 DEF UdpInv

\* A socket is opened for a shard that has none.
LEMMA UdpOpens ==
  ASSUME UdpType, UdpOwned, NEW i \in Udp!Shards, uConns[i] = None, Udp!Opens(i)
  PROVE  /\ uConns' = [uConns EXCEPT ![i] = uFresh] /\ uFresh \in Udp!Sockets /\ uFresh # None
         /\ uConns' \in [Udp!Shards -> Udp!Sockets \cup {None}] /\ uFresh' \in Nat \ {0}
         /\ UdpOwned'
<1> USE DEF Udp!Sockets
<1>1. /\ uConns' = [uConns EXCEPT ![i] = uFresh] /\ uFresh \in Udp!Sockets
      /\ uOpen' = uOpen \cup {uFresh} /\ uFresh' = uFresh + 1
  BY DEF Udp!Opens
<1>2. uFresh # None
  BY <1>1, UdpAssumption
<1>3. /\ uConns' \in [Udp!Shards -> Udp!Sockets \cup {None}] /\ uFresh' \in Nat \ {0}
      /\ uConns'[i] = uFresh /\ \A j \in Udp!Shards : j # i => uConns'[j] = uConns[j]
  BY <1>1 DEF UdpType
<1>4. \A j \in Udp!Shards : uConns[j] # None => uConns[j] < uFresh /\ uConns[j] \in Nat
  BY UdpAssumption DEF UdpOwned, UdpType
<1>5. \A j \in Udp!Shards : uConns[j] # uFresh
  BY <1>4, <1>2, <1>1
<1>6. \A s : s \in uOpen' <=> s # None /\ \E j \in Udp!Shards : uConns'[j] = s
  BY <1>1, <1>2, <1>3 DEF UdpOwned
<1>7. \A j \in Udp!Shards : uConns'[j] # None => uConns'[j] < uFresh'
  BY <1>1, <1>3, <1>4
<1>8. \A j, k \in Udp!Shards : uConns'[j] = uConns'[k] /\ j # k => uConns'[j] = None
  BY <1>3, <1>5 DEF UdpOwned
<1> QED BY <1>1, <1>2, <1>3, <1>6, <1>7, <1>8 DEF UdpOwned

\* One step per action: UdpInv is inductive.
LEMMA UdpStep == UdpInv /\ [Udp!Next]_udpVars => UdpInv'
<1> SUFFICES ASSUME UdpInv, [Udp!Next]_udpVars PROVE UdpInv'
  OBVIOUS
<1>0. UdpType /\ UdpOwned /\ UdpPhases
  BY DEF UdpInv
<1>a. \A i \in Udp!Shards : i \in Int /\ 0 <= i /\ i <= UdpConcurrency - 1
  BY UdpAssumption DEF Udp!Shards
<1>1. CASE UNCHANGED udpVars
  BY <1>0, <1>1 DEF udpVars, UdpInv, UdpType, UdpOwned, UdpPhases, UdpQuiet
<1>2. CASE Udp!Build
  <2>1. /\ uBuild = "begun" /\ UNCHANGED <<uNextIdx, uSend, uResult, uShard, uConn, uClosing, uOverlap>>
    BY <1>2 DEF Udp!Build, Udp!sending
  <2>2. CASE /\ Udp!Opens(uAt)
             /\ \/ uAt < UdpConcurrency - 1 /\ uAt' = uAt + 1 /\ UNCHANGED uBuild
                \/ uAt = UdpConcurrency - 1 /\ uAt' = 0 /\ uBuild' = "built"
    <3>1. uAt \in Udp!Shards /\ uConns[uAt] = None
      BY <1>0, <1>a, <2>1 DEF UdpType, UdpPhases
    <3>2. /\ uConns' = [uConns EXCEPT ![uAt] = uFresh] /\ UdpOwned'
          /\ uConns' \in [Udp!Shards -> Udp!Sockets \cup {None}] /\ uFresh' \in Nat \ {0}
      BY <1>0, <2>2, <3>1, UdpOpens
    <3>3. /\ uAt' \in Udp!Shards /\ uBuild' \in {"begun", "built"}
          /\ uBuild' = "begun" => uAt' = uAt + 1
          /\ uBuild' = "built" => uAt' = 0
      BY <2>1, <2>2, <3>1, UdpAssumption DEF Udp!Shards
    <3>4. UdpType'
      BY <1>0, <2>1, <3>2, <3>3 DEF UdpType
    <3>5. uBuild' = "begun" => \A i \in Udp!Shards : i >= uAt' => uConns'[i] = None
      BY <1>0, <1>a, <2>1, <3>1, <3>2, <3>3 DEF UdpType, UdpPhases
    <3>6. UdpPhases'
      BY <1>0, <2>1, <3>3, <3>5 DEF UdpPhases, UdpQuiet
    <3> QED BY <3>2, <3>4, <3>6 DEF UdpInv
  <2>3. CASE Udp!BuildFails /\ UNCHANGED uAt
    <3>1. /\ uBuild' = "failed" /\ uConns' = [i \in Udp!Shards |-> None]
          /\ uOpen' = uOpen \ Udp!Range(uConns) /\ uFresh' = uFresh /\ uAt' = uAt
      BY <2>3 DEF Udp!BuildFails
    <3>2. uOpen' = {}
      BY <1>0, <3>1 DEF Udp!Range, UdpOwned, UdpType
    <3>3. UdpType'
      BY <1>0, <2>1, <3>1 DEF UdpType
    <3>4. UdpOwned'
      BY <3>1, <3>2 DEF UdpOwned
    <3>5. UdpPhases'
      BY <1>0, <2>1, <3>1 DEF UdpPhases, UdpQuiet
    <3> QED BY <3>3, <3>4, <3>5 DEF UdpInv
  <2> QED BY <1>2, <2>2, <2>3 DEF Udp!Build
<1>3. ASSUME NEW p \in Messages, Udp!SendBegin(p) PROVE UdpInv'
  <2>1. /\ uBuild = "built" /\ uSend[p] = "new" /\ uNextIdx' = Udp!nextShardIndex
        /\ uShard' = [uShard EXCEPT ![p] = Udp!nextShardIndex]
        /\ uSend' = [uSend EXCEPT ![p] = "load"]
        /\ uOverlap' = (uClosing # "idle")
        /\ UNCHANGED <<uBuild, uAt, uConns, uFresh, uOpen, uClosing>>
    BY <1>3 DEF Udp!SendBegin, Udp!Late, Udp!sockets
  <2>2. Udp!nextShardIndex \in Udp!Shards
    BY <1>0, UdpAssumption DEF Udp!nextShardIndex, Udp!Shards, UdpType
  <2>3. UdpType'
    BY <1>0, <2>1, <2>2 DEF UdpType
  <2>4. UdpOwned'
    BY <1>0, <2>1 DEF UdpOwned
  <2>5. UdpPhases'
    BY <1>0, <2>1 DEF UdpPhases
  <2> QED BY <2>3, <2>4, <2>5 DEF UdpInv
<1>4. ASSUME NEW p \in Messages, Udp!SendLoad(p) PROVE UdpInv'
  <2>1. /\ uSend[p] = "load"
        /\ uSend' = [uSend EXCEPT ![p] = IF uConns[uShard[p]] = None THEN "get" ELSE "write"]
        /\ uOverlap' = (uClosing # "idle")
        /\ UNCHANGED <<uBuild, uAt, uConns, uFresh, uOpen, uNextIdx, uShard, uClosing>>
    BY <1>4 DEF Udp!SendLoad, Udp!Late, Udp!sockets
  <2>3. UdpType'
    BY <1>0, <2>1 DEF UdpType
  <2>4. UdpOwned'
    BY <1>0, <2>1 DEF UdpOwned
  <2>5. UdpPhases'
    BY <1>0, <2>1 DEF UdpPhases
  <2> QED BY <2>3, <2>4, <2>5 DEF UdpInv
<1>5. ASSUME NEW p \in Messages, Udp!getConn(p) PROVE UdpInv'
  <2>1. /\ uSend[p] = "get" /\ uOverlap' = (uClosing # "idle")
        /\ \E s \in {"write", "returned"} : uSend' = [uSend EXCEPT ![p] = s]
        /\ UNCHANGED <<uBuild, uAt, uNextIdx, uShard, uClosing>>
    BY <1>5 DEF Udp!getConn, Udp!Late, Udp!Return
  <2>2. \/ uConns[uShard[p]] = None /\ Udp!Opens(uShard[p])
        \/ UNCHANGED <<uConns, uFresh, uOpen>>
    BY <1>5 DEF Udp!getConn, Udp!Missing, Udp!OpenFails, Udp!sockets
  <2>3. uShard[p] \in Udp!Shards /\ uBuild = "built"
    BY <1>0, <2>1 DEF UdpType, UdpPhases
  <2>4. /\ uConns' \in [Udp!Shards -> Udp!Sockets \cup {None}] /\ uFresh' \in Nat \ {0}
        /\ UdpOwned'
    <3>1. CASE uConns[uShard[p]] = None /\ Udp!Opens(uShard[p])
      BY <1>0, <2>3, <3>1, UdpOpens
    <3>2. CASE UNCHANGED <<uConns, uFresh, uOpen>>
      BY <1>0, <3>2 DEF UdpType, UdpOwned
    <3> QED BY <2>2, <3>1, <3>2
  <2>5. UdpType'
    BY <1>0, <2>1, <2>4 DEF UdpType
  <2>6. UdpPhases'
    BY <1>0, <2>1, <2>3 DEF UdpPhases
  <2> QED BY <2>4, <2>5, <2>6 DEF UdpInv
<1>6. ASSUME NEW p \in Messages, Udp!SendWrite(p) PROVE UdpInv'
  <2>1. /\ uSend[p] = "write"
        /\ uSend' = [uSend EXCEPT ![p] = "returned"]
        /\ uOverlap' = (uClosing # "idle")
        /\ UNCHANGED <<uBuild, uAt, uConns, uFresh, uOpen, uNextIdx, uShard, uClosing>>
    BY <1>6 DEF Udp!SendWrite, Udp!Late, Udp!sockets, Udp!Return
  <2>3. UdpType'
    BY <1>0, <2>1 DEF UdpType
  <2>4. UdpOwned'
    BY <1>0, <2>1 DEF UdpOwned
  <2>5. UdpPhases'
    BY <1>0, <2>1 DEF UdpPhases
  <2> QED BY <2>3, <2>4, <2>5 DEF UdpInv
<1>7. CASE Udp!CloseBegin
  <2>1. /\ uBuild = "built" /\ uClosing = "idle" /\ uClosing' = "begun"
        /\ uOverlap' = (\E p \in Messages : uSend[p] \notin {"new", "returned"})
        /\ UNCHANGED <<uBuild, uAt, uConns, uFresh, uOpen, uNextIdx, uSend, uShard>>
    BY <1>7 DEF Udp!CloseBegin, Udp!sockets, Udp!sending
  <2>2. UdpType'
    BY <1>0, <2>1 DEF UdpType
  <2>3. UdpOwned'
    BY <1>0, <2>1 DEF UdpOwned
  <2>4. uAt' = 0
    BY <1>0, <2>1 DEF UdpPhases
  <2>5. UdpPhases'
    BY <1>a, <2>1, <2>4 DEF UdpPhases, UdpQuiet
  <2> QED BY <2>2, <2>3, <2>5 DEF UdpInv
<1>8. CASE Udp!CloseShard
  <2>1. /\ uClosing = "begun" /\ uOpen' = uOpen \ {uConns[uAt]}
        /\ uConns' = [uConns EXCEPT ![uAt] = None]
        /\ \/ uAt < UdpConcurrency - 1 /\ uAt' = uAt + 1 /\ uClosing' = uClosing
           \/ uAt = UdpConcurrency - 1 /\ uAt' = 0 /\ uClosing' = "returned"
        /\ UNCHANGED <<uFresh, uBuild, uNextIdx, uSend, uShard, uOverlap>>
    BY <1>8 DEF Udp!CloseShard, Udp!Closed, Udp!sending
  <2>2. uAt \in Udp!Shards /\ uBuild = "built"
    BY <1>0, <2>1 DEF UdpType, UdpPhases
  <2>3. uAt' \in Udp!Shards /\ uClosing' \in {"begun", "returned"}
    BY <2>1, <2>2, UdpAssumption DEF Udp!Shards
  <2>4. /\ uConns' \in [Udp!Shards -> Udp!Sockets \cup {None}] /\ uConns'[uAt] = None
        /\ \A j \in Udp!Shards : j # uAt => uConns'[j] = uConns[j]
    BY <1>0, <2>1, <2>2 DEF UdpType
  <2>5. UdpType'
    BY <1>0, <2>1, <2>3, <2>4 DEF UdpType
  <2>6. UdpOwned'
    BY <1>0, <2>1, <2>2, <2>4 DEF UdpOwned
  <2>7. uClosing' # "idle" /\ ~uOverlap' =>
       /\ UdpQuiet'
       /\ \A i \in Udp!Shards : uClosing' = "returned" \/ i < uAt' => uConns'[i] = None
    BY <1>0, <1>a, <2>1, <2>2, <2>4 DEF UdpPhases, UdpQuiet
  <2>8. UdpPhases'
    BY <2>1, <2>2, <2>3, <2>7 DEF UdpPhases
  <2> QED BY <2>5, <2>6, <2>8 DEF UdpInv
<1> QED BY <1>1, <1>2, <1>3, <1>4, <1>5, <1>6, <1>7, <1>8 DEF Udp!Next, Udp!SendStep

\* The invariant holds of every endpoint, since the steps of other kinds keep it.
LEMMA UdpCorrect == EndpointSpec => []UdpInv
<1>1. Build => UdpInv
  BY UdpInit DEF Build
<1>2. UdpInv /\ [EndpointNext]_allVars => UdpInv'
  <2> SUFFICES ASSUME UdpInv, [EndpointNext]_allVars PROVE UdpInv'
    OBVIOUS
  <2>1. [Udp!Next]_udpVars
    BY UdpMoves DEF allVars, udpVars
  <2> QED BY <2>1, UdpStep
<1> QED BY <1>1, <1>2, PTL DEF EndpointSpec

\* Every open socket is in the slot of its shard, where Close finds it: a Send that lost
\* the race to open one opens none, a constructor that failed closed what it had opened,
\* and after a Close without a Send beside it nothing is open (udp_unicast.go,
\* udp_multicast.go).
THEOREM SocketsAreAccounted == EndpointSpec => []SocketsAccounted
<1>1. UdpInv => SocketsAccounted
  <2> SUFFICES ASSUME UdpInv PROVE Udp!SocketsAccounted
    BY DEF SocketsAccounted
  <2>0. UdpType /\ UdpOwned /\ UdpPhases
    BY DEF UdpInv
  <2>1. uOpen = Udp!Range(uConns) \ {None}
    BY <2>0 DEF UdpType, UdpOwned, Udp!Range
  <2>2. \A i, j \in Udp!Shards : uConns[i] = uConns[j] /\ i # j => uConns[i] = None
    BY <2>0 DEF UdpOwned
  <2>3. uBuild = "failed" => uOpen = {}
    BY <2>0 DEF UdpPhases, UdpOwned
  <2>4. uClosing = "returned" /\ ~uOverlap => uOpen = {}
    BY <2>0 DEF UdpPhases, UdpOwned
  <2> QED BY <2>1, <2>2, <2>3, <2>4 DEF Udp!SocketsAccounted
<1> QED BY <1>1, UdpCorrect, PTL
-----------------------------------------------------------------------------
(* The Kafka sender in async mode. First, queues of distinct items.        *)

Items(q) == {q[k] : k \in DOMAIN q}
Distinct(q) == \A k, l \in DOMAIN q : q[k] = q[l] => k = l

\* A queue that gains an item it does not have.
LEMMA AppendItems ==
  ASSUME NEW S, NEW q \in Seq(S), NEW x \in S, Distinct(q), x \notin Items(q)
  PROVE  /\ Append(q, x) \in Seq(S) /\ Distinct(Append(q, x))
         /\ \A y : y \in Items(Append(q, x)) <=> y \in Items(q) \/ y = x
  BY DEF Items, Distinct

\* A queue that loses its first item.
LEMMA TailItems ==
  ASSUME NEW S, NEW q \in Seq(S), q # <<>>, Distinct(q)
  PROVE  /\ Tail(q) \in Seq(S) /\ Distinct(Tail(q)) /\ Head(q) \in S
         /\ Head(q) \notin Items(Tail(q))
         /\ \A y : y \in Items(q) <=> y \in Items(Tail(q)) \/ y = Head(q)
<1>1. /\ Len(q) \in Nat \ {0} /\ DOMAIN q = 1..Len(q) /\ Head(q) = q[1]
      /\ Tail(q) \in Seq(S) /\ Len(Tail(q)) = Len(q) - 1 /\ DOMAIN Tail(q) = 1..(Len(q) - 1)
      /\ \A k \in 1..(Len(q) - 1) : Tail(q)[k] = q[k + 1]
  OBVIOUS
<1>2. Distinct(Tail(q)) /\ Head(q) \notin Items(Tail(q))
  BY <1>1 DEF Items, Distinct
<1>3. ASSUME NEW y \in Items(q) PROVE y \in Items(Tail(q)) \/ y = Head(q)
  <2>1. PICK k \in 1..Len(q) : y = q[k]
    BY <1>1 DEF Items
  <2>2. CASE k = 1
    BY <1>1, <2>1, <2>2
  <2>3. CASE k # 1
    <3>1. k - 1 \in 1..(Len(q) - 1) /\ Tail(q)[k - 1] = q[(k - 1) + 1] /\ (k - 1) + 1 = k
      BY <1>1, <2>1, <2>3
    <3> QED BY <1>1, <2>1, <3>1 DEF Items
  <2> QED BY <2>2, <2>3
<1>4. ASSUME NEW y, y \in Items(Tail(q)) \/ y = Head(q) PROVE y \in Items(q)
  BY <1>1, <1>4 DEF Items
<1> QED BY <1>1, <1>2, <1>3, <1>4

\* A queue of distinct items has as many items as places.
LEMMA CountItems ==
  ASSUME NEW S, NEW q \in Seq(S), Distinct(q)
  PROVE  IsFiniteSet(Items(q)) /\ Cardinality(Items(q)) = Len(q)
<1>1. Len(q) \in Nat /\ DOMAIN q = 1..Len(q)
  OBVIOUS
<1> DEFINE f == [k \in 1..Len(q) |-> q[k]]
<1>2. f \in Bijection(1..Len(q), Items(q))
  <2>1. f \in [1..Len(q) -> Items(q)]
    BY <1>1 DEF Items
  <2>2. \A k, l \in DOMAIN f : f[k] = f[l] => k = l
    BY <1>1 DEF Distinct
  <2>3. \A y \in Items(q) : \E k \in 1..Len(q) : f[k] = y
    BY <1>1 DEF Items
  <2> HIDE DEF f
  <2> QED BY <2>1, <2>2, <2>3 DEF Bijection, Injection, Surjection, IsInjective
<1>3. ExistsBijection(1..Len(q), Items(q))
  BY <1>2 DEF ExistsBijection
<1>4. IsFiniteSet(1..Len(q)) /\ Cardinality(1..Len(q)) = Len(q)
  BY <1>1, FS_Interval
<1> QED BY <1>3, <1>4, FS_Bijection

KafkaType ==
  /\ mode \in {"sync", "async"}
  /\ send \in [Packets -> {"new", "enqueue", "produce", "returned"}]
  /\ result \in [Packets -> {None, "ok", "closed", "full", "cancelled", "failed"}]
  /\ shard \in [Packets -> Shards] /\ nextIdx \in Shards
  /\ queue \in [Shards -> Seq(Packets)] /\ hold \in [Shards -> Packets \cup {None}]
  /\ worker \in [Shards -> {"loop", "draining", "gone"}]
  /\ client \in [Shards -> {"open", "nil"}] /\ buffered \in [Shards -> SUBSET Packets]
  /\ inflight \in Int /\ dropped \in Int /\ sendErrors \in Int /\ sendSuccess \in Int
  /\ closeCh \in BOOLEAN /\ once \in {"free", "running", "done"}
  /\ closer \in [Closers -> {"idle", "closeCh", "workers", "flush", "callbacks", "clients",
                             "returned"}]
  /\ expired \in [Closers -> BOOLEAN]
  /\ early \subseteq Packets /\ reported \subseteq Packets /\ cut \subseteq Packets

\* The record of p is with shard i: queued, in its worker's hand, or in its producer.
At(i, p) == p \in Items(queue[i]) \/ hold[i] = p \/ p \in buffered[i]

\* A record is in at most one place, of its packet's shard, and it is there exactly as
\* long as Send has accepted it and no callback has reported it.
KafkaPlaces ==
  /\ \A p \in Packets : send[p] # "returned" => result[p] = None
  /\ \A p \in Packets : mode = "async" => send[p] # "produce"
  /\ \A i \in Shards, p \in Packets :
       At(i, p) => result[p] = "ok" /\ shard[p] = i /\ p \notin reported
  /\ \A p \in Packets : mode = "async" /\ result[p] = "ok" => p \in reported \/ At(shard[p], p)
  /\ \A p \in reported : result[p] = "ok"
  /\ \A i \in Shards : Distinct(queue[i])
  /\ \A i \in Shards, p \in Packets :
       /\ p \in Items(queue[i]) => hold[i] # p /\ p \notin buffered[i]
       /\ hold[i] = p => p \notin buffered[i]

\* The records the counter of work in flight counts, and those Send refused.
Busy == {p \in Packets : \E i \in Shards : hold[i] = p \/ p \in buffered[i]}
Lost == {p \in Packets : result[p] \in {"full", "cancelled"}}

\* The counters are cardinalities.
KafkaCounts ==
  /\ IsFiniteSet(Busy) /\ inflight = Cardinality(Busy)
  /\ IsFiniteSet(reported) /\ sendSuccess + sendErrors = Cardinality(reported)
  /\ mode = "async" => IsFiniteSet(Lost) /\ dropped = Cardinality(Lost)

\* What Close may rely on at each of its steps, unless it ran out of time: the signal to
\* the workers is given, then the workers are gone and have emptied their queues of what
\* was accepted before the signal (early), then nothing is in flight. Only after that may
\* the clients be closed, which cuts off what they still have (cut).
KafkaClosing ==
  /\ \A i \in Shards : worker[i] \in {"draining", "gone"} => closeCh
  /\ \A i \in Shards : worker[i] = "gone" =>
       hold[i] = None /\ \A p \in early : p \notin Items(queue[i])
  /\ once = "done" => closeCh
  /\ \A c \in Closers : mode = "async" =>
       /\ closer[c] \in {"workers", "flush", "callbacks", "clients", "returned"} => closeCh
       /\ closer[c] \in {"flush", "callbacks", "clients", "returned"} /\ ~expired[c] => WorkersDone
       /\ closer[c] \in {"clients", "returned"} /\ ~expired[c] => Busy = {}
  /\ \A i \in Shards : client[i] = "nil" => \E c \in Closers : closer[c] = "returned"
  /\ \A p \in early : result[p] = "ok"
  /\ cut \subseteq reported
  /\ mode = "async" /\ (\A c \in Closers : ~expired[c]) => \A p \in cut : p \notin early

KafkaInv == KafkaType /\ KafkaPlaces /\ KafkaCounts /\ KafkaClosing

\* The invariant holds initially.
LEMMA KafkaInit == Init => KafkaInv
<1> SUFFICES ASSUME Init PROVE KafkaInv
  OBVIOUS
<1>1. KafkaType
  <2>1. 0 \in Shards /\ \A i \in Shards : <<>> \in Seq(Packets)
    BY SizesAssumption DEF Shards
  <2>2. /\ queue \in [Shards -> Seq(Packets)] /\ shard \in [Packets -> Shards]
        /\ worker \in [Shards -> {"loop", "draining", "gone"}]
        /\ hold \in [Shards -> Packets \cup {None}]
        /\ client \in [Shards -> {"open", "nil"}] /\ buffered \in [Shards -> SUBSET Packets]
    BY <2>1 DEF Init
  <2>3. mode \in {"sync", "async"}
    BY OptionsAssumption DEF Init
  <2>4. /\ send \in [Packets -> {"new", "enqueue", "produce", "returned"}]
        /\ result \in [Packets -> {None, "ok", "closed", "full", "cancelled", "failed"}]
        /\ closer \in [Closers -> {"idle", "closeCh", "workers", "flush", "callbacks", "clients",
                                   "returned"}]
        /\ expired \in [Closers -> BOOLEAN]
    BY DEF Init
  <2>5. /\ nextIdx \in Shards /\ inflight \in Int /\ dropped \in Int /\ sendErrors \in Int
        /\ sendSuccess \in Int /\ closeCh \in BOOLEAN /\ once \in {"free", "running", "done"}
        /\ early \subseteq Packets /\ reported \subseteq Packets /\ cut \subseteq Packets
    BY <2>1 DEF Init
  <2> QED BY <2>2, <2>3, <2>4, <2>5 DEF KafkaType
<1>2. \A i \in Shards : Items(queue[i]) = {} /\ Distinct(queue[i]) /\ hold[i] = None
  BY DEF Init, Items, Distinct
<1>3. KafkaPlaces
  BY <1>2, OptionsAssumption DEF Init, KafkaPlaces, At
<1>4. Busy = {} /\ Lost = {}
  BY OptionsAssumption DEF Init, Busy, Lost
<1>5. KafkaCounts
  BY <1>4, FS_EmptySet DEF Init, KafkaCounts
<1>6. KafkaClosing
  BY DEF Init, KafkaClosing
<1> QED BY <1>1, <1>3, <1>5, <1>6 DEF KafkaInv

\* What a step leaves alone.
\* Steps that leave a part of the invariant alone.
LEMMA PlacesSame ==
  ASSUME KafkaPlaces, UNCHANGED <<mode, send, result, shard, queue, hold, buffered, reported>>
  PROVE  KafkaPlaces'
  BY DEF KafkaPlaces, At

\* The counters, if neither they nor what they count changes.
LEMMA CountsSame ==
  ASSUME KafkaCounts,
         UNCHANGED <<mode, result, hold, buffered, inflight, reported, sendSuccess, sendErrors,
                     dropped>>
  PROVE  KafkaCounts'
<1>1. Busy' = Busy /\ Lost' = Lost
  BY DEF Busy, Lost
<1> QED BY <1>1 DEF KafkaCounts

\* The phases of Close, likewise.
LEMMA ClosingSame ==
  ASSUME KafkaClosing,
         UNCHANGED <<mode, worker, closeCh, hold, queue, early, once, closer, expired, buffered,
                     client, cut, reported>>,
         \A p \in early : result'[p] = result[p]
  PROVE  KafkaClosing'
<1>1. Busy' = Busy /\ WorkersDone' = WorkersDone
  BY DEF Busy, WorkersDone
<1> QED BY <1>1 DEF KafkaClosing

\* Send picks its shard and finds the sender open or closed.
LEMMA SendBeginStep ==
  ASSUME KafkaInv, NEW p \in Packets, SendBegin(p)
  PROVE  KafkaInv'
<1>1. KafkaType /\ KafkaPlaces /\ KafkaCounts /\ KafkaClosing
  BY DEF KafkaInv
<1>2. \E s \in {"enqueue", "produce", "returned"}, r \in {None, "closed"}, i \in Shards, n \in Shards :
        /\ send' = [send EXCEPT ![p] = s] /\ result' = [result EXCEPT ![p] = r]
        /\ shard' = [shard EXCEPT ![p] = i] /\ nextIdx' = n
        /\ s = "returned" <=> r = "closed"
        /\ mode = "async" => s # "produce"
  <2>1. send[p] = "new" /\ result[p] = None /\ result = [result EXCEPT ![p] = None]
    BY <1>1 DEF SendBegin, KafkaPlaces, KafkaType
  <2>2. shard[p] \in Shards /\ shard = [shard EXCEPT ![p] = shard[p]] /\ nextIdx \in Shards
    BY <1>1 DEF KafkaType
  <2>3. Turn \in Shards
    BY <2>2, SizesAssumption DEF Turn, Shards
  <2>4. CASE closed
    BY <2>2, <2>4 DEF SendBegin, Return
  <2>5. CASE ~closed
    BY <2>1, <2>3, <2>5, OptionsAssumption DEF SendBegin
  <2> QED BY <2>4, <2>5
<1>3. PICK s \in {"enqueue", "produce", "returned"}, r \in {None, "closed"}, i \in Shards, n \in Shards :
        /\ send' = [send EXCEPT ![p] = s] /\ result' = [result EXCEPT ![p] = r]
        /\ shard' = [shard EXCEPT ![p] = i] /\ nextIdx' = n
        /\ s = "returned" <=> r = "closed"
        /\ mode = "async" => s # "produce"
  BY <1>2
<1>4. /\ send[p] = "new"
      /\ UNCHANGED <<config, ctxDone, queueing, producer, closing, counters, history>>
  BY DEF SendBegin
<1>5. UNCHANGED <<mode, queue, worker, hold, client, buffered, inflight, closed, closeCh, once,
                  closer, expired, dropped, sendErrors, sendSuccess, early, reported, cut>>
  BY <1>4 DEF config, queueing, producer, closing, counters, history
<1>6. result[p] = None
  BY <1>1, <1>4 DEF KafkaPlaces
<1>7. KafkaType'
  BY <1>1, <1>3, <1>5 DEF KafkaType
<1>8. \A q \in Packets : q # p => send'[q] = send[q] /\ result'[q] = result[q] /\ shard'[q] = shard[q]
  BY <1>1, <1>3 DEF KafkaType
<1>9. send'[p] = s /\ result'[p] = r /\ None # "ok" /\ None # "full" /\ None # "cancelled"
  BY <1>1, <1>3, OptionsAssumption DEF KafkaType
<1>10. \A j \in Shards : ~At(j, p)
  BY <1>1, <1>6, <1>9 DEF KafkaPlaces
<1>11. p \notin reported /\ p \notin early
  BY <1>1, <1>6, <1>9 DEF KafkaPlaces, KafkaClosing
<1>12. \A j \in Shards, q \in Packets : At(j, q)' <=> At(j, q)
  BY <1>5 DEF At
<1>13. KafkaPlaces'
  <2>1. \A q \in Packets : send'[q] # "returned" => result'[q] = None
    BY <1>1, <1>3, <1>8, <1>9 DEF KafkaPlaces
  <2>2. \A q \in Packets : mode' = "async" => send'[q] # "produce"
    BY <1>1, <1>3, <1>5, <1>8, <1>9 DEF KafkaPlaces
  <2>3. \A j \in Shards, q \in Packets :
          At(j, q)' => result'[q] = "ok" /\ shard'[q] = j /\ q \notin reported'
    BY <1>1, <1>5, <1>8, <1>10, <1>12 DEF KafkaPlaces
  <2>4. \A q \in Packets : mode' = "async" /\ result'[q] = "ok" => q \in reported' \/ At(shard[q], q)'
    <3> SUFFICES ASSUME NEW q \in Packets, mode' = "async", result'[q] = "ok"
                 PROVE  q \in reported' \/ At(shard[q], q)'
      OBVIOUS
    <3>1. q # p
      BY <1>9
    <3>2. q \in reported \/ At(shard[q], q)
      BY <1>1, <1>5, <1>8, <3>1 DEF KafkaPlaces
    <3>3. shard'[q] = shard[q] /\ UNCHANGED <<queue, hold, buffered, reported>>
      BY <1>5, <1>8, <3>1
    <3> QED BY <3>2, <3>3 DEF At
  <2>5. \A q \in reported' : result'[q] = "ok"
    BY <1>1, <1>5, <1>8, <1>11 DEF KafkaPlaces, KafkaType
  <2> QED BY <1>1, <1>5, <2>1, <2>2, <2>3, <2>4, <2>5 DEF KafkaPlaces
<1>14. Lost' = Lost
  BY <1>3, <1>6, <1>8, <1>9 DEF Lost
<1>15. KafkaCounts'
  <2>1. Busy' = Busy
    BY <1>5 DEF Busy
  <2> QED BY <1>1, <1>5, <1>14, <2>1 DEF KafkaCounts
<1>16. KafkaClosing'
  <2>1. \A q \in early : result'[q] = result[q]
    BY <1>1, <1>8, <1>11 DEF KafkaType
  <2> QED BY <1>1, <1>5, <2>1, ClosingSame
<1> QED BY <1>7, <1>13, <1>15, <1>16 DEF KafkaInv

\* A Send that returns without a record in a queue.
LEMMA KafkaReturns ==
  ASSUME KafkaInv, NEW p \in Packets, send[p] \in {"enqueue", "produce"},
         NEW r \in {"ok", "closed", "full", "cancelled", "failed"}, Return(p, r),
         mode = "async" => r # "ok",
         IF r \in {"full", "cancelled"} THEN dropped' = dropped + 1 ELSE dropped' = dropped,
         UNCHANGED <<config, shard, nextIdx, queueing, producer, closing, sendErrors, sendSuccess,
                     history>>
  PROVE  KafkaInv'
<1>1. KafkaType /\ KafkaPlaces /\ KafkaCounts /\ KafkaClosing
  BY DEF KafkaInv
<1>2. /\ UNCHANGED <<mode, shard, nextIdx, queue, worker, hold, client, buffered, inflight, closed,
                     closeCh, once, closer, expired, sendErrors, sendSuccess, early, reported, cut>>
      /\ send' = [send EXCEPT ![p] = "returned"] /\ result' = [result EXCEPT ![p] = r]
  BY DEF config, queueing, producer, closing, history, Return
<1>3. result[p] = None
  BY <1>1 DEF KafkaPlaces
<1>4. KafkaType'
  <2>1. dropped' \in Int
    BY <1>1 DEF KafkaType
  <2> QED BY <1>1, <1>2, <2>1 DEF KafkaType
<1>5. \A q \in Packets : q # p => send'[q] = send[q] /\ result'[q] = result[q]
  BY <1>1, <1>2 DEF KafkaType
<1>6. send'[p] = "returned" /\ result'[p] = r /\ None \notin {"ok", "full", "cancelled"}
  BY <1>1, <1>2, OptionsAssumption DEF KafkaType
<1>7. \A j \in Shards : ~At(j, p)
  BY <1>1, <1>3, <1>6 DEF KafkaPlaces
<1>8. p \notin reported /\ p \notin early
  BY <1>1, <1>3, <1>6 DEF KafkaPlaces, KafkaClosing
<1>9. KafkaPlaces'
  <2>1. \A q \in Packets : send'[q] # "returned" => result'[q] = None
    BY <1>1, <1>5, <1>6 DEF KafkaPlaces
  <2>2. \A q \in Packets : mode' = "async" => send'[q] # "produce"
    BY <1>1, <1>2, <1>5, <1>6 DEF KafkaPlaces
  <2>3. \A j \in Shards, q \in Packets : At(j, q)' <=> At(j, q)
    BY <1>2 DEF At
  <2>4. \A j \in Shards, q \in Packets :
          At(j, q)' => result'[q] = "ok" /\ shard'[q] = j /\ q \notin reported'
    BY <1>1, <1>2, <1>5, <1>7, <2>3 DEF KafkaPlaces
  <2>5. \A q \in Packets : mode' = "async" /\ result'[q] = "ok" => q \in reported' \/ At(shard[q], q)'
    <3> SUFFICES ASSUME NEW q \in Packets, mode' = "async", result'[q] = "ok"
                 PROVE  q \in reported' \/ At(shard[q], q)'
      OBVIOUS
    <3>1. q # p
      BY <1>2, <1>6
    <3>2. q \in reported \/ At(shard[q], q)
      BY <1>1, <1>2, <1>5, <3>1 DEF KafkaPlaces
    <3> QED BY <1>2, <3>2 DEF At
  <2>6. \A q \in reported' : result'[q] = "ok"
    BY <1>1, <1>2, <1>5, <1>8 DEF KafkaPlaces, KafkaType
  <2> QED BY <1>1, <1>2, <2>1, <2>2, <2>4, <2>5, <2>6 DEF KafkaPlaces
<1>10. KafkaCounts'
  <2>1. Busy' = Busy
    BY <1>2 DEF Busy
  <2>2. mode = "async" => IsFiniteSet(Lost') /\ dropped' = Cardinality(Lost')
    <3> SUFFICES ASSUME mode = "async" PROVE IsFiniteSet(Lost') /\ dropped' = Cardinality(Lost')
      OBVIOUS
    <3>1. IsFiniteSet(Lost) /\ dropped = Cardinality(Lost) /\ p \notin Lost
      BY <1>1, <1>3, <1>6 DEF KafkaCounts, Lost
    <3>2. CASE r \in {"full", "cancelled"}
      <4>1. Lost' = Lost \cup {p}
        BY <1>5, <1>6, <3>2 DEF Lost
      <4>2. IsFiniteSet(Lost \cup {p}) /\ Cardinality(Lost \cup {p}) = Cardinality(Lost) + 1
        BY <3>1, FS_AddElement
      <4> QED BY <3>1, <3>2, <4>1, <4>2
    <3>3. CASE r \notin {"full", "cancelled"}
      <4>1. Lost' = Lost
        BY <1>3, <1>5, <1>6, <3>3 DEF Lost
      <4> QED BY <3>1, <3>3, <4>1
    <3> QED BY <3>2, <3>3
  <2> QED BY <1>1, <1>2, <2>1, <2>2 DEF KafkaCounts
<1>11. KafkaClosing'
  <2>1. \A q \in early : result'[q] = result[q]
    BY <1>1, <1>5, <1>8 DEF KafkaType
  <2> QED BY <1>1, <1>2, <2>1, ClosingSame
<1> QED BY <1>4, <1>9, <1>10, <1>11 DEF KafkaInv

\* enqueueAsync: the record is queued, or the queue is full, closed or given up.
LEMMA EnqueueStep ==
  ASSUME KafkaInv, NEW p \in Packets, Enqueue(p)
  PROVE  KafkaInv'
<1> DEFINE i == shard[p]
<1>1. KafkaType /\ KafkaPlaces /\ KafkaCounts /\ KafkaClosing
  BY DEF KafkaInv
<1>2. /\ send[p] = "enqueue" /\ queue' = [queue EXCEPT ![i] = Append(@, p)]
      /\ early' = IF closeCh THEN early ELSE early \cup {p}
      /\ send' = [send EXCEPT ![p] = "returned"] /\ result' = [result EXCEPT ![p] = "ok"]
      /\ UNCHANGED <<mode, shard, nextIdx, worker, hold, client, buffered, inflight, closed,
                     closeCh, once, closer, expired, dropped, sendErrors, sendSuccess, reported, cut>>
  BY DEF Enqueue, Return, config, producer, closing, counters
<1>3. result[p] = None /\ i \in Shards
  BY <1>1, <1>2 DEF KafkaPlaces, KafkaType
<1>4. \A q \in Packets : q # p => send'[q] = send[q] /\ result'[q] = result[q]
  BY <1>1, <1>2 DEF KafkaType
<1>5. send'[p] = "returned" /\ result'[p] = "ok" /\ None \notin {"ok", "full", "cancelled"}
  BY <1>1, <1>2, OptionsAssumption DEF KafkaType
<1>6. \A j \in Shards : ~At(j, p)
  BY <1>1, <1>3, <1>5 DEF KafkaPlaces
<1>7. p \notin reported /\ p \notin early /\ p \notin cut
  BY <1>1, <1>3, <1>5 DEF KafkaPlaces, KafkaClosing
<1>8. /\ queue'[i] = Append(queue[i], p) /\ queue[i] \in Seq(Packets) /\ Distinct(queue[i])
      /\ \A j \in Shards : j # i => queue'[j] = queue[j]
  BY <1>1, <1>2, <1>3 DEF KafkaType, KafkaPlaces
<1>9. p \notin Items(queue[i])
  BY <1>3, <1>6 DEF At
<1>10. /\ queue'[i] \in Seq(Packets) /\ Distinct(queue'[i])
       /\ \A q : q \in Items(queue'[i]) <=> q \in Items(queue[i]) \/ q = p
  BY <1>8, <1>9, AppendItems
<1>11. KafkaType'
  <2>1. queue' \in [Shards -> Seq(Packets)]
    BY <1>1, <1>2, <1>3, <1>8, <1>10 DEF KafkaType
  <2> QED BY <1>1, <1>2, <2>1 DEF KafkaType
<1>12. \A j \in Shards, q \in Packets : At(j, q)' <=> At(j, q) \/ (j = i /\ q = p)
  BY <1>2, <1>8, <1>10 DEF At
<1> HIDE DEF i
<1>13. shard[p] = i
  BY DEF i
<1>14. KafkaPlaces'
  <2>1. \A q \in Packets : send'[q] # "returned" => result'[q] = None
    BY <1>1, <1>4, <1>5 DEF KafkaPlaces
  <2>2. \A q \in Packets : mode' = "async" => send'[q] # "produce"
    BY <1>1, <1>2, <1>4, <1>5 DEF KafkaPlaces
  <2>4. \A j \in Shards, q \in Packets :
          At(j, q)' => result'[q] = "ok" /\ shard'[q] = j /\ q \notin reported'
    BY <1>1, <1>2, <1>4, <1>5, <1>6, <1>7, <1>12, <1>13 DEF KafkaPlaces
  <2>5. \A q \in Packets : mode' = "async" /\ result'[q] = "ok" => q \in reported' \/ At(shard[q], q)'
    <3> SUFFICES ASSUME NEW q \in Packets, mode' = "async", result'[q] = "ok"
                 PROVE  q \in reported' \/ At(shard[q], q)'
      OBVIOUS
    <3>1. shard[q] \in Shards
      BY <1>1 DEF KafkaType
    <3>2. CASE q = p
      BY <1>2, <1>10, <1>13, <3>2 DEF At
    <3>3. CASE q # p
      <4>1. q \in reported \/ At(shard[q], q)
        BY <1>1, <1>2, <1>4, <3>3 DEF KafkaPlaces
      <4> QED BY <1>2, <1>12, <3>1, <4>1
    <3> QED BY <3>2, <3>3
  <2>6. \A q \in reported' : result'[q] = "ok"
    BY <1>1, <1>2, <1>4, <1>5 DEF KafkaPlaces, KafkaType
  <2>7. \A j \in Shards : Distinct(queue'[j])
    BY <1>1, <1>8, <1>10 DEF KafkaPlaces
  <2>8. \A j \in Shards, q \in Packets :
          /\ q \in Items(queue'[j]) => hold'[j] # q /\ q \notin buffered'[j]
          /\ hold'[j] = q => q \notin buffered'[j]
    <3>1. \A j \in Shards : hold[j] # p /\ p \notin buffered[j]
      BY <1>6 DEF At
    <3>2. \A j \in Shards, q \in Packets : q \in Items(queue'[j]) => q \in Items(queue[j]) \/ q = p
      BY <1>8, <1>10
    <3> QED BY <1>1, <1>2, <3>1, <3>2 DEF KafkaPlaces
  <2> QED BY <1>2, <2>1, <2>2, <2>4, <2>5, <2>6, <2>7, <2>8 DEF KafkaPlaces
<1>15. KafkaCounts'
  <2>1. Busy' = Busy
    BY <1>2 DEF Busy
  <2>2. Lost' = Lost
    BY <1>3, <1>4, <1>5 DEF Lost
  <2> QED BY <1>1, <1>2, <2>1, <2>2 DEF KafkaCounts
<1>16. KafkaClosing'
  <2>1. Busy' = Busy /\ WorkersDone' = WorkersDone
    BY <1>2 DEF Busy, WorkersDone
  <2>2. \A j \in Shards : worker'[j] = "gone" =>
          hold'[j] = None /\ \A q \in early' : q \notin Items(queue'[j])
    <3> SUFFICES ASSUME NEW j \in Shards, worker'[j] = "gone"
                 PROVE  hold'[j] = None /\ \A q \in early' : q \notin Items(queue'[j])
      OBVIOUS
    <3>1. closeCh /\ hold[j] = None /\ \A q \in early : q \notin Items(queue[j])
      BY <1>1, <1>2 DEF KafkaClosing
    <3>2. early' = early
      BY <1>2, <3>1
    <3> QED BY <1>2, <1>7, <1>8, <1>10, <3>1, <3>2
  <2>3. \A q \in early' : result'[q] = "ok"
    BY <1>1, <1>2, <1>4, <1>5 DEF KafkaClosing, KafkaType
  <2>4. mode' = "async" /\ (\A c \in Closers : ~expired'[c]) => \A q \in cut' : q \notin early'
    BY <1>1, <1>2, <1>7 DEF KafkaClosing
  <2> QED BY <1>1, <1>2, <2>1, <2>2, <2>3, <2>4 DEF KafkaClosing
<1> QED BY <1>11, <1>14, <1>15, <1>16 DEF KafkaInv

\* The other steps of Send: the synchronous mode.
LEMMA SendStepStep ==
  ASSUME KafkaInv, NEW p \in Packets, SendStep(p)
  PROVE  KafkaInv'
<1>1. CASE Enqueue(p)
  BY <1>1, EnqueueStep
<1>2. CASE EnqueueClosed(p)
  <2>1. /\ send[p] = "enqueue" /\ Return(p, "closed") /\ dropped' = dropped
        /\ UNCHANGED <<config, shard, nextIdx, queueing, producer, closing, sendErrors, sendSuccess,
                       history>>
    BY <1>2 DEF EnqueueClosed, counters
  <2> QED BY <2>1, KafkaReturns
<1>3. CASE EnqueueDropped(p)
  <2>1. /\ send[p] = "enqueue" /\ dropped' = dropped + 1
        /\ Return(p, "full") \/ Return(p, "cancelled")
        /\ UNCHANGED <<config, shard, nextIdx, queueing, producer, closing, sendErrors, sendSuccess,
                       history>>
    BY <1>3 DEF EnqueueDropped
  <2> QED BY <2>1, KafkaReturns
<1>4. CASE ProduceSync(p)
  <2>1. /\ send[p] = "produce" /\ dropped' = dropped
        /\ Return(p, "ok") \/ Return(p, "failed")
        /\ UNCHANGED <<config, shard, nextIdx, queueing, producer, closing, sendErrors, sendSuccess,
                       history>>
    BY <1>4 DEF ProduceSync, counters
  <2>2. mode # "async"
    BY <2>1 DEF KafkaInv, KafkaPlaces
  <2> QED BY <2>1, <2>2, KafkaReturns
<1> QED BY <1>1, <1>2, <1>3, <1>4 DEF SendStep

\* A callback: a record leaves the worker's hand or the producer and is reported.
LEMMA KafkaReport ==
  ASSUME KafkaInv, NEW i \in Shards, NEW p \in Packets, hold[i] = p \/ p \in buffered[i],
         NEW err \in BOOLEAN, Reported(p, err),
         hold' \in [Shards -> Packets \cup {None}], buffered' \in [Shards -> SUBSET Packets],
         \A j \in Shards, q \in Packets : hold'[j] = q <=> hold[j] = q /\ q # p,
         \A j \in Shards, q \in Packets : q \in buffered'[j] <=> q \in buffered[j] /\ q # p,
         \A j \in Shards : hold[j] = None => hold'[j] = None,
         cut' = cut \/ (cut' = cut \cup {p} /\ client[i] = "nil"),
         UNCHANGED <<config, sending, queue, worker, client, closing>>
  PROVE  KafkaInv'
<1>1. KafkaType /\ KafkaPlaces /\ KafkaCounts /\ KafkaClosing
  BY DEF KafkaInv
<1>2. /\ UNCHANGED <<mode, send, result, shard, nextIdx, queue, worker, client, closed, closeCh, once,
                     closer, expired, dropped, early>>
      /\ inflight' = inflight - 1 /\ reported' = reported \cup {p}
      /\ IF err THEN sendErrors' = sendErrors + 1 /\ sendSuccess' = sendSuccess
                ELSE sendErrors' = sendErrors /\ sendSuccess' = sendSuccess + 1
  BY DEF config, sending, closing, Reported
<1>3. At(i, p) /\ p \in Busy
  BY DEF At, Busy
<1>4. result[p] = "ok" /\ shard[p] = i /\ p \notin reported
  BY <1>1, <1>3 DEF KafkaPlaces
<1>5. \A j \in Shards : p \notin Items(queue[j])
  BY <1>1, <1>4 DEF KafkaPlaces, At
<1>6. KafkaType'
  <2>1. inflight' \in Int /\ sendErrors' \in Int /\ sendSuccess' \in Int /\ reported' \subseteq Packets
    BY <1>1, <1>2 DEF KafkaType
  <2>2. cut' \subseteq Packets
    BY <1>1 DEF KafkaType
  <2> QED BY <1>1, <1>2, <2>1, <2>2 DEF KafkaType
<1>7. KafkaPlaces'
  <2>1. \A j \in Shards, q \in Packets : At(j, q)' <=> At(j, q) /\ q # p
    BY <1>2, <1>5 DEF At
  <2>2. \A j \in Shards, q \in Packets :
          At(j, q)' => result'[q] = "ok" /\ shard'[q] = j /\ q \notin reported'
    BY <1>1, <1>2, <2>1 DEF KafkaPlaces
  <2>3. \A q \in Packets : mode' = "async" /\ result'[q] = "ok" => q \in reported' \/ At(shard[q], q)'
    <3> SUFFICES ASSUME NEW q \in Packets, mode' = "async", result'[q] = "ok", q # p
                 PROVE  q \in reported' \/ At(shard[q], q)'
      BY <1>2
    <3>1. q \in reported \/ At(shard[q], q)
      BY <1>1, <1>2 DEF KafkaPlaces
    <3>2. shard[q] \in Shards /\ shard' = shard
      BY <1>1, <1>2 DEF KafkaType
    <3> QED BY <1>2, <3>1, <3>2 DEF At
  <2>4. \A q \in reported' : result'[q] = "ok"
    BY <1>1, <1>2, <1>4 DEF KafkaPlaces
  <2>5. \A j \in Shards, q \in Packets :
          /\ q \in Items(queue'[j]) => hold'[j] # q /\ q \notin buffered'[j]
          /\ hold'[j] = q => q \notin buffered'[j]
    BY <1>1, <1>2 DEF KafkaPlaces
  <2> QED BY <1>1, <1>2, <2>2, <2>3, <2>4, <2>5 DEF KafkaPlaces
<1>8. Busy' = Busy \ {p} /\ Lost' = Lost
  BY <1>2 DEF Busy, Lost
<1>9. KafkaCounts'
  <2>1. IsFiniteSet(Busy \ {p}) /\ Cardinality(Busy \ {p}) = Cardinality(Busy) - 1
    BY <1>1, <1>3, FS_RemoveElement DEF KafkaCounts
  <2>2. IsFiniteSet(reported \cup {p}) /\ Cardinality(reported \cup {p}) = Cardinality(reported) + 1
    BY <1>1, <1>4, FS_AddElement DEF KafkaCounts
  <2>3. sendSuccess' + sendErrors' = sendSuccess + sendErrors + 1
    BY <1>1, <1>2 DEF KafkaType
  <2> QED BY <1>1, <1>2, <1>8, <2>1, <2>2, <2>3 DEF KafkaCounts
<1>10. KafkaClosing'
  <2>1. Busy = {} => Busy' = {}
    BY <1>8
  <2>2. WorkersDone' = WorkersDone
    BY <1>2 DEF WorkersDone
  <2>3. cut' \subseteq reported'
    BY <1>1, <1>2 DEF KafkaClosing
  <2>4. ASSUME mode' = "async", \A c \in Closers : ~expired'[c] PROVE \A q \in cut' : q \notin early'
    <3>1. \A c \in Closers : ~expired[c]
      BY <1>2, <2>4
    <3>2. mode = "async" /\ \A q \in cut : q \notin early
      BY <1>1, <1>2, <2>4, <3>1 DEF KafkaClosing
    <3>3. client[i] # "nil"
      BY <1>1, <1>3, <3>1, <3>2 DEF KafkaClosing
    <3> QED BY <1>2, <3>2, <3>3
  <2>5. \A j \in Shards : worker'[j] = "gone" =>
          hold'[j] = None /\ \A q \in early' : q \notin Items(queue'[j])
    BY <1>1, <1>2 DEF KafkaClosing
  <2> QED BY <1>1, <1>2, <2>1, <2>2, <2>3, <2>4, <2>5 DEF KafkaClosing
<1> QED BY <1>6, <1>7, <1>9, <1>10 DEF KafkaInv

\* A worker takes the head of its queue: Add comes before the record leaves the queue.
LEMMA WorkerTakeStep ==
  ASSUME KafkaInv, NEW i \in Shards, WorkerTake(i)
  PROVE  KafkaInv'
<1> DEFINE h == Head(queue[i])
<1>1. KafkaType /\ KafkaPlaces /\ KafkaCounts /\ KafkaClosing
  BY DEF KafkaInv
<1>2. /\ mode = "async" /\ worker[i] \in {"loop", "draining"} /\ hold[i] = None /\ queue[i] # <<>>
      /\ hold' = [hold EXCEPT ![i] = h] /\ queue' = [queue EXCEPT ![i] = Tail(@)]
      /\ inflight' = inflight + 1
      /\ UNCHANGED <<mode, send, result, shard, nextIdx, worker, client, buffered, closed, closeCh, once,
                     closer, expired, dropped, sendErrors, sendSuccess, early, reported, cut>>
  BY DEF WorkerTake, config, sending, closing, counters, history
<1>3. queue[i] \in Seq(Packets) /\ Distinct(queue[i])
  BY <1>1 DEF KafkaType, KafkaPlaces
<1>4. /\ Tail(queue[i]) \in Seq(Packets) /\ Distinct(Tail(queue[i])) /\ h \in Packets
      /\ h \notin Items(Tail(queue[i]))
      /\ \A q : q \in Items(queue[i]) <=> q \in Items(Tail(queue[i])) \/ q = h
  BY <1>2, <1>3, TailItems
<1> HIDE DEF h
<1>5. /\ queue'[i] = Tail(queue[i]) /\ hold'[i] = h
      /\ \A j \in Shards : j # i => queue'[j] = queue[j] /\ hold'[j] = hold[j]
  BY <1>1, <1>2 DEF KafkaType
<1>6. At(i, h) /\ h \notin buffered[i] /\ None \notin Packets
  BY <1>1, <1>4, OptionsAssumption DEF At, KafkaPlaces
<1>7. result[h] = "ok" /\ shard[h] = i /\ h \notin reported
  BY <1>1, <1>4, <1>6 DEF KafkaPlaces
<1>8. \A j \in Shards : hold[j] # h /\ h \notin buffered[j]
  BY <1>1, <1>2, <1>4, <1>6, <1>7 DEF KafkaPlaces, At
<1>9. KafkaType'
  <2>1. queue' \in [Shards -> Seq(Packets)] /\ hold' \in [Shards -> Packets \cup {None}]
    BY <1>1, <1>2, <1>4 DEF KafkaType
  <2>2. inflight' \in Int
    BY <1>1, <1>2 DEF KafkaType
  <2> QED BY <1>1, <1>2, <2>1, <2>2 DEF KafkaType
<1>10. KafkaPlaces'
  <2>1. \A j \in Shards, q \in Packets : At(j, q)' <=> At(j, q)
    <3> SUFFICES ASSUME NEW j \in Shards, NEW q \in Packets PROVE At(j, q)' <=> At(j, q)
      OBVIOUS
    <3>1. CASE j = i
      BY <1>2, <1>4, <1>5, <1>6, <3>1 DEF At
    <3>2. CASE j # i
      BY <1>2, <1>5, <3>2 DEF At
    <3> QED BY <3>1, <3>2
  <2>2. \A j \in Shards, q \in Packets :
          At(j, q)' => result'[q] = "ok" /\ shard'[q] = j /\ q \notin reported'
    BY <1>1, <1>2, <2>1 DEF KafkaPlaces
  <2>3. \A q \in Packets : mode' = "async" /\ result'[q] = "ok" => q \in reported' \/ At(shard[q], q)'
    <3> SUFFICES ASSUME NEW q \in Packets, mode' = "async", result'[q] = "ok"
                 PROVE  q \in reported' \/ At(shard[q], q)'
      OBVIOUS
    <3>1. q \in reported \/ At(shard[q], q)
      BY <1>1, <1>2 DEF KafkaPlaces
    <3>2. shard[q] \in Shards /\ shard' = shard
      BY <1>1, <1>2 DEF KafkaType
    <3>3. At(shard[q], q) => At(shard[q], q)'
      BY <2>1, <3>2 DEF At
    <3> QED BY <1>2, <3>1, <3>3
  <2>4. \A j \in Shards : Distinct(queue'[j])
    BY <1>1, <1>4, <1>5 DEF KafkaPlaces
  <2>5. \A j \in Shards, q \in Packets :
          /\ q \in Items(queue'[j]) => hold'[j] # q /\ q \notin buffered'[j]
          /\ hold'[j] = q => q \notin buffered'[j]
    <3> SUFFICES ASSUME NEW j \in Shards, NEW q \in Packets
                 PROVE  /\ q \in Items(queue'[j]) => hold'[j] # q /\ q \notin buffered'[j]
                        /\ hold'[j] = q => q \notin buffered'[j]
      OBVIOUS
    <3>1. CASE j = i
      BY <1>1, <1>2, <1>4, <1>5, <1>8, <3>1 DEF KafkaPlaces
    <3>2. CASE j # i
      BY <1>1, <1>2, <1>5, <3>2 DEF KafkaPlaces
    <3> QED BY <3>1, <3>2
  <2> QED BY <1>1, <1>2, <2>2, <2>3, <2>4, <2>5 DEF KafkaPlaces
<1>11. KafkaCounts'
  <2>1. Busy' = Busy \cup {h} /\ h \notin Busy /\ Lost' = Lost
    BY <1>2, <1>4, <1>5, <1>6, <1>8 DEF Busy, Lost
  <2>2. IsFiniteSet(Busy \cup {h}) /\ Cardinality(Busy \cup {h}) = Cardinality(Busy) + 1
    BY <1>1, <2>1, FS_AddElement DEF KafkaCounts
  <2> QED BY <1>1, <1>2, <2>1, <2>2 DEF KafkaCounts
<1>12. KafkaClosing'
  <2>1. ~WorkersDone /\ WorkersDone' = WorkersDone
    BY <1>2 DEF WorkersDone
  <2>2. \A j \in Shards : worker'[j] = "gone" =>
          hold'[j] = None /\ \A q \in early' : q \notin Items(queue'[j])
    BY <1>1, <1>2, <1>5 DEF KafkaClosing
  <2>3. \A c \in Closers : mode' = "async" =>
       /\ closer'[c] \in {"workers", "flush", "callbacks", "clients", "returned"} => closeCh'
       /\ closer'[c] \in {"flush", "callbacks", "clients", "returned"} /\ ~expired'[c] => WorkersDone'
       /\ closer'[c] \in {"clients", "returned"} /\ ~expired'[c] => Busy' = {}
    BY <1>1, <1>2, <2>1 DEF KafkaClosing
  <2> QED BY <1>1, <1>2, <2>2, <2>3 DEF KafkaClosing
<1> QED BY <1>9, <1>10, <1>11, <1>12 DEF KafkaInv

\* The producer takes the record, or reports it at once.
LEMMA ProduceAsyncStep ==
  ASSUME KafkaInv, NEW i \in Shards, ProduceAsync(i)
  PROVE  KafkaInv'
<1>1. KafkaType /\ KafkaPlaces /\ KafkaCounts /\ KafkaClosing
  BY DEF KafkaInv
<1>2. /\ hold[i] # None /\ hold' = [hold EXCEPT ![i] = None]
      /\ UNCHANGED <<config, sending, queue, worker, client, closing>>
  BY DEF ProduceAsync
<1>3. PICK h \in Packets : h = hold[i]
  BY <1>1, <1>2 DEF KafkaType
<1>4. /\ None \notin Packets /\ hold'[i] = None /\ \A j \in Shards : j # i => hold'[j] = hold[j]
      /\ hold' \in [Shards -> Packets \cup {None}]
  BY <1>1, <1>2, OptionsAssumption DEF KafkaType
<1>5. At(i, h)
  BY <1>3 DEF At
<1>6. result[h] = "ok" /\ shard[h] = i /\ h \notin reported /\ \A j \in Shards : j # i => ~At(j, h)
  BY <1>1, <1>3, <1>5 DEF KafkaPlaces
<1>7. \A j \in Shards : h \notin Items(queue[j]) /\ h \notin buffered[j]
  BY <1>1, <1>3, <1>6 DEF KafkaPlaces, At
<1>8. CASE /\ buffered' = [buffered EXCEPT ![i] = @ \cup {hold[i]}]
           /\ UNCHANGED <<inflight, counters, history>>
  <2>1. UNCHANGED <<mode, send, result, shard, nextIdx, queue, worker, client, closed, closeCh, once,
                    inflight, closer, expired, dropped, sendErrors, sendSuccess, early, reported, cut>>
    BY <1>2, <1>8 DEF config, sending, closing, counters, history
  <2>2. /\ buffered' \in [Shards -> SUBSET Packets] /\ buffered'[i] = buffered[i] \cup {h}
        /\ \A j \in Shards : j # i => buffered'[j] = buffered[j]
    BY <1>1, <1>3, <1>8 DEF KafkaType
  <2>3. KafkaType'
    BY <1>1, <1>4, <2>1, <2>2 DEF KafkaType
  <2>4. \A j \in Shards, q \in Packets : hold'[j] = q \/ q \in buffered'[j] <=> hold[j] = q \/ q \in buffered[j]
    BY <1>3, <1>4, <2>2
  <2>5. \A j \in Shards, q \in Packets : At(j, q)' <=> At(j, q)
    BY <2>1, <2>4 DEF At
  <2>6. KafkaPlaces'
    <3>1. \A j \in Shards, q \in Packets :
            At(j, q)' => result'[q] = "ok" /\ shard'[q] = j /\ q \notin reported'
      BY <1>1, <2>1, <2>5 DEF KafkaPlaces
    <3>2. \A q \in Packets : mode' = "async" /\ result'[q] = "ok" => q \in reported' \/ At(shard[q], q)'
      <4> SUFFICES ASSUME NEW q \in Packets, mode' = "async", result'[q] = "ok"
                   PROVE  q \in reported' \/ At(shard[q], q)'
        OBVIOUS
      <4>1. q \in reported \/ At(shard[q], q)
        BY <1>1, <2>1 DEF KafkaPlaces
      <4>2. shard[q] \in Shards /\ shard' = shard
        BY <1>1, <2>1 DEF KafkaType
      <4>3. At(shard[q], q) => At(shard[q], q)'
        BY <2>5, <4>2 DEF At
      <4> QED BY <2>1, <4>1, <4>3
    <3>3. \A j \in Shards, q \in Packets :
            /\ q \in Items(queue'[j]) => hold'[j] # q /\ q \notin buffered'[j]
            /\ hold'[j] = q => q \notin buffered'[j]
      <4> SUFFICES ASSUME NEW j \in Shards, NEW q \in Packets
                   PROVE  /\ q \in Items(queue'[j]) => hold'[j] # q /\ q \notin buffered'[j]
                          /\ hold'[j] = q => q \notin buffered'[j]
        OBVIOUS
      <4>1. CASE j = i
        BY <1>1, <1>4, <1>7, <2>1, <2>2, <4>1 DEF KafkaPlaces
      <4>2. CASE j # i
        BY <1>1, <1>4, <2>1, <2>2, <4>2 DEF KafkaPlaces
      <4> QED BY <4>1, <4>2
    <3> QED BY <1>1, <2>1, <3>1, <3>2, <3>3 DEF KafkaPlaces
  <2>7. Busy' = Busy /\ Lost' = Lost /\ WorkersDone' = WorkersDone
    BY <2>1, <2>4 DEF Busy, Lost, WorkersDone
  <2>8. KafkaCounts'
    BY <1>1, <2>1, <2>7 DEF KafkaCounts
  <2>9. \A j \in Shards : worker'[j] = "gone" =>
          hold'[j] = None /\ \A q \in early' : q \notin Items(queue'[j])
    BY <1>1, <1>4, <2>1 DEF KafkaClosing
  <2>10. KafkaClosing'
    BY <1>1, <2>1, <2>7, <2>9 DEF KafkaClosing
  <2> QED BY <2>3, <2>6, <2>8, <2>10 DEF KafkaInv
<1>9. CASE /\ client[i] = "nil" /\ Reported(hold[i], TRUE) /\ cut' = cut \cup {hold[i]}
           /\ UNCHANGED buffered
  <2>1. \A j \in Shards, q \in Packets : hold'[j] = q <=> hold[j] = q /\ q # h
    <3> SUFFICES ASSUME NEW j \in Shards, NEW q \in Packets PROVE hold'[j] = q <=> hold[j] = q /\ q # h
      OBVIOUS
    <3>1. CASE j = i
      BY <1>3, <1>4, <3>1
    <3>2. CASE j # i
      BY <1>4, <1>6, <3>2 DEF At
    <3> QED BY <3>1, <3>2
  <2>2. \A j \in Shards, q \in Packets : q \in buffered'[j] <=> q \in buffered[j] /\ q # h
    BY <1>7, <1>9
  <2>3. \A j \in Shards : hold[j] = None => hold'[j] = None
    BY <1>4
  <2>4. buffered' \in [Shards -> SUBSET Packets]
    BY <1>1, <1>9 DEF KafkaType
  <2>5. Reported(h, TRUE) /\ cut' = cut \cup {h}
    BY <1>3, <1>9
  <2> QED BY <1>2, <1>3, <1>4, <1>9, <2>1, <2>2, <2>3, <2>4, <2>5, KafkaReport, Zenon
<1> QED BY <1>8, <1>9 DEF ProduceAsync

\* The producer is through with a record.
LEMMA CallbackStep ==
  ASSUME KafkaInv, NEW i \in Shards, NEW p \in Packets, Callback(i, p)
  PROVE  KafkaInv'
<1>1. KafkaType /\ KafkaPlaces
  BY DEF KafkaInv
<1>2. /\ p \in buffered[i] /\ buffered' = [buffered EXCEPT ![i] = @ \ {p}]
      /\ UNCHANGED <<config, sending, queueing, client, closing>>
  BY DEF Callback
<1>3. PICK err \in BOOLEAN :
        Reported(p, err) /\ (cut' = cut \/ (cut' = cut \cup {p} /\ client[i] = "nil"))
  BY DEF Callback
<1>4. At(i, p)
  BY <1>2 DEF At
<1>5. \A j \in Shards : j # i => ~At(j, p)
  BY <1>1, <1>4 DEF KafkaPlaces
<1>6. hold' = hold /\ queue' = queue /\ worker' = worker /\ \A j \in Shards : hold[j] # p
  BY <1>1, <1>2, <1>5 DEF queueing, At, KafkaPlaces
<1>7. /\ buffered' \in [Shards -> SUBSET Packets] /\ buffered'[i] = buffered[i] \ {p}
      /\ \A j \in Shards : j # i => buffered'[j] = buffered[j]
  BY <1>1, <1>2 DEF KafkaType
<1>8. \A j \in Shards, q \in Packets : q \in buffered'[j] <=> q \in buffered[j] /\ q # p
  BY <1>5, <1>7 DEF At
<1>9. /\ hold' \in [Shards -> Packets \cup {None}]
      /\ \A j \in Shards, q \in Packets : hold'[j] = q <=> hold[j] = q /\ q # p
      /\ \A j \in Shards : hold[j] = None => hold'[j] = None
  BY <1>1, <1>6 DEF KafkaType
<1> QED BY <1>2, <1>3, <1>6, <1>7, <1>8, <1>9, KafkaReport

\* A worker that sees the signal drains its queue, and leaves it empty.
LEMMA WorkerLeaves ==
  ASSUME KafkaInv, NEW i \in Shards, WorkerClosing(i) \/ WorkerGone(i)
  PROVE  KafkaInv'
<1>1. KafkaType /\ KafkaPlaces /\ KafkaCounts /\ KafkaClosing
  BY DEF KafkaInv
<1>2. UNCHANGED <<mode, send, result, shard, nextIdx, queue, hold, client, buffered, inflight, closed,
                  closeCh, once, closer, expired, dropped, sendErrors, sendSuccess, early, reported, cut>>
  BY DEF WorkerClosing, WorkerGone, config, sending, producer, closing, counters, history
<1>3. PICK w \in {"draining", "gone"} :
        /\ worker' = [worker EXCEPT ![i] = w] /\ worker[i] # "gone" /\ closeCh
        /\ w = "gone" => hold[i] = None /\ queue[i] = <<>>
  BY <1>1 DEF WorkerClosing, WorkerGone, Drained, KafkaClosing
<1>4. KafkaType'
  BY <1>1, <1>2, <1>3 DEF KafkaType
<1>5. KafkaPlaces' /\ KafkaCounts'
  BY <1>1, <1>2, PlacesSame, CountsSame
<1>6. \A j \in Shards : worker'[j] = "gone" =>
        hold'[j] = None /\ \A q \in early' : q \notin Items(queue'[j])
  BY <1>1, <1>2, <1>3 DEF KafkaType, KafkaClosing, Items
<1>7. \A j \in Shards : worker'[j] \in {"draining", "gone"} => closeCh'
  BY <1>1, <1>2, <1>3 DEF KafkaType, KafkaClosing
<1>8. Busy' = Busy /\ ~WorkersDone
  BY <1>2, <1>3 DEF Busy, WorkersDone
<1>9. \A c \in Closers : mode' = "async" =>
       /\ closer'[c] \in {"workers", "flush", "callbacks", "clients", "returned"} => closeCh'
       /\ closer'[c] \in {"flush", "callbacks", "clients", "returned"} /\ ~expired'[c] => WorkersDone'
       /\ closer'[c] \in {"clients", "returned"} /\ ~expired'[c] => Busy' = {}
  BY <1>1, <1>2, <1>8 DEF KafkaClosing
<1>10. KafkaClosing'
  BY <1>1, <1>2, <1>6, <1>7, <1>9 DEF KafkaClosing
<1> QED BY <1>4, <1>5, <1>10 DEF KafkaInv

\* Close, step by step, and its running out of time.
LEMMA CloserStep ==
  ASSUME KafkaInv, NEW c \in Closers, CloseBegin(c) \/ CloseStep(c) \/ Expire(c)
  PROVE  KafkaInv'
<1>1. KafkaType /\ KafkaPlaces /\ KafkaCounts /\ KafkaClosing
  BY DEF KafkaInv
<1>2. UNCHANGED <<mode, send, result, shard, nextIdx, queue, hold, worker, buffered, inflight,
                  dropped, sendErrors, sendSuccess, early, reported, cut>>
  BY DEF CloseBegin, CloseStep, CloseChannel, WaitWorkers, Flush, WaitCallbacks, CloseClients, Expire,
         config, sending, queueing, producer, counters, history
<1>3. KafkaPlaces' /\ KafkaCounts'
  BY <1>1, <1>2, PlacesSame, CountsSame
<1>4. Busy' = Busy /\ WorkersDone' = WorkersDone
  BY <1>2 DEF Busy, WorkersDone
<1>5. CASE Expire(c)
  <2>1. /\ expired' = [expired EXCEPT ![c] = TRUE]
        /\ UNCHANGED <<client, closeCh, once, closer>>
    BY <1>5 DEF Expire, producer
  <2>2. \A d \in Closers : expired[d] => expired'[d]
    BY <1>1, <2>1 DEF KafkaType
  <2>3. KafkaType'
    BY <1>1, <1>2, <2>1 DEF KafkaType
  <2>4. KafkaClosing'
    BY <1>1, <1>2, <1>4, <2>1, <2>2 DEF KafkaClosing
  <2> QED BY <1>3, <2>3, <2>4 DEF KafkaInv
<1>6. CASE CloseBegin(c) \/ CloseStep(c)
  <2>1. \E to \in {"closeCh", "workers", "flush", "callbacks", "clients", "returned"} :
          /\ closer' = [closer EXCEPT ![c] = to] /\ closer[c] # "returned"
          /\ once' \in {"free", "running", "done"} /\ closeCh' \in {closeCh, TRUE}
          /\ client' \in {client, [i \in Shards |-> "nil"]}
          /\ expired' = expired
          /\ once' = "done" => closeCh'
          /\ mode = "async" => 
               /\ to \in {"workers", "flush", "callbacks", "clients", "returned"} => closeCh'
               /\ to \in {"flush", "callbacks", "clients", "returned"} /\ ~expired[c] => WorkersDone
               /\ to \in {"clients", "returned"} /\ ~expired[c] => Busy = {}
          /\ client' # client => to = "returned"
    <3>0. /\ once = "done" => closeCh
          /\ mode = "async" =>
               /\ closer[c] \in {"workers", "flush", "callbacks", "clients", "returned"} => closeCh
               /\ closer[c] \in {"flush", "callbacks", "clients", "returned"} /\ ~expired[c] => WorkersDone
               /\ closer[c] \in {"clients", "returned"} /\ ~expired[c] => Busy = {}
          /\ once \in {"free", "running", "done"} /\ mode \in {"sync", "async"}
      BY <1>1 DEF KafkaClosing, KafkaType
    <3>1. CASE CloseBegin(c)
      BY <3>0, <3>1 DEF CloseBegin, Goes, producer
    <3>2. CASE CloseChannel(c)
      BY <3>0, <3>2 DEF CloseChannel, Goes, producer
    <3>3. CASE WaitWorkers(c)
      BY <3>0, <3>3 DEF WaitWorkers, Goes, producer
    <3>4. CASE Flush(c)
      BY <3>0, <3>4 DEF Flush, Goes, producer
    <3>5. CASE WaitCallbacks(c)
      <4>1. inflight = 0 => Busy = {}
        BY <1>1, FS_EmptySet DEF KafkaCounts
      <4> QED BY <3>0, <3>5, <4>1 DEF WaitCallbacks, Goes, producer
    <3>6. CASE CloseClients(c)
      BY <3>0, <3>6 DEF CloseClients, Goes
    <3> QED BY <1>6, <3>1, <3>2, <3>3, <3>4, <3>5, <3>6 DEF CloseStep
  <2>2. PICK to \in {"closeCh", "workers", "flush", "callbacks", "clients", "returned"} :
          /\ closer' = [closer EXCEPT ![c] = to] /\ closer[c] # "returned"
          /\ once' \in {"free", "running", "done"} /\ closeCh' \in {closeCh, TRUE}
          /\ client' \in {client, [i \in Shards |-> "nil"]}
          /\ expired' = expired
          /\ once' = "done" => closeCh'
          /\ mode = "async" => 
               /\ to \in {"workers", "flush", "callbacks", "clients", "returned"} => closeCh'
               /\ to \in {"flush", "callbacks", "clients", "returned"} /\ ~expired[c] => WorkersDone
               /\ to \in {"clients", "returned"} /\ ~expired[c] => Busy = {}
          /\ client' # client => to = "returned"
    BY <2>1
  <2>3. KafkaType'
    <3>1. client' \in [Shards -> {"open", "nil"}] /\ closeCh' \in BOOLEAN
      BY <1>1, <2>2 DEF KafkaType
    <3> QED BY <1>1, <1>2, <2>2, <3>1 DEF KafkaType
  <2>4. closer'[c] = to /\ \A d \in Closers : d # c => closer'[d] = closer[d]
    BY <1>1, <2>2 DEF KafkaType
  <2>5. closeCh => closeCh'
    BY <2>2
  <2>6. \A d \in Closers : mode' = "async" =>
          /\ closer'[d] \in {"workers", "flush", "callbacks", "clients", "returned"} => closeCh'
          /\ closer'[d] \in {"flush", "callbacks", "clients", "returned"} /\ ~expired'[d] => WorkersDone'
          /\ closer'[d] \in {"clients", "returned"} /\ ~expired'[d] => Busy' = {}
    BY <1>1, <1>2, <1>4, <2>2, <2>4, <2>5 DEF KafkaClosing
  <2>7. \A i \in Shards : client'[i] = "nil" => \E d \in Closers : closer'[d] = "returned"
    <3>1. CASE client' = client
      BY <1>1, <2>2, <2>4, <3>1 DEF KafkaClosing
    <3>2. CASE client' # client
      BY <2>2, <2>4, <3>2
    <3> QED BY <3>1, <3>2
  <2>8. KafkaClosing'
    <3>1. /\ \A i \in Shards : worker'[i] \in {"draining", "gone"} => closeCh'
          /\ \A i \in Shards : worker'[i] = "gone" =>
               hold'[i] = None /\ \A p \in early' : p \notin Items(queue'[i])
          /\ \A p \in early' : result'[p] = "ok"
          /\ cut' \subseteq reported'
          /\ mode' = "async" /\ (\A d \in Closers : ~expired'[d]) => \A p \in cut' : p \notin early'
      BY <1>1, <1>2, <2>2, <2>5 DEF KafkaClosing
    <3> QED BY <2>2, <2>6, <2>7, <3>1 DEF KafkaClosing
  <2> QED BY <1>3, <2>3, <2>8 DEF KafkaInv
<1> QED BY <1>5, <1>6

\* One lemma per action: KafkaInv is inductive.
LEMMA KafkaStep == KafkaInv /\ [Next]_vars => KafkaInv'
<1> SUFFICES ASSUME KafkaInv, [Next]_vars PROVE KafkaInv'
  OBVIOUS
<1>1. CASE UNCHANGED vars \/ CancelContext
  <2>1. UNCHANGED <<mode, send, result, shard, nextIdx, queue, hold, worker, client, buffered, inflight,
                    closeCh, once, closer, expired, dropped, sendErrors, sendSuccess, early, reported,
                    cut>>
    BY <1>1 DEF vars, CancelContext, config, sending, queueing, producer, closing, counters, history
  <2>2. KafkaType'
    BY <2>1 DEF KafkaInv, KafkaType
  <2>3. KafkaPlaces' /\ KafkaCounts' /\ KafkaClosing'
    BY <2>1, PlacesSame, CountsSame, ClosingSame DEF KafkaInv
  <2> QED BY <2>2, <2>3 DEF KafkaInv
<1>2. ASSUME NEW p \in Packets, SendBegin(p) \/ SendStep(p) PROVE KafkaInv'
  BY <1>2, SendBeginStep, SendStepStep
<1>3. ASSUME NEW i \in Shards, WorkerStep(i) \/ \E p \in Packets : Callback(i, p) PROVE KafkaInv'
  BY <1>3, WorkerTakeStep, ProduceAsyncStep, WorkerLeaves, CallbackStep DEF WorkerStep
<1>4. ASSUME NEW c \in Closers, CloseBegin(c) \/ CloseStep(c) \/ Expire(c) PROVE KafkaInv'
  BY <1>4, CloserStep
<1> QED BY <1>1, <1>2, <1>3, <1>4 DEF Next

\* The two properties follow: the counters are split by the places of records.
LEMMA KafkaAccounted == KafkaInv => Accounted
<1> SUFFICES ASSUME KafkaInv, mode = "async" PROVE Accounted
  BY DEF Accounted
<1>1. KafkaType /\ KafkaPlaces /\ KafkaCounts /\ KafkaClosing
  BY DEF KafkaInv
<1>2. \A i \in Shards : /\ Queued(i) = Items(queue[i])
                        /\ Held(i) \subseteq Packets /\ buffered[i] \subseteq Packets
                        /\ Queued(i) \subseteq Packets
                        /\ \A p \in Packets : p \in Held(i) <=> p = hold[i]
                        /\ \A p \in Packets : p \in Inside(i) <=> At(i, p)
  <2> SUFFICES ASSUME NEW i \in Shards
               PROVE  /\ Queued(i) = Items(queue[i])
                      /\ Held(i) \subseteq Packets /\ buffered[i] \subseteq Packets
                      /\ Queued(i) \subseteq Packets
                      /\ \A p \in Packets : p \in Held(i) <=> p = hold[i]
                      /\ \A p \in Packets : p \in Inside(i) <=> At(i, p)
    OBVIOUS
  <2>1. queue[i] \in Seq(Packets) /\ hold[i] \in Packets \cup {None} /\ buffered[i] \subseteq Packets
    BY <1>1 DEF KafkaType
  <2>2. Queued(i) = Items(queue[i]) /\ Queued(i) \subseteq Packets
    BY <2>1 DEF Queued, Items
  <2>3. Held(i) \subseteq Packets /\ \A p \in Packets : p \in Held(i) <=> p = hold[i]
    BY <2>1, OptionsAssumption DEF Held
  <2>4. \A p \in Packets : p \in Inside(i) <=> At(i, p)
    BY <2>2, <2>3 DEF Inside, At
  <2> QED BY <2>1, <2>2, <2>3, <2>4
<1>3. Returned({"ok"}) = reported \cup UNION {Inside(i) : i \in Shards}
  <2>1. \A i \in Shards : Inside(i) \subseteq Packets
    BY <1>2 DEF Inside
  <2>2. \A p \in Packets : result[p] = "ok" => p \in reported \/ \E i \in Shards : p \in Inside(i)
    BY <1>1, <1>2 DEF KafkaPlaces, KafkaType
  <2>3. \A p \in Packets : p \in reported \/ (\E i \in Shards : p \in Inside(i)) => result[p] = "ok"
    BY <1>1, <1>2 DEF KafkaPlaces
  <2>4. reported \subseteq Packets
    BY <1>1 DEF KafkaType
  <2> QED BY <2>1, <2>2, <2>3, <2>4 DEF Returned
<1>4. Busy = UNION {Held(i) \cup buffered[i] : i \in Shards}
  BY <1>2 DEF Busy
<1>5. ASSUME NEW i \in Shards
      PROVE  /\ Inside(i) \cap reported = {}
             /\ Cardinality(Inside(i)) =
                  Len(queue[i]) + Cardinality(Held(i)) + Cardinality(buffered[i])
             /\ worker[i] = "gone" => Queued(i) \cap early = {}
  <2>1. Inside(i) \cap reported = {}
    BY <1>1, <1>2 DEF KafkaPlaces, Inside
  <2>2. worker[i] = "gone" => Queued(i) \cap early = {}
    BY <1>1, <1>2 DEF KafkaClosing
  <2>3. IsFiniteSet(Queued(i)) /\ Cardinality(Queued(i)) = Len(queue[i])
    <3>1. queue[i] \in Seq(Packets) /\ Distinct(queue[i])
      BY <1>1 DEF KafkaType, KafkaPlaces
    <3> QED BY <1>2, <3>1, CountItems
  <2>4. Held(i) \subseteq Busy /\ buffered[i] \subseteq Busy
    BY <1>4
  <2>5. IsFiniteSet(Held(i)) /\ IsFiniteSet(buffered[i])
    BY <1>1, <2>4, FS_Subset DEF KafkaCounts
  <2>6. Held(i) \cap buffered[i] = {} /\ Queued(i) \cap (Held(i) \cup buffered[i]) = {}
    BY <1>1, <1>2 DEF KafkaPlaces
  <2>7. /\ IsFiniteSet(Held(i) \cup buffered[i])
        /\ Cardinality(Held(i) \cup buffered[i]) =
             Cardinality(Held(i)) + Cardinality(buffered[i]) - Cardinality({})
    BY <2>5, <2>6, FS_Union
  <2>8. Cardinality(Queued(i) \cup (Held(i) \cup buffered[i])) =
          Cardinality(Queued(i)) + Cardinality(Held(i) \cup buffered[i]) - Cardinality({})
    BY <2>3, <2>6, <2>7, FS_Union
  <2>9. Cardinality({}) = 0
    BY FS_EmptySet
  <2>10. Inside(i) = Queued(i) \cup (Held(i) \cup buffered[i])
    BY DEF Inside
  <2>11. /\ Cardinality(Held(i)) \in Nat /\ Cardinality(buffered[i]) \in Nat
         /\ Cardinality(Queued(i)) \in Nat
    BY <2>3, <2>5, FS_CardinalityType
  <2>12. Cardinality(Inside(i)) = Len(queue[i]) + Cardinality(Held(i)) + Cardinality(buffered[i])
    BY <2>3, <2>7, <2>8, <2>9, <2>10, <2>11
  <2> QED BY <2>1, <2>2, <2>12
<1>6. Lost = Returned({"full", "cancelled"})
  BY DEF Lost, Returned
<1> QED BY <1>1, <1>3, <1>4, <1>5, <1>6 DEF Accounted, KafkaCounts

\* Close's promise follows from its last phase.
LEMMA KafkaDelivers == KafkaInv => CloseDelivers
<1> SUFFICES ASSUME KafkaInv, mode = "async" PROVE CloseDelivers
  BY DEF CloseDelivers
<1>1. KafkaType /\ KafkaPlaces /\ KafkaCounts /\ KafkaClosing
  BY DEF KafkaInv
<1>2. ASSUME NEW c \in Closers, closer[c] = "returned", ~expired[c] PROVE early \subseteq reported
  <2> SUFFICES ASSUME NEW p \in early PROVE p \in reported
    OBVIOUS
  <2>1. p \in Packets /\ result[p] = "ok" /\ shard[p] \in Shards
    BY <1>1 DEF KafkaType, KafkaClosing
  <2>2. worker[shard[p]] = "gone" /\ Busy = {}
    BY <1>1, <1>2, <2>1 DEF KafkaClosing, WorkersDone
  <2>3. p \notin Items(queue[shard[p]])
    BY <1>1, <2>1, <2>2 DEF KafkaClosing
  <2>4. ~At(shard[p], p)
    BY <2>1, <2>2, <2>3 DEF At, Busy
  <2> QED BY <1>1, <2>1, <2>4 DEF KafkaPlaces
<1>3. ASSUME \A c \in Closers : ~expired[c] PROVE cut \cap early = {}
  BY <1>1, <1>3 DEF KafkaClosing
<1> QED BY <1>2, <1>3 DEF CloseDelivers

\* The invariant holds of every endpoint, since the steps of other kinds keep it.
LEMMA KafkaCorrect == EndpointSpec => []KafkaInv
<1>1. Build => KafkaInv
  BY KafkaInit DEF Build
<1>2. KafkaInv /\ [EndpointNext]_allVars => KafkaInv'
  <2> SUFFICES ASSUME KafkaInv, [EndpointNext]_allVars PROVE KafkaInv'
    OBVIOUS
  <2>1. [Next]_vars
    BY KafkaMoves DEF allVars, vars
  <2> QED BY <2>1, KafkaStep
<1> QED BY <1>1, <1>2, PTL DEF EndpointSpec

\* The counters of inflight, dropped, sent and failed records are exact at every step of
\* Send, workers, callbacks and Close, and each accepted record is queued, in flight or
\* reported once (kafka.go: enqueueAsync, asyncWorker, produceAsync).
THEOREM RecordsAreAccounted == EndpointSpec => []Accounted
  BY KafkaCorrect, KafkaAccounted, PTL

\* A Close that does not run out of time returns when all that was accepted before it gave
\* its signal has been reported, and cuts none of it off (kafka.go: Close).
THEOREM CloseDeliversRecords == EndpointSpec => []CloseDelivers
  BY KafkaCorrect, KafkaDelivers, PTL
-----------------------------------------------------------------------------
(* File receivers: an entry of a scan, a chunk, and the first chunks of an *)
(* entry's file as the stream dispatches them.                             *)

Entry == [file : Poll!Files, ver : Nat \ {0}, size : Nat]
Chunk == [ver : Nat, offset : Nat, eof : BOOLEAN]
First(e, n) == [k \in 1..n |-> [ver |-> e.ver, offset |-> k - 1, eof |-> k = e.size]]

PollType ==
  /\ fKind \in {"sftp", "oss"}
  /\ fDir \in [Poll!Files -> [ver : Nat, size : Nat]]
  /\ fPoller \in {"new", "scan", "next", "open", "stream", "mark", "wait", "ended"}
  /\ fCancelled \in BOOLEAN
  /\ fEntries \in Seq(Entry) /\ fOffset \in Nat
  /\ fSeen \in [Poll!Files -> Nat] /\ fSeenOrder \in Seq(Poll!Files)
  /\ fOut \in [Poll!Files -> Seq(Chunk)] /\ fWhole \in [Poll!Files -> Nat]
  /\ fWrites \in Nat

\* Versions only grow: what was listed or is remembered of a file is not newer than the
\* file, and a scan lists each file once.
PollVersions ==
  /\ \A f \in Poll!Files :
       /\ fDir[f].ver <= fWrites + 1 /\ fSeen[f] <= fWrites + 1
       /\ fDir[f].ver # 0 => fSeen[f] <= fDir[f].ver
  /\ \A e \in Items(fEntries) :
       /\ e.ver <= fWrites + 1 /\ fSeen[e.file] <= e.ver
       /\ fDir[e.file].ver # 0 => e.ver <= fDir[e.file].ver
       /\ fDir[e.file].ver = e.ver => fDir[e.file].size = e.size
  /\ \A k, l \in DOMAIN fEntries : fEntries[k].file = fEntries[l].file => k = l

\* What was dispatched of the entry in hand, as long as its file was not written again.
PollStream ==
  /\ fPoller \in {"open", "stream", "mark"} =>
       fEntries # <<>> /\ fSeen[Head(fEntries).file] # Head(fEntries).ver
  /\ fPoller \notin {"stream", "mark"} => fOffset = 0
  /\ fPoller \in {"stream", "mark"} /\ fDir[Head(fEntries).file].ver = Head(fEntries).ver =>
       /\ fOffset <= Head(fEntries).size
       /\ fOut[Head(fEntries).file] = First(Head(fEntries), fOffset)
       /\ fPoller = "mark" /\ ~fCancelled => fOffset = Head(fEntries).size

\* A file remembered in its present version was delivered whole; an OSS receiver's order
\* of files is what it remembers; and who remembers every file delivers none twice.
PollMemory ==
  /\ \A f \in Poll!Files :
       ~fCancelled /\ fDir[f].ver # 0 /\ fSeen[f] = fDir[f].ver => fWhole[f] = fDir[f].ver
  /\ fKind = "oss" =>
       /\ Items(fSeenOrder) = {f \in Poll!Files : fSeen[f] # 0}
       /\ Distinct(fSeenOrder) /\ Len(fSeenOrder) <= SeenLimit
  /\ fKind = "sftp" \/ NumFiles <= SeenLimit =>
       fRepeated = {} /\ \A f \in Poll!Files : fWhole[f] <= fSeen[f]

PollInv == PollType /\ PollVersions /\ PollStream /\ PollMemory

\* The invariant holds initially.
LEMMA PollInit == Poll!Init => PollInv
<1> SUFFICES ASSUME Poll!Init PROVE PollInv
  OBVIOUS
<1> USE DEF Poll!Init
<1>0. Items(fEntries) = {} /\ Items(fSeenOrder) = {} /\ Distinct(fSeenOrder) /\ fEntries = <<>>
      /\ fSeenOrder = <<>> /\ Len(fSeenOrder) = 0
  BY DEF Items, Distinct
<1>1. \A f \in Poll!Files : fDir[f].ver = 1 /\ fSeen[f] = 0 /\ fWhole[f] = 0
  OBVIOUS
<1>2. PollType
  <2>1. fDir \in [Poll!Files -> [ver : Nat, size : Nat]] /\ fKind \in {"sftp", "oss"}
    BY FileAssumption
  <2>2. fEntries \in Seq(Entry) /\ fSeenOrder \in Seq(Poll!Files)
    BY <1>0
  <2>3. fOut \in [Poll!Files -> Seq(Chunk)]
    OBVIOUS
  <2> QED BY <2>1, <2>2, <2>3 DEF PollType
<1>3. PollVersions
  BY <1>0, <1>1 DEF PollVersions
<1>4. PollStream
  BY DEF PollStream
<1>5. PollMemory
  BY <1>0, <1>1, FileAssumption DEF PollMemory
<1> QED BY <1>2, <1>3, <1>4, <1>5 DEF PollInv

\* The first of the entries and the others.
LEMMA FirstEntry ==
  ASSUME PollType, fEntries # <<>>
  PROVE  /\ Head(fEntries) \in Entry /\ Head(fEntries) \in Items(fEntries)
         /\ Tail(fEntries) \in Seq(Entry)
         /\ Items(Tail(fEntries)) \subseteq Items(fEntries)
         /\ PollVersions =>
              /\ \A e \in Items(Tail(fEntries)) : e.file # Head(fEntries).file
              /\ \A k, l \in DOMAIN Tail(fEntries) :
                   Tail(fEntries)[k].file = Tail(fEntries)[l].file => k = l
<1>1. fEntries \in Seq(Entry) /\ fEntries # <<>>
  BY DEF PollType
<1>2. /\ Len(fEntries) \in Nat \ {0} /\ DOMAIN fEntries = 1..Len(fEntries) /\ Head(fEntries) = fEntries[1]
      /\ Tail(fEntries) \in Seq(Entry) /\ DOMAIN Tail(fEntries) = 1..(Len(fEntries) - 1)
      /\ \A k \in 1..(Len(fEntries) - 1) : Tail(fEntries)[k] = fEntries[k + 1]
      /\ fEntries[1] \in Entry
  BY <1>1
<1>3. Head(fEntries) \in Items(fEntries)
  BY <1>2 DEF Items
<1>4. \A k \in 1..(Len(fEntries) - 1) : k + 1 \in 1..Len(fEntries) /\ k + 1 # 1
  BY <1>2
<1>5. Items(Tail(fEntries)) \subseteq Items(fEntries)
  BY <1>2, <1>4 DEF Items
<1>6. ASSUME PollVersions
      PROVE  /\ \A e \in Items(Tail(fEntries)) : e.file # Head(fEntries).file
             /\ \A k, l \in DOMAIN Tail(fEntries) :
                  Tail(fEntries)[k].file = Tail(fEntries)[l].file => k = l
  <2>1. \A k, l \in DOMAIN fEntries : fEntries[k].file = fEntries[l].file => k = l
    BY <1>6 DEF PollVersions
  <2>2. 1 \in DOMAIN fEntries /\ \A k \in 1..(Len(fEntries) - 1) : fEntries[k + 1].file # fEntries[1].file
    BY <1>2, <1>4, <2>1
  <2>3. \A e \in Items(Tail(fEntries)) : e.file # Head(fEntries).file
    BY <1>2, <2>2 DEF Items
  <2>4. \A k, l \in 1..(Len(fEntries) - 1) : fEntries[k + 1].file = fEntries[l + 1].file => k + 1 = l + 1
    BY <1>2, <1>4, <2>1
  <2>5. \A k, l \in DOMAIN Tail(fEntries) :
                  Tail(fEntries)[k].file = Tail(fEntries)[l].file => k = l
    BY <1>2, <2>4
  <2> QED BY <2>3, <2>5
<1> QED BY <1>2, <1>3, <1>5, <1>6

\* The steps of the loop that leave the memory and the server alone.
LEMMA PollMemorySame ==
  ASSUME PollMemory, UNCHANGED <<fKind, fDir, fCancelled, fSeen, fSeenOrder, fWhole, fRepeated>>
  PROVE  PollMemory'
  BY DEF PollMemory

\* Versions stay in order when the list of entries gets shorter.
LEMMA VersionsKept ==
  ASSUME PollType, PollVersions, UNCHANGED <<fDir, fSeen, fWrites>>,
         \/ fEntries' \in {fEntries, <<>>}
         \/ fEntries # <<>> /\ fEntries' = Tail(fEntries)
  PROVE  PollVersions' /\ fEntries' \in Seq(Entry)
<1>1. CASE fEntries' = fEntries
  BY <1>1 DEF PollVersions, PollType
<1>2. CASE fEntries' = <<>>
  <2>1. Items(fEntries') = {} /\ DOMAIN fEntries' = {} /\ fEntries' \in Seq(Entry)
    BY <1>2 DEF Items
  <2> QED BY <2>1 DEF PollVersions
<1>3. CASE fEntries # <<>> /\ fEntries' = Tail(fEntries)
  <2>1. /\ fEntries' \in Seq(Entry) /\ Items(fEntries') \subseteq Items(fEntries)
        /\ \A k, l \in DOMAIN fEntries' : fEntries'[k].file = fEntries'[l].file => k = l
    BY <1>3, FirstEntry
  <2> QED BY <2>1 DEF PollVersions
<1> QED BY <1>1, <1>2, <1>3

\* The steps of the loop between the files.
LEMMA PollLoop ==
  ASSUME PollInv, \/ Poll!Start \/ Poll!Fails \/ Poll!NextFile \/ Poll!StreamEnds \/ Poll!Tick
                  \/ Poll!StartReturns
  PROVE  PollInv'
<1>1. PollType /\ PollVersions /\ PollStream /\ PollMemory
  BY DEF PollInv
<1>2. UNCHANGED <<fKind, fDir, fCancelled, fSeen, fSeenOrder, fWhole, fRepeated, fOut, fWrites>>
  BY DEF Poll!Start, Poll!Fails, Poll!NextFile, Poll!StreamEnds, Poll!Tick, Poll!StartReturns,
         Poll!memory, Poll!history, Poll!bounds
<1>3. PollMemory'
  BY <1>1, <1>2, PollMemorySame
<1>4. /\ \/ fEntries' \in {fEntries, <<>>}
         \/ fEntries # <<>> /\ fEntries' = Tail(fEntries)
      /\ fOffset' \in {fOffset, 0}
      /\ fPoller' \in {"scan", "next", "open", "mark", "wait", "ended"}
  BY DEF Poll!Start, Poll!Fails, Poll!NextFile, Poll!StreamEnds, Poll!Tick, Poll!StartReturns,
         Poll!ScanError, Poll!scan
<1>5. PollVersions' /\ fEntries' \in Seq(Entry)
  BY <1>1, <1>2, <1>4, VersionsKept
<1>6. PollType'
  BY <1>1, <1>2, <1>4, <1>5 DEF PollType
<1>7. PollStream'
  <2>1. CASE Poll!Start \/ Poll!Fails \/ Poll!Tick \/ Poll!StartReturns
    <3>1. fPoller' \in {"scan", "wait", "ended"} /\ fOffset' = 0
      BY <1>1, <2>1 DEF Poll!Start, Poll!Fails, Poll!Tick, Poll!StartReturns, Poll!ScanError,
         Poll!scan, PollStream
    <3> QED BY <3>1 DEF PollStream
  <2>2. CASE Poll!NextFile
    <3>1. fOffset' = 0 /\ fPoller' \in {"next", "wait", "open"}
      BY <1>1, <2>2 DEF Poll!NextFile, PollStream
    <3>2. fPoller' = "open" => /\ fEntries' = fEntries /\ fEntries # <<>>
                               /\ fSeen[Head(fEntries).file] # Head(fEntries).ver
      BY <2>2 DEF Poll!NextFile
    <3> QED BY <1>2, <3>1, <3>2 DEF PollStream
  <2>3. CASE Poll!StreamEnds
    <3> DEFINE e == Head(fEntries)
    <3>1. /\ fPoller = "stream" /\ fPoller' = "mark" /\ fEntries' = fEntries /\ fOffset' = fOffset
          /\ fCancelled \/ fOffset >= fDir[e.file].size
      BY <2>3 DEF Poll!StreamEnds, Poll!scan
    <3>2. fEntries # <<>> /\ fSeen[e.file] # e.ver
      BY <1>1, <3>1 DEF PollStream
    <3>3. e \in Items(fEntries) /\ e \in Entry
      BY <1>1, <3>2, FirstEntry
    <3>4. fDir[e.file].ver = e.ver => /\ fOffset <= e.size /\ fDir[e.file].size = e.size
                                      /\ fOut[e.file] = First(e, fOffset)
      BY <1>1, <3>1, <3>3 DEF PollStream, PollVersions
    <3>5. e.size \in Nat /\ fOffset \in Nat
      BY <1>1, <3>3 DEF Entry, PollType
    <3> HIDE DEF e
    <3>6. fDir[e.file].ver = e.ver /\ ~fCancelled => fOffset = e.size
      BY <3>1, <3>4, <3>5
    <3>7. Head(fEntries) = e
      BY DEF e
    <3> QED BY <1>2, <3>1, <3>2, <3>4, <3>6, <3>7 DEF PollStream, First
  <2> QED BY <2>1, <2>2, <2>3
<1> QED BY <1>3, <1>5, <1>6, <1>7 DEF PollInv

\* The cardinality the module of the receivers knows is the one of the theorems.
LEMMA PollCardinality == \A S : Poll!Cardinality(S) = Cardinality(S)
  BY DEF Poll!Cardinality, Cardinality

\* A scan lists the files that are there, each once and in its present version.
LEMMA PollList ==
  ASSUME PollInv, Poll!List
  PROVE  PollInv'
<1>1. PollType /\ PollVersions /\ PollStream /\ PollMemory
  BY DEF PollInv
<1>2. /\ fPoller = "scan" /\ fPoller' = "next"
      /\ UNCHANGED <<fKind, fDir, fCancelled, fOffset, fSeen, fSeenOrder, fWhole, fRepeated, fOut,
                     fWrites>>
  BY DEF Poll!List, Poll!memory, Poll!history, Poll!bounds
<1> DEFINE listed == {f \in Poll!Files : fDir[f].ver # 0}
<1>3. PICK names \in [1..Poll!Cardinality(listed) -> listed] :
        /\ \A k, l \in DOMAIN names : k < l => names[k] < names[l]
        /\ fEntries' = [k \in DOMAIN names |-> [file |-> names[k], ver |-> fDir[names[k]].ver,
                                                size |-> fDir[names[k]].size]]
  BY DEF Poll!List
<1>4. IsFiniteSet(listed)
  <2>1. IsFiniteSet(Poll!Files)
    BY FileAssumption, FS_Interval DEF Poll!Files
  <2> QED BY <2>1, FS_Subset
<1>5. PICK n \in Nat : n = Poll!Cardinality(listed)
  BY <1>4, FS_CardinalityType, PollCardinality
<1> HIDE DEF listed
<1>6. DOMAIN names = 1..n /\ DOMAIN fEntries' = 1..n
  BY <1>3, <1>5
<1>7. \A k \in 1..n : /\ names[k] \in Poll!Files /\ fDir[names[k]].ver # 0
                      /\ fDir[names[k]].ver \in Nat /\ fDir[names[k]].size \in Nat
  <2>1. \A k \in 1..n : names[k] \in listed
    BY <1>3, <1>5
  <2> QED BY <1>1, <2>1 DEF listed, PollType
<1>8. \A k \in 1..n : /\ fEntries'[k] \in Entry /\ fEntries'[k].file = names[k]
                      /\ fEntries'[k].ver = fDir[names[k]].ver
                      /\ fEntries'[k].size = fDir[names[k]].size
  BY <1>3, <1>6, <1>7 DEF Entry
<1>9. fEntries' \in Seq(Entry)
  <2>1. fEntries' = [k \in 1..n |-> fEntries'[k]]
    BY <1>3, <1>6
  <2> QED BY <1>5, <1>8, <2>1, IsASeq
<1>10. \A k, l \in DOMAIN fEntries' : fEntries'[k].file = fEntries'[l].file => k = l
  <2> SUFFICES ASSUME NEW k \in 1..n, NEW l \in 1..n, names[k] = names[l], k # l PROVE FALSE
    BY <1>6, <1>8
  <2>1. names[k] \in Int /\ names[l] \in Int
    BY <1>7, FileAssumption DEF Poll!Files
  <2>2. k < l \/ l < k
    OBVIOUS
  <2> QED BY <1>3, <1>6, <2>1, <2>2
<1>11. PollVersions'
  <2>1. \A e \in Items(fEntries') : /\ e.file \in Poll!Files /\ e.ver = fDir[e.file].ver
                                    /\ e.size = fDir[e.file].size /\ e.ver # 0
    BY <1>6, <1>7, <1>8 DEF Items
  <2>2. \A f \in Poll!Files : fDir[f].ver \in Nat
    BY <1>1 DEF PollType
  <2>3. \A f \in Poll!Files :
       /\ fDir'[f].ver <= fWrites' + 1 /\ fSeen'[f] <= fWrites' + 1
       /\ fDir'[f].ver # 0 => fSeen'[f] <= fDir'[f].ver
    BY <1>1, <1>2 DEF PollVersions
  <2>4. \A e \in Items(fEntries') :
       /\ e.ver <= fWrites' + 1 /\ fSeen'[e.file] <= e.ver
       /\ fDir'[e.file].ver # 0 => e.ver <= fDir'[e.file].ver
       /\ fDir'[e.file].ver = e.ver => fDir'[e.file].size = e.size
    BY <1>2, <2>1, <2>2, <2>3
  <2> QED BY <1>10, <2>3, <2>4 DEF PollVersions
<1>12. PollType'
  BY <1>1, <1>2, <1>9 DEF PollType
<1>13. PollStream'
  BY <1>1, <1>2 DEF PollStream
<1>14. PollMemory'
  BY <1>1, <1>2, PollMemorySame
<1> QED BY <1>11, <1>12, <1>13, <1>14 DEF PollInv

\* A stream goes on by one chunk.
LEMMA PollReads ==
  ASSUME PollInv, Poll!Open \/ Poll!Read
  PROVE  PollInv'
<1> DEFINE e == Head(fEntries)
<1>1. PollType /\ PollVersions /\ PollStream /\ PollMemory
  BY DEF PollInv
<1>2. /\ fPoller \in {"open", "stream"}
      /\ UNCHANGED <<fKind, fDir, fCancelled, fSeen, fSeenOrder, fWhole, fRepeated, fWrites>>
  BY DEF Poll!Open, Poll!Read, Poll!memory, Poll!bounds
<1>3. fEntries # <<>> /\ fSeen[e.file] # e.ver
  BY <1>1, <1>2 DEF PollStream
<1>4. e \in Items(fEntries) /\ e \in Entry /\ e.file \in Poll!Files /\ e.ver \in Nat /\ e.size \in Nat
  BY <1>1, <1>3, FirstEntry DEF Entry
<1>5. fDir[e.file].ver = e.ver => fDir[e.file].size = e.size
  BY <1>1, <1>4 DEF PollVersions
<1>6. PollMemory'
  BY <1>1, <1>2, PollMemorySame
<1>7. CASE Poll!Open
  <2>1. /\ fPoller = "open" /\ fOffset' = fOffset
        /\ \/ fDir[e.file].ver # 0 /\ fPoller' = "stream" /\ fEntries' = fEntries
           \/ fDir[e.file].ver = 0 /\ fPoller' = "wait" /\ fEntries' = <<>>
        /\ fOut' = [fOut EXCEPT ![e.file] = <<>>]
    BY <1>7 DEF Poll!Open, Poll!ScanError
  <2>2. fOffset' = 0
    BY <1>1, <2>1 DEF PollStream
  <2>3. PollVersions' /\ fEntries' \in Seq(Entry)
    BY <1>1, <1>2, <1>3, <2>1, VersionsKept
  <2>4. fOut' \in [Poll!Files -> Seq(Chunk)] /\ fOut'[e.file] = <<>>
    <3>1. <<>> \in Seq(Chunk)
      OBVIOUS
    <3> QED BY <1>1, <1>4, <2>1, <3>1 DEF PollType
  <2>5. PollType'
    BY <1>1, <1>2, <2>1, <2>2, <2>3, <2>4 DEF PollType
  <2>6. First(e, 0) = <<>>
    BY DEF First
  <2> HIDE DEF e
  <2>7. Head(fEntries) = e
    BY DEF e
  <2>8. PollStream'
    <3>1. CASE fPoller' = "wait"
      BY <2>2, <3>1 DEF PollStream
    <3>2. CASE fPoller' = "stream" /\ fEntries' = fEntries
      <4>1. Head(fEntries') = e
        BY <2>7, <3>2
      <4>2. 0 <= e.size /\ fOut'[e.file] = First(e, 0)
        BY <1>4, <2>4, <2>6
      <4> QED BY <1>2, <1>3, <2>2, <3>2, <4>1, <4>2 DEF PollStream, First
    <3> QED BY <2>1, <3>1, <3>2
  <2> QED BY <1>6, <2>3, <2>5, <2>8 DEF PollInv
<1>8. CASE Poll!Read
  <2> DEFINE chunk(end) == [ver |-> fDir[e.file].ver, offset |-> fOffset,
                            eof |-> end \/ fOffset + 1 >= e.size]
  <2>1. /\ fPoller = "stream" /\ ~fCancelled /\ fOffset < fDir[e.file].size
        /\ fOffset' = fOffset + 1 /\ fEntries' = fEntries
    BY <1>8 DEF Poll!Read
  <2>2. PICK end \in {FALSE, fOffset + 1 = fDir[e.file].size} :
          /\ fOut' = [fOut EXCEPT ![e.file] = Append(@, chunk(end))]
          /\ fPoller' = IF end THEN "mark" ELSE "stream"
    BY <1>8 DEF Poll!Read, Poll!fileChunkEOF
  <2>3. /\ fOffset \in Nat /\ fDir[e.file].ver \in Nat /\ fDir[e.file].size \in Nat
        /\ fOut[e.file] \in Seq(Chunk)
    BY <1>1, <1>4 DEF PollType
  <2>4. end \in BOOLEAN /\ chunk(end) \in Chunk
    BY <2>2, <2>3 DEF Chunk
  <2>5. /\ fOut'[e.file] = Append(fOut[e.file], chunk(end))
        /\ fOut' \in [Poll!Files -> Seq(Chunk)]
    <3>1. Append(fOut[e.file], chunk(end)) \in Seq(Chunk)
      BY <2>3, <2>4
    <3> QED BY <1>1, <1>4, <2>2, <3>1 DEF PollType
  <2>6. PollVersions' /\ fEntries' \in Seq(Entry)
    BY <1>1, <1>2, <2>1, VersionsKept
  <2>7. PollType'
    BY <1>1, <1>2, <2>1, <2>2, <2>3, <2>5, <2>6 DEF PollType
  <2>8. ASSUME fDir[e.file].ver = e.ver
        PROVE  /\ fOffset + 1 <= e.size
               /\ Append(fOut[e.file], chunk(end)) = First(e, fOffset + 1)
               /\ end => fOffset + 1 = e.size
    <3>1. fDir[e.file].size = e.size /\ fOut[e.file] = First(e, fOffset)
      BY <1>1, <1>5, <2>1, <2>8 DEF PollStream
    <3>2. fOffset + 1 <= e.size /\ (end => fOffset + 1 = e.size)
      <4>1. fOffset + 1 <= e.size
        BY <1>4, <2>1, <2>3, <3>1
      <4>2. end = FALSE \/ end = (fOffset + 1 = fDir[e.file].size)
        BY <2>2
      <4>3. end => fOffset + 1 = fDir[e.file].size
        BY <4>2
      <4> QED BY <3>1, <4>1, <4>3
    <3>3. (end \/ fOffset + 1 >= e.size) = (fOffset + 1 = e.size)
      BY <1>4, <2>3, <2>4, <3>2
    <3>4. chunk(end) = [ver |-> e.ver, offset |-> fOffset, eof |-> fOffset + 1 = e.size]
      BY <2>8, <3>3
    <3> HIDE DEF e, chunk
    <3>5. Append(First(e, fOffset), chunk(end)) = First(e, fOffset + 1)
      BY <2>3, <3>4 DEF First
    <3> QED BY <3>1, <3>2, <3>5
  <2> HIDE DEF e, chunk
  <2>9. Head(fEntries) = e /\ Head(fEntries') = e
    BY <2>1 DEF e
  <2>10. PollStream'
    <3>1. fPoller' \in {"stream", "mark"} /\ (fPoller' = "mark" => end)
      BY <2>2, <2>4
    <3>2. fDir[e.file].ver = e.ver =>
            /\ fOffset' <= e.size /\ fOut'[e.file] = First(e, fOffset')
            /\ fPoller' = "mark" => fOffset' = e.size
      BY <2>1, <2>5, <2>8, <3>1
    <3> QED BY <1>2, <1>3, <2>1, <2>9, <3>1, <3>2 DEF PollStream, First
  <2> QED BY <1>6, <2>6, <2>7, <2>10 DEF PollInv
<1> QED BY <1>7, <1>8

\* What an OSS receiver remembers of the files, and in which order.
Recalls(seen, order) ==
  /\ Items(order) = {f \in Poll!Files : seen[f] # 0}
  /\ Distinct(order) /\ Len(order) <= SeenLimit

\* Remembering a file forgets others only beyond the limit.
LEMMA RememberEffect ==
  ASSUME PollType, fKind = "oss" => Recalls(fSeen, fSeenOrder),
         NEW f \in Poll!Files, NEW ver \in Nat \ {0}, Poll!Remembered(f, ver)
  PROVE  /\ fSeen' \in [Poll!Files -> Nat] /\ fSeenOrder' \in Seq(Poll!Files)
         /\ \A g \in Poll!Files : fSeen'[g] \in {IF g = f THEN ver ELSE fSeen[g], 0}
         /\ fKind = "sftp" \/ NumFiles <= SeenLimit => fSeen' = [fSeen EXCEPT ![f] = ver]
         /\ fKind = "oss" => Recalls(fSeen', fSeenOrder')
<1> DEFINE all == [fSeen EXCEPT ![f] = ver]
           order == IF fSeen[f] = 0 THEN Append(fSeenOrder, f) ELSE fSeenOrder
           known == {g \in Poll!Files : all[g] # 0}
           full == fKind = "oss" /\ Cardinality(known) > SeenLimit
<1>1. /\ fSeen' = IF full THEN [all EXCEPT ![Head(order)] = 0] ELSE all
      /\ fSeenOrder' = IF fKind = "sftp" THEN fSeenOrder ELSE IF full THEN Tail(order) ELSE order
  BY PollCardinality DEF Poll!Remembered, Poll!Queued
<1>2. /\ all \in [Poll!Files -> Nat] /\ all[f] = ver
      /\ \A g \in Poll!Files : g # f => all[g] = fSeen[g]
  BY DEF PollType
<1>3. IsFiniteSet(known) /\ Cardinality(known) \in Nat /\ Cardinality(known) <= NumFiles
  <2>1. IsFiniteSet(Poll!Files) /\ Cardinality(Poll!Files) = NumFiles
    BY FileAssumption, FS_Interval DEF Poll!Files
  <2>2. IsFiniteSet(known) /\ Cardinality(known) <= Cardinality(Poll!Files)
    BY <2>1, FS_Subset
  <2> QED BY <2>1, <2>2, FS_CardinalityType
<1>4. fSeenOrder \in Seq(Poll!Files) /\ fKind \in {"sftp", "oss"} /\ fSeen \in [Poll!Files -> Nat]
  BY DEF PollType
<1>5. fKind = "oss" => /\ order \in Seq(Poll!Files) /\ Distinct(order)
                       /\ \A g \in Poll!Files : g \in Items(order) <=> g \in known
                       /\ Len(order) <= SeenLimit + 1
  <2> SUFFICES ASSUME fKind = "oss"
               PROVE  /\ order \in Seq(Poll!Files) /\ Distinct(order)
                      /\ \A g \in Poll!Files : g \in Items(order) <=> g \in known
                      /\ Len(order) <= SeenLimit + 1
    OBVIOUS
  <2>1. /\ Items(fSeenOrder) = {g \in Poll!Files : fSeen[g] # 0}
        /\ Distinct(fSeenOrder) /\ Len(fSeenOrder) <= SeenLimit /\ Len(fSeenOrder) \in Nat
    BY <1>4 DEF Recalls
  <2>2. CASE fSeen[f] = 0
    <3>1. f \notin Items(fSeenOrder)
      BY <2>1, <2>2
    <3>2. /\ Append(fSeenOrder, f) \in Seq(Poll!Files) /\ Distinct(Append(fSeenOrder, f))
          /\ \A g : g \in Items(Append(fSeenOrder, f)) <=> g \in Items(fSeenOrder) \/ g = f
      BY <1>4, <2>1, <3>1, AppendItems
    <3>3. Len(Append(fSeenOrder, f)) = Len(fSeenOrder) + 1
      BY <1>4
    <3> QED BY <1>2, <2>1, <2>2, <3>2, <3>3, FileAssumption
  <2>3. CASE fSeen[f] # 0
    BY <1>2, <1>4, <2>1, <2>3, FileAssumption
  <2> QED BY <2>2, <2>3
<1> HIDE DEF all, order
<1>6. CASE ~full
  <2>1. fSeen' = all /\ (fKind = "sftp" => fSeenOrder' = fSeenOrder) /\ (fKind = "oss" => fSeenOrder' = order)
    BY <1>1, <1>6
  <2>2. fKind = "oss" => Recalls(all, order)
    <3> SUFFICES ASSUME fKind = "oss" PROVE Recalls(all, order)
      OBVIOUS
    <3>0. order \in Seq(Poll!Files) /\ Distinct(order)
      BY <1>5
    <3>1. Items(order) \subseteq Poll!Files /\ Cardinality(Items(order)) = Len(order)
      <4>1. Items(order) \subseteq Poll!Files
        BY <3>0 DEF Items
      <4> QED BY <3>0, <4>1, CountItems
    <3>2. Items(order) = known
      BY <1>5, <3>1
    <3>3. Cardinality(known) <= SeenLimit
      BY <1>3, <1>6, FileAssumption
    <3> QED BY <1>5, <3>1, <3>2, <3>3 DEF Recalls
  <2> QED BY <1>2, <1>4, <1>5, <2>1, <2>2 DEF all
<1>7. CASE full
  <2>1. fKind = "oss" /\ Cardinality(known) > SeenLimit
    BY <1>7
  <2>2. fSeen' = [all EXCEPT ![Head(order)] = 0] /\ fSeenOrder' = Tail(order)
    BY <1>1, <1>7, <2>1
  <2>3. Items(order) \subseteq Poll!Files /\ Cardinality(Items(order)) = Len(order)
    <3>1. order \in Seq(Poll!Files) /\ Distinct(order)
      BY <1>5, <2>1
    <3>2. Items(order) \subseteq Poll!Files
      BY <3>1 DEF Items
    <3> QED BY <3>1, <3>2, CountItems
  <2>4. Items(order) = known
    BY <1>5, <2>1, <2>3
  <2>5. Len(order) \in Nat /\ Len(order) > SeenLimit /\ order # <<>> /\ order \in Seq(Poll!Files)
    BY <1>5, <2>1, <2>3, <2>4, FileAssumption
  <2>6. /\ Tail(order) \in Seq(Poll!Files) /\ Distinct(Tail(order)) /\ Head(order) \in Poll!Files
        /\ Head(order) \notin Items(Tail(order))
        /\ \A g : g \in Items(order) <=> g \in Items(Tail(order)) \/ g = Head(order)
    BY <1>5, <2>1, <2>5, TailItems
  <2>7. Len(Tail(order)) = Len(order) - 1
    BY <2>5
  <2>8. /\ fSeen' \in [Poll!Files -> Nat] /\ fSeen'[Head(order)] = 0
        /\ \A g \in Poll!Files : g # Head(order) => fSeen'[g] = all[g]
    BY <1>2, <2>2, <2>6
  <2>9. \A g \in Items(Tail(order)) : g \in Poll!Files /\ fSeen'[g] # 0
    BY <2>3, <2>4, <2>6, <2>8
  <2>10. \A g \in Poll!Files : fSeen'[g] # 0 => g \in Items(Tail(order))
    BY <2>4, <2>6, <2>8
  <2>11. Len(Tail(order)) <= SeenLimit
    BY <1>5, <2>1, <2>5, <2>7, FileAssumption
  <2>12. Recalls(fSeen', fSeenOrder')
    BY <2>2, <2>6, <2>9, <2>10, <2>11 DEF Recalls
  <2>13. \A g \in Poll!Files : fSeen'[g] \in {IF g = f THEN ver ELSE fSeen[g], 0}
    BY <1>2, <2>8
  <2>14. ~(fKind = "sftp" \/ NumFiles <= SeenLimit)
    BY <1>3, <2>1, FileAssumption
  <2> QED BY <2>2, <2>6, <2>8, <2>12, <2>13, <2>14
<1> QED BY <1>6, <1>7

\* markSeen: the only step that writes to the memory.
LEMMA PollMarks ==
  ASSUME PollInv, Poll!markSeen
  PROVE  PollInv'
<1> DEFINE e == Head(fEntries)
           f == e.file
<1>1. PollType /\ PollVersions /\ PollStream /\ PollMemory
  BY DEF PollInv
<1>2. /\ fPoller = "mark" /\ fPoller' = "next" /\ fEntries' = Tail(fEntries) /\ fOffset' = 0
      /\ Poll!Remembered(f, e.ver)
      /\ \/ /\ fOut[f] = Poll!Complete(e.ver, e.size)
            /\ fRepeated' = IF fWhole[f] = e.ver THEN fRepeated \cup {f} ELSE fRepeated
            /\ fWhole' = [fWhole EXCEPT ![f] = e.ver]
         \/ /\ fOut[f] # Poll!Complete(e.ver, e.size)
            /\ UNCHANGED <<fWhole, fRepeated>>
      /\ UNCHANGED <<fKind, fDir, fCancelled, fOut, fWrites>>
  BY DEF Poll!markSeen, Poll!bounds
<1>3. fEntries # <<>> /\ fSeen[f] # e.ver
  BY <1>1, <1>2 DEF PollStream
<1>4. /\ e \in Items(fEntries) /\ f \in Poll!Files /\ e.ver \in Nat \ {0} /\ e.size \in Nat
      /\ Tail(fEntries) \in Seq(Entry)
      /\ Items(Tail(fEntries)) \subseteq Items(fEntries)
      /\ \A x \in Items(Tail(fEntries)) : x.file # f
      /\ \A k, l \in DOMAIN Tail(fEntries) : Tail(fEntries)[k].file = Tail(fEntries)[l].file => k = l
  BY <1>1, <1>3, FirstEntry DEF Entry
<1>5. /\ e.ver <= fWrites + 1 /\ fSeen[f] <= e.ver
      /\ fDir[f].ver # 0 => e.ver <= fDir[f].ver
  BY <1>1, <1>4 DEF PollVersions
<1>6. /\ fDir[f].ver = e.ver /\ ~fCancelled => fOut[f] = First(e, e.size)
  BY <1>1, <1>2 DEF PollStream
<1>7. First(e, e.size) = Poll!Complete(e.ver, e.size)
  BY DEF First, Poll!Complete
<1> HIDE DEF e, f
<1>8. /\ fSeen' \in [Poll!Files -> Nat] /\ fSeenOrder' \in Seq(Poll!Files)
      /\ \A g \in Poll!Files : fSeen'[g] \in {IF g = f THEN e.ver ELSE fSeen[g], 0}
      /\ fKind = "sftp" \/ NumFiles <= SeenLimit => fSeen' = [fSeen EXCEPT ![f] = e.ver]
      /\ fKind = "oss" => Recalls(fSeen', fSeenOrder')
  <2>1. fKind = "oss" => Recalls(fSeen, fSeenOrder)
    BY <1>1 DEF PollMemory, Recalls
  <2> QED BY <1>1, <1>2, <1>4, <2>1, RememberEffect
<1>9. /\ fSeen \in [Poll!Files -> Nat] /\ fWhole \in [Poll!Files -> Nat] /\ fWrites \in Nat
      /\ \A g \in Poll!Files : fDir[g].ver \in Nat
  BY <1>1 DEF PollType
<1>10. /\ fWhole' \in [Poll!Files -> Nat]
       /\ \A g \in Poll!Files : g # f => fWhole'[g] = fWhole[g]
       /\ fWhole'[f] \in {fWhole[f], e.ver}
  BY <1>2, <1>4, <1>9
<1>11. PollType'
  BY <1>1, <1>2, <1>4, <1>8, <1>10 DEF PollType
<1>12. PollVersions'
  <2>1. \A g \in Poll!Files :
       /\ fDir'[g].ver <= fWrites' + 1 /\ fSeen'[g] <= fWrites' + 1
       /\ fDir'[g].ver # 0 => fSeen'[g] <= fDir'[g].ver
    <3> SUFFICES ASSUME NEW g \in Poll!Files
                 PROVE  /\ fDir[g].ver <= fWrites + 1 /\ fSeen'[g] <= fWrites + 1
                        /\ fDir[g].ver # 0 => fSeen'[g] <= fDir[g].ver
      BY <1>2
    <3>1. /\ fDir[g].ver <= fWrites + 1 /\ fSeen[g] <= fWrites + 1
          /\ fDir[g].ver # 0 => fSeen[g] <= fDir[g].ver
      BY <1>1 DEF PollVersions
    <3>2. CASE g = f
      BY <1>5, <1>8, <1>9, <3>1, <3>2
    <3>3. CASE g # f
      <4>1. fSeen'[g] = fSeen[g] \/ fSeen'[g] = 0
        BY <1>8, <3>3
      <4>2. fSeen[g] \in Nat /\ fDir[g].ver \in Nat /\ fWrites \in Nat
        BY <1>9
      <4> QED BY <3>1, <4>1, <4>2
    <3> QED BY <3>2, <3>3
  <2>2. \A x \in Items(fEntries') :
       /\ x.ver <= fWrites' + 1 /\ fSeen'[x.file] <= x.ver
       /\ fDir'[x.file].ver # 0 => x.ver <= fDir'[x.file].ver
       /\ fDir'[x.file].ver = x.ver => fDir'[x.file].size = x.size
    <3> SUFFICES ASSUME NEW x \in Items(Tail(fEntries))
                 PROVE  /\ x.ver <= fWrites + 1 /\ fSeen'[x.file] <= x.ver
                        /\ fDir[x.file].ver # 0 => x.ver <= fDir[x.file].ver
                        /\ fDir[x.file].ver = x.ver => fDir[x.file].size = x.size
      BY <1>2
    <3>1. x.file # f /\ x \in Items(fEntries)
      BY <1>4
    <3>2. x.file \in Poll!Files /\ x.ver \in Nat
      <4>1. \A y \in Items(fEntries) : y \in Entry
        BY <1>1 DEF PollType, Items
      <4> QED BY <3>1, <4>1 DEF Entry
    <3>3. fSeen'[x.file] \in {fSeen[x.file], 0}
      BY <1>8, <3>1, <3>2
    <3>4. /\ x.ver <= fWrites + 1 /\ fSeen[x.file] <= x.ver
          /\ fDir[x.file].ver # 0 => x.ver <= fDir[x.file].ver
          /\ fDir[x.file].ver = x.ver => fDir[x.file].size = x.size
      BY <1>1, <3>1 DEF PollVersions
    <3> QED BY <3>2, <3>3, <3>4
  <2> QED BY <1>2, <1>4, <2>1, <2>2 DEF PollVersions
<1>13. PollStream'
  BY <1>2 DEF PollStream
<1>14. PollMemory'
  <2>1. \A g \in Poll!Files :
       ~fCancelled' /\ fDir'[g].ver # 0 /\ fSeen'[g] = fDir'[g].ver => fWhole'[g] = fDir'[g].ver
    <3> SUFFICES ASSUME NEW g \in Poll!Files, ~fCancelled, fDir[g].ver # 0, fSeen'[g] = fDir[g].ver
                 PROVE  fWhole'[g] = fDir[g].ver
      BY <1>2
    <3>1. CASE g = f
      <4>1. fDir[f].ver = e.ver
        BY <1>8, <3>1
      <4>2. fOut[f] = Poll!Complete(e.ver, e.size)
        BY <1>6, <1>7, <4>1
      <4>3. fWhole' = [fWhole EXCEPT ![f] = e.ver]
        BY <1>2, <4>2
      <4> QED BY <1>4, <1>9, <3>1, <4>1, <4>3
    <3>2. CASE g # f
      <4>1. fSeen'[g] = fSeen[g]
        BY <1>8, <3>2
      <4>2. fWhole[g] = fDir[g].ver
        BY <1>1, <4>1 DEF PollMemory
      <4> QED BY <1>10, <3>2, <4>2
    <3> QED BY <3>1, <3>2
  <2>2. fKind' = "oss" =>
       /\ Items(fSeenOrder') = {g \in Poll!Files : fSeen'[g] # 0}
       /\ Distinct(fSeenOrder') /\ Len(fSeenOrder') <= SeenLimit
    BY <1>2, <1>8 DEF Recalls
  <2>3. ASSUME fKind' = "sftp" \/ NumFiles <= SeenLimit
        PROVE  fRepeated' = {} /\ \A g \in Poll!Files : fWhole'[g] <= fSeen'[g]
    <3>1. fRepeated = {} /\ \A g \in Poll!Files : fWhole[g] <= fSeen[g]
      BY <1>1, <1>2, <2>3 DEF PollMemory
    <3>2. fSeen' = [fSeen EXCEPT ![f] = e.ver]
      BY <1>2, <1>8, <2>3
    <3>3. fWhole[f] <= fSeen[f] /\ fSeen[f] <= e.ver /\ fSeen[f] # e.ver /\ fWhole[f] \in Nat /\ fSeen[f] \in Nat
      BY <1>3, <1>4, <1>5, <1>9, <3>1
    <3>4. fWhole[f] # e.ver /\ fWhole[f] <= e.ver
      BY <1>4, <3>3
    <3>5. fRepeated' = {}
      BY <1>2, <3>1, <3>4
    <3>6. \A g \in Poll!Files : fWhole'[g] <= fSeen'[g]
      BY <1>4, <1>9, <1>10, <3>1, <3>2, <3>4
    <3> QED BY <3>5, <3>6
  <2> QED BY <2>1, <2>2, <2>3 DEF PollMemory
<1> QED BY <1>11, <1>12, <1>13, <1>14 DEF PollInv

\* Stop cancels the loop.
LEMMA PollStops ==
  ASSUME PollInv, Poll!Stop \/ Poll!StopReturns \/ Poll!StopTimesOut
  PROVE  PollInv'
<1>1. PollType /\ PollVersions /\ PollStream /\ PollMemory
  BY DEF PollInv
<1>2. /\ UNCHANGED <<fKind, fDir, fPoller, fEntries, fOffset, fSeen, fSeenOrder, fOut, fWhole, fRepeated,
                     fWrites>>
      /\ fCancelled' \in {fCancelled, TRUE}
  BY DEF Poll!Stop, Poll!StopReturns, Poll!StopTimesOut, Poll!scan, Poll!memory, Poll!history, Poll!bounds
<1>3. PollType'
  <2>1. fCancelled' \in BOOLEAN
    BY <1>1, <1>2 DEF PollType
  <2> QED BY <1>1, <1>2, <2>1 DEF PollType
<1>4. fCancelled => fCancelled'
  BY <1>2
<1>5. PollVersions'
  BY <1>1, <1>2 DEF PollVersions
<1>6. PollStream'
  BY <1>1, <1>2, <1>4 DEF PollStream, First
<1>7. PollMemory'
  BY <1>1, <1>2, <1>4 DEF PollMemory
<1> QED BY <1>3, <1>5, <1>6, <1>7 DEF PollInv

\* A file is written or deleted.
LEMMA PollServer ==
  ASSUME PollInv, NEW f \in Poll!Files,
         Poll!DeleteFile(f) \/ \E size \in 0..MaxSize : Poll!WriteFile(f, size)
  PROVE  PollInv'
<1>1. PollType /\ PollVersions /\ PollStream /\ PollMemory
  BY DEF PollInv
<1>2. /\ UNCHANGED <<fKind, fPoller, fCancelled, fEntries, fOffset, fSeen, fSeenOrder, fOut, fWhole,
                     fRepeated>>
      /\ fWrites' = fWrites + 1
  BY DEF Poll!DeleteFile, Poll!WriteFile, Poll!scan, Poll!memory, Poll!history
<1>3. PICK v \in {0, fWrites + 2}, z \in Nat : fDir' = [fDir EXCEPT ![f] = [ver |-> v, size |-> z]]
  BY FileAssumption DEF Poll!DeleteFile, Poll!WriteFile
<1>4. /\ fWrites \in Nat /\ \A g \in Poll!Files : fSeen[g] \in Nat /\ fDir[g].ver \in Nat
  BY <1>1 DEF PollType
<1>5. /\ fDir' \in [Poll!Files -> [ver : Nat, size : Nat]]
      /\ fDir'[f].ver = v /\ \A g \in Poll!Files : g # f => fDir'[g] = fDir[g]
  BY <1>1, <1>3, <1>4 DEF PollType
<1>6. PollType'
  BY <1>1, <1>2, <1>4, <1>5 DEF PollType
<1>7. \A e \in Items(fEntries) : e \in Entry
  BY <1>1 DEF PollType, Items
<1>8. \A e \in Items(fEntries) : e.file = f => fDir'[f].ver # e.ver
  <2> SUFFICES ASSUME NEW e \in Items(fEntries) PROVE v # e.ver
    BY <1>5
  <2>1. e.ver <= fWrites + 1 /\ e.ver \in Nat \ {0}
    BY <1>1, <1>7 DEF PollVersions, Entry
  <2> QED BY <1>4, <2>1
<1>9. PollVersions'
  <2>1. \A g \in Poll!Files :
       /\ fDir'[g].ver <= fWrites' + 1 /\ fSeen'[g] <= fWrites' + 1
       /\ fDir'[g].ver # 0 => fSeen'[g] <= fDir'[g].ver
    <3> SUFFICES ASSUME NEW g \in Poll!Files
                 PROVE  /\ fDir'[g].ver <= fWrites' + 1 /\ fSeen'[g] <= fWrites' + 1
                        /\ fDir'[g].ver # 0 => fSeen'[g] <= fDir'[g].ver
      OBVIOUS
    <3>1. /\ fDir[g].ver <= fWrites + 1 /\ fSeen[g] <= fWrites + 1
          /\ fDir[g].ver # 0 => fSeen[g] <= fDir[g].ver
      BY <1>1 DEF PollVersions
    <3>2. CASE g = f
      BY <1>2, <1>4, <1>5, <3>1, <3>2
    <3>3. CASE g # f
      BY <1>2, <1>4, <1>5, <3>1, <3>3
    <3> QED BY <3>2, <3>3
  <2>2. ASSUME NEW e \in Items(fEntries)
        PROVE  /\ e.ver <= fWrites' + 1 /\ fSeen'[e.file] <= e.ver
               /\ fDir'[e.file].ver # 0 => e.ver <= fDir'[e.file].ver
               /\ fDir'[e.file].ver = e.ver => fDir'[e.file].size = e.size
    <3>1. e.file \in Poll!Files /\ e.ver \in Nat
      BY <1>7 DEF Entry
    <3>2. /\ e.ver <= fWrites + 1 /\ fSeen[e.file] <= e.ver
          /\ fDir[e.file].ver # 0 => e.ver <= fDir[e.file].ver
          /\ fDir[e.file].ver = e.ver => fDir[e.file].size = e.size
      BY <1>1 DEF PollVersions
    <3>3. CASE e.file = f
      <4>1. fDir'[e.file].ver # 0 => e.ver <= fDir'[e.file].ver
        BY <1>4, <1>5, <3>1, <3>2, <3>3
      <4> QED BY <1>2, <1>4, <1>8, <3>1, <3>2, <3>3, <4>1
    <3>4. CASE e.file # f
      BY <1>2, <1>4, <1>5, <3>1, <3>2, <3>4
    <3> QED BY <3>3, <3>4
  <2>3. \A k, l \in DOMAIN fEntries' : fEntries'[k].file = fEntries'[l].file => k = l
    BY <1>1, <1>2 DEF PollVersions
  <2> QED BY <1>2, <2>1, <2>2, <2>3 DEF PollVersions
<1>10. PollStream'
  <2>1. CASE fPoller \notin {"open", "stream", "mark"}
    BY <1>1, <1>2, <2>1 DEF PollStream
  <2>2. CASE fPoller \in {"open", "stream", "mark"}
    <3> DEFINE e == Head(fEntries)
    <3>1. fEntries # <<>> /\ fSeen[e.file] # e.ver
      BY <1>1, <2>2 DEF PollStream
    <3>2. e \in Items(fEntries) /\ e.file \in Poll!Files
      BY <1>1, <3>1, FirstEntry DEF Entry
    <3>3. fDir'[e.file].ver = e.ver => fDir[e.file].ver = e.ver
      BY <1>5, <1>8, <3>2
    <3>4. /\ fPoller \in {"stream", "mark"} /\ fDir[e.file].ver = e.ver =>
             /\ fOffset <= e.size
             /\ fOut[e.file] = First(e, fOffset)
             /\ fPoller = "mark" /\ ~fCancelled => fOffset = e.size
          /\ fPoller \notin {"stream", "mark"} => fOffset = 0
      BY <1>1 DEF PollStream
    <3> HIDE DEF e
    <3>5. Head(fEntries) = e
      BY DEF e
    <3> QED BY <1>2, <3>1, <3>3, <3>4, <3>5 DEF PollStream, First
  <2> QED BY <2>1, <2>2
<1>11. PollMemory'
  <2>1. \A g \in Poll!Files :
       ~fCancelled' /\ fDir'[g].ver # 0 /\ fSeen'[g] = fDir'[g].ver => fWhole'[g] = fDir'[g].ver
    <3> SUFFICES ASSUME NEW g \in Poll!Files, ~fCancelled, fDir'[g].ver # 0, fSeen[g] = fDir'[g].ver
                 PROVE  fWhole[g] = fDir'[g].ver
      BY <1>2
    <3>1. fSeen[g] <= fWrites + 1
      BY <1>1 DEF PollVersions
    <3>2. g # f
      BY <1>4, <1>5, <3>1
    <3> QED BY <1>1, <1>5, <3>2 DEF PollMemory
  <2> QED BY <1>1, <1>2, <2>1 DEF PollMemory
<1> QED BY <1>6, <1>9, <1>10, <1>11 DEF PollInv

\* One lemma per group of actions: PollInv is inductive.
LEMMA PollStep == PollInv /\ [Poll!Next]_pollVars => PollInv'
<1> SUFFICES ASSUME PollInv, [Poll!Next]_pollVars PROVE PollInv'
  OBVIOUS
<1>1. CASE UNCHANGED pollVars
  BY <1>1 DEF pollVars, PollInv, PollType, PollVersions, PollStream, PollMemory, First
<1>2. CASE Poll!Next
  BY <1>2, PollLoop, PollList, PollReads, PollMarks, PollStops, PollServer DEF Poll!Next, Poll!Poller
<1> QED BY <1>1, <1>2

\* The invariant holds of every endpoint, since the steps of other kinds keep it.
LEMMA PollCorrect == EndpointSpec => []PollInv
<1>1. Build => PollInv
  BY PollInit DEF Build
<1>2. PollInv /\ [EndpointNext]_allVars => PollInv'
  <2> SUFFICES ASSUME PollInv, [EndpointNext]_allVars PROVE PollInv'
    OBVIOUS
  <2>1. [Poll!Next]_pollVars
    BY PollMoves DEF allVars, pollVars
  <2> QED BY <2>1, PollStep
<1> QED BY <1>1, <1>2, PTL DEF EndpointSpec

\* A file is remembered in its present version only after all of it was dispatched, the
\* memory of an OSS receiver stays consistent and within its limit, and a receiver whose
\* memory suffices delivers no version twice (receiver/sftp.go, receiver/oss.go).
THEOREM SeenIsDelivered == EndpointSpec => []SeenDelivered
<1>1. PollInv => SeenDelivered
  <2> SUFFICES ASSUME PollInv PROVE Poll!SeenDelivered
    BY DEF SeenDelivered
  <2>1. PollMemory
    BY DEF PollInv
  <2>2. Poll!Range(fSeenOrder) = Items(fSeenOrder) /\ (Distinct(fSeenOrder) => Poll!IsInjective(fSeenOrder))
    BY DEF Poll!Range, Items, Distinct, Poll!IsInjective
  <2>3. \A f \in Poll!Files :
          ~fCancelled /\ fDir[f].ver # 0 /\ fSeen[f] = fDir[f].ver => fWhole[f] = fDir[f].ver
    BY <2>1 DEF PollMemory
  <2>4. fKind = "oss" =>
          /\ Poll!Range(fSeenOrder) = {f \in Poll!Files : fSeen[f] # 0}
          /\ Poll!IsInjective(fSeenOrder) /\ Len(fSeenOrder) <= SeenLimit
    BY <2>1, <2>2 DEF PollMemory
  <2>5. fKind = "sftp" \/ NumFiles <= SeenLimit => fRepeated = {}
    BY <2>1 DEF PollMemory
  <2> QED BY <2>3, <2>4, <2>5 DEF Poll!SeenDelivered
<1> QED BY <1>1, PollCorrect, PTL
-----------------------------------------------------------------------------
(* Induction and recursion over the natural numbers.                       *)

\* A set of natural numbers that is not empty has a least element,
LEMMA LeastNat ==
  ASSUME NEW T, T \subseteq Nat, T # {}
  PROVE  \E n \in T : \A m \in T : n <= m
<1> DEFINE R == OpToRel(<, Nat)
<1>1. IsWellFoundedOn(R, Nat)
  BY NatLessThanWellFounded
<1>2. \A m, n \in Nat : m < n => <<m, n>> \in R
  BY DEF OpToRel
<1> HIDE DEF R
<1>3. PICK n \in T : \A m \in T : ~ (<<m, n>> \in R)
  BY <1>1, WFMin
<1>4. \A m \in T : ~(m < n)
  BY <1>2, <1>3
<1> QED BY <1>4

\* and so a set that contains 0 and with n also n + 1 contains all of them.
LEMMA Induction ==
  ASSUME NEW S, 0 \in S, \A n \in Nat : n \in S => n + 1 \in S
  PROVE  \A n \in Nat : n \in S
<1> SUFFICES ASSUME NEW n \in Nat, n \notin S PROVE FALSE
  OBVIOUS
<1> DEFINE T == Nat \ S
<1>1. T # {} /\ T \subseteq Nat
  OBVIOUS
<1>2. PICK m \in T : \A k \in T : m <= k
  BY <1>1, LeastNat
<1>3. m # 0 /\ m - 1 \in Nat /\ m - 1 \notin T /\ (m - 1) + 1 = m
  BY <1>2
<1> QED BY <1>3

\* A recursion over 0..n defines a function.
Recursive(T, b, step, n) ==
  \E f \in [0..n -> T] : f[0] = b /\ \A k \in 1..n : f[k] = step[k][f[k - 1]]

\* Such a function exists, for any start and any step (cited for the loops below).
LEMMA Recursion ==
  ASSUME NEW T, NEW b \in T, NEW step \in [Nat -> [T -> T]], NEW n \in Nat
  PROVE  Recursive(T, b, step, n)
<1> DEFINE F(m) == {f \in [0..m -> T] : f[0] = b /\ \A k \in 1..m : f[k] = step[k][f[k - 1]]}
           S == {m \in Nat : F(m) # {}}
<1>1. 0 \in S
  <2>1. [k \in 0..0 |-> b] \in F(0)
    OBVIOUS
  <2> QED BY <2>1
<1>2. ASSUME NEW m \in Nat, m \in S PROVE m + 1 \in S
  <2>1. PICK f \in F(m) : TRUE
    BY <1>2
  <2> DEFINE g == [k \in 0..(m + 1) |-> IF k = m + 1 THEN step[k][f[m]] ELSE f[k]]
  <2>2. f[m] \in T /\ step[m + 1] \in [T -> T]
    BY <2>1
  <2>3. g \in [0..(m + 1) -> T]
    BY <2>1, <2>2
  <2>4. g[0] = b
    BY <2>1
  <2>5. ASSUME NEW k \in 1..(m + 1) PROVE g[k] = step[k][g[k - 1]]
    <3>1. k - 1 \in 0..m /\ g[k - 1] = f[k - 1]
      OBVIOUS
    <3>2. CASE k = m + 1
      BY <3>1, <3>2
    <3>3. CASE k # m + 1
      BY <3>1, <3>3, <2>1
    <3> QED BY <3>2, <3>3
  <2>6. g \in F(m + 1)
    <3> HIDE DEF g
    <3> QED BY <2>3, <2>4, <2>5
  <2> HIDE DEF F
  <2> QED BY <2>6
<1> HIDE DEF S
<1>3. n \in S
  BY <1>1, <1>2, Induction
<1> QED BY <1>3 DEF S, Recursive

-----------------------------------------------------------------------------
(* A TCP link. First, streams: sequences put one behind the other.         *)

\* The loop of Concat, turn by turn.
Joined(ss) ==
  CHOOSE all : all = [k \in 0..Len(ss) |-> IF k = 0 THEN <<>> ELSE all[k - 1] \o ss[k]]

\* Concat's loop goes from the first sequence to the last.
LEMMA JoinedIs ==
  ASSUME NEW S, NEW ss \in Seq(Seq(S))
  PROVE  /\ Joined(ss) \in [0..Len(ss) -> Seq(S)]
         /\ Joined(ss)[0] = <<>>
         /\ \A k \in 1..Len(ss) : Joined(ss)[k] = Joined(ss)[k - 1] \o ss[k]
         /\ Tcp!Concat(ss) = Joined(ss)[Len(ss)]
<1> DEFINE n == Len(ss)
           T == Seq(S)
           b == << >>
           step == [k \in Nat |-> [a \in T |-> IF k \in 1..n THEN a \o ss[k] ELSE a]]
           F(f) == [k \in 0..n |-> IF k = 0 THEN b ELSE f[k - 1] \o ss[k]]
<1>1. n \in Nat /\ b \in T /\ \A k \in 1..n : ss[k] \in T
  OBVIOUS
<1>2. step \in [Nat -> [T -> T]]
  <2> SUFFICES ASSUME NEW k \in Nat, NEW a \in T
               PROVE  (IF k \in 1..n THEN a \o ss[k] ELSE a) \in T
    OBVIOUS
  <2>1. CASE k \in 1..n
    BY <1>1, <2>1, ConcatProperties
  <2> QED BY <2>1
<1>3. PICK f \in [0..n -> T] : f[0] = b /\ \A k \in 1..n : f[k] = step[k][f[k - 1]]
  <2> HIDE DEF step, b, n, T
  <2>1. Recursive(T, b, step, n)
    BY <1>1, <1>2, Recursion, Zenon
  <2> QED BY <2>1 DEF Recursive
<1>4. \A k \in 1..n : f[k] = f[k - 1] \o ss[k]
  <2> SUFFICES ASSUME NEW k \in 1..n PROVE f[k] = f[k - 1] \o ss[k]
    OBVIOUS
  <2>1. k \in Nat /\ k - 1 \in 0..n
    BY <1>1
  <2>2. f[k - 1] \in T
    BY <1>3, <2>1
  <2> QED BY <2>1, <2>2, <1>3
<1>5. f = F(f)
  <2> HIDE DEF b, step, T, n
  <2>1. \A k \in 0..n : f[k] = IF k = 0 THEN b ELSE f[k - 1] \o ss[k]
    <3> SUFFICES ASSUME NEW k \in 0..n, k # 0 PROVE f[k] = f[k - 1] \o ss[k]
      BY <1>3
    <3>1. k \in 1..n
      BY <1>1
    <3> QED BY <3>1, <1>4
  <2>2. f = [k \in 0..n |-> f[k]]
    BY <1>3
  <2> QED BY <2>1, <2>2, Zenon
<1>6. Joined(ss) = CHOOSE g : g = F(g)
  BY DEF Joined
<1>7. Joined(ss) = F(Joined(ss))
  <2> HIDE DEF F
  <2> QED BY <1>5, <1>6
<1> DEFINE all == Joined(ss)
<1>8. DOMAIN all = 0..n /\ all[0] = b
  BY <1>1, <1>7
<1>9. \A k \in 1..n : all[k] = all[k - 1] \o ss[k]
  <2> SUFFICES ASSUME NEW k \in 1..n PROVE all[k] = all[k - 1] \o ss[k]
    OBVIOUS
  <2>1. k \in 0..n /\ k # 0
    BY <1>1
  <2>2. all[k] = F(all)[k]
    <3> HIDE DEF F, all
    <3> QED BY <1>7 DEF all
  <2> HIDE DEF all, b
  <2> QED BY <2>1, <2>2
<1> DEFINE R == {k \in Nat : k <= n => all[k] \in T}
<1>10. 0 \in R
  BY <1>1, <1>8
<1>11. ASSUME NEW k \in Nat, k \in R PROVE k + 1 \in R
  <2>1. CASE k + 1 <= n
    <3>1. k + 1 \in 1..n /\ all[k] \in T /\ (k + 1) - 1 = k /\ ss[k + 1] \in T
      BY <1>1, <1>11, <2>1
    <3>2. all[k + 1] = all[k] \o ss[k + 1]
      BY <1>9, <3>1
    <3>3. all[k + 1] \in T
      <4> HIDE DEF all
      <4> QED BY <3>1, <3>2, ConcatProperties
    <3> QED BY <3>3
  <2> QED BY <2>1, <1>1
<1> HIDE DEF R
<1>12. \A k \in Nat : k \in R
  BY <1>10, <1>11, Induction
<1>13. \A k \in 0..n : all[k] \in T
  BY <1>1, <1>12 DEF R
<1>14. all = [k \in 0..n |-> all[k]]
  BY <1>7
<1>15. all \in [0..n -> T]
  <2> HIDE DEF all, n, T
  <2> QED BY <1>13, <1>14
<1>16. Tcp!Concat(ss) = all[n]
  BY DEF Tcp!Concat, Joined
<1> QED BY <1>8, <1>9, <1>15, <1>16

\* Nothing, and one sequence more at the end.
LEMMA ConcatAppend ==
  ASSUME NEW S
  PROVE  /\ Tcp!Concat(<< >>) = << >>
         /\ \A ss \in Seq(Seq(S)) : Tcp!Concat(ss) \in Seq(S)
         /\ \A ss \in Seq(Seq(S)), s \in Seq(S) :
              Tcp!Concat(Append(ss, s)) = Tcp!Concat(ss) \o s
<1>1. Tcp!Concat(<< >>) = << >>
  <2>1. PICK e \in Seq(Seq(S)) : e = << >> /\ Len(e) = 0
    BY EmptySeq
  <2>2. Joined(e)[0] = << >> /\ Tcp!Concat(e) = Joined(e)[Len(e)]
    BY JoinedIs
  <2> QED BY <2>1, <2>2
<1>2. ASSUME NEW ss \in Seq(Seq(S)) PROVE Tcp!Concat(ss) \in Seq(S)
  <2>1. Len(ss) \in 0..Len(ss)
    OBVIOUS
  <2>2. Joined(ss) \in [0..Len(ss) -> Seq(S)] /\ Tcp!Concat(ss) = Joined(ss)[Len(ss)]
    BY JoinedIs
  <2> QED BY <2>1, <2>2
<1>3. ASSUME NEW ss \in Seq(Seq(S)), NEW s \in Seq(S)
      PROVE  Tcp!Concat(Append(ss, s)) = Tcp!Concat(ss) \o s
  <2> DEFINE n == Len(ss)
             tt == Append(ss, s)
             R == {k \in Nat : k <= n => Joined(tt)[k] = Joined(ss)[k]}
  <2>1. /\ n \in Nat /\ tt \in Seq(Seq(S)) /\ Len(tt) = n + 1 /\ tt[n + 1] = s
        /\ \A k \in 1..n : tt[k] = ss[k]
    OBVIOUS
  <2>2. /\ Joined(ss)[0] = << >> /\ \A k \in 1..n : Joined(ss)[k] = Joined(ss)[k - 1] \o ss[k]
        /\ Tcp!Concat(ss) = Joined(ss)[n]
    BY JoinedIs
  <2> HIDE DEF n, tt
  <2>3. /\ Joined(tt)[0] = << >>
        /\ \A k \in 1..(n + 1) : Joined(tt)[k] = Joined(tt)[k - 1] \o tt[k]
        /\ Tcp!Concat(tt) = Joined(tt)[n + 1]
    BY <2>1, JoinedIs
  <2>4. 0 \in R
    BY <2>2, <2>3
  <2>5. ASSUME NEW k \in Nat, k \in R PROVE k + 1 \in R
    <3>1. CASE k + 1 <= n
      <4>1. k + 1 \in 1..n /\ k + 1 \in 1..(n + 1) /\ (k + 1) - 1 = k
            /\ Joined(tt)[k] = Joined(ss)[k] /\ tt[k + 1] = ss[k + 1]
        BY <2>1, <2>5, <3>1
      <4>2. Joined(tt)[k + 1] = Joined(tt)[k] \o tt[k + 1]
        BY <4>1, <2>3
      <4>3. Joined(ss)[k + 1] = Joined(ss)[k] \o ss[k + 1]
        BY <4>1, <2>2
      <4>4. Joined(tt)[k + 1] = Joined(ss)[k + 1]
        BY <4>1, <4>2, <4>3
      <4> QED BY <4>4
    <3> QED BY <3>1, <2>1
  <2> HIDE DEF R
  <2>6. n \in R
    BY <2>1, <2>4, <2>5, Induction
  <2>7. Joined(tt)[n] = Joined(ss)[n]
    BY <2>1, <2>6 DEF R
  <2>8. n + 1 \in 1..(n + 1) /\ (n + 1) - 1 = n
    BY <2>1
  <2>9. Joined(tt)[n + 1] = Joined(tt)[n] \o tt[n + 1]
    BY <2>3, <2>8
  <2> QED BY <2>1, <2>2, <2>3, <2>7, <2>9 DEF tt
<1> QED BY <1>1, <1>2, <1>3

\* How sequences are put together does not matter.
LEMMA Associates ==
  \A S : \A s, t, u \in Seq(S) : (s \o t) \o u = s \o (t \o u)
  BY ConcatAssociative

\* One sequence more at the beginning.
LEMMA ConcatCons ==
  ASSUME NEW S, NEW s \in Seq(S), NEW ss \in Seq(Seq(S))
  PROVE  Tcp!Concat(<<s>> \o ss) = s \o Tcp!Concat(ss)
<1> DEFINE T == Seq(S)
           R == {n \in Nat : \A tt \in Seq(T) : Len(tt) = n =>
                   Tcp!Concat(<<s>> \o tt) = s \o Tcp!Concat(tt)}
<1>1. 0 \in R
  <2> SUFFICES ASSUME NEW tt \in Seq(T), Len(tt) = 0
               PROVE  Tcp!Concat(<<s>> \o tt) = s \o Tcp!Concat(tt)
    OBVIOUS
  <2>1. tt = << >> /\ <<s>> \o tt = Append(<< >>, s) /\ << >> \in Seq(T)
    OBVIOUS
  <2>2. Tcp!Concat(<<s>> \o tt) = Tcp!Concat(<< >>) \o s /\ Tcp!Concat(<< >>) = << >>
    BY <2>1, ConcatAppend
  <2>3. << >> \o s = s /\ s \o << >> = s
    OBVIOUS
  <2> QED BY <2>1, <2>2, <2>3
<1>2. ASSUME NEW n \in Nat, n \in R PROVE n + 1 \in R
  <2> SUFFICES ASSUME NEW tt \in Seq(T), Len(tt) = n + 1
               PROVE  Tcp!Concat(<<s>> \o tt) = s \o Tcp!Concat(tt)
    <3>1. n + 1 \in Nat
      OBVIOUS
    <3> HIDE DEF T
    <3> QED BY <3>1, Zenon
  <2>1. tt # << >>
    <3> HIDE DEF R, T
    <3> QED BY EmptySeq
  <2>2. PICK uu \in Seq(T), e \in T : tt = Append(uu, e)
    <3> HIDE DEF T
    <3> QED BY <2>1, SequenceEmptyOrAppend
  <2>3. Len(uu) = n /\ <<s>> \o uu \in Seq(T) /\ <<s>> \o tt = Append(<<s>> \o uu, e)
    <3>1. Len(uu) = n
      BY <2>2
    <3>2. <<s>> \in Seq(T) /\ <<e>> \in Seq(T)
      OBVIOUS
    <3> HIDE DEF T
    <3>3. <<s>> \o uu \in Seq(T)
      BY <3>2, ConcatProperties
    <3>4. /\ Append(uu, e) = uu \o <<e>>
          /\ Append(<<s>> \o uu, e) = (<<s>> \o uu) \o <<e>>
      BY <3>3, AppendIsConcat
    <3>5. <<s>> \o (uu \o <<e>>) = (<<s>> \o uu) \o <<e>>
      BY <3>2, ConcatAssociative
    <3> QED BY <2>2, <3>1, <3>3, <3>4, <3>5
  <2>4. Tcp!Concat(<<s>> \o uu) = s \o Tcp!Concat(uu)
    BY <1>2, <2>3
  <2>5. /\ Tcp!Concat(tt) = Tcp!Concat(uu) \o e
        /\ Tcp!Concat(<<s>> \o tt) = Tcp!Concat(<<s>> \o uu) \o e
        /\ Tcp!Concat(uu) \in T
    BY <2>2, <2>3, ConcatAppend
  <2>6. (s \o Tcp!Concat(uu)) \o e = s \o (Tcp!Concat(uu) \o e)
    <3> HIDE DEF R
    <3>1. PICK p \in Seq(S) : p = e
      BY <2>2
    <3>2. PICK q \in Seq(S) : q = Tcp!Concat(uu)
      BY <2>5
    <3>3. (s \o q) \o p = s \o (q \o p)
      BY ConcatAssociative, SMTT(30)
    <3> QED BY <3>1, <3>2, <3>3
  <2> QED BY <2>4, <2>5, <2>6
<1> HIDE DEF R
<1>3. \A n \in Nat : n \in R
  BY <1>1, <1>2, Induction
<1>4. Len(ss) \in Nat /\ ss \in Seq(T)
  OBVIOUS
<1> QED BY <1>3, <1>4, Zenon DEF R

-----------------------------------------------------------------------------
(* Frames, and streams of frames.                                          *)

\* The packets that a frame can carry, and a stream of their frames.
Carried == {p \in Frames : Len(Payload[p]) <= Tcp!MaxFrame}
FramesOf(ps) == [k \in 1..Len(ps) |-> Tcp!Frame(Payload[ps[k]])]
Stuffed(ps) == Tcp!Concat(FramesOf(ps))

\* The two digits of a number.
LEMMA Digits ==
  ASSUME NEW L \in Nat
  PROVE  /\ L \div Base \in Nat /\ L % Base \in 0..(Base - 1)
         /\ (L \div Base) * Base + (L % Base) = L
         /\ L <= Tcp!MaxFrame => L \div Base \in 0..(Base - 1)
<1>1. Base \in Nat /\ Base > 0
  BY TcpAssumption
<1>2. L \div Base \in Nat /\ L % Base \in 0..(Base - 1)
  BY <1>1
<1>3. (L \div Base) * Base + (L % Base) = L
  BY <1>1
<1>4. ASSUME L <= Base * Base - 1 PROVE L \div Base \in 0..(Base - 1)
  <2>1. ASSUME NEW q \in Nat, q >= Base PROVE q * Base >= Base * Base
    BY <1>1, <2>1
  <2>2. CASE L \div Base >= Base
    <3>1. (L \div Base) * Base >= Base * Base
      BY <1>2, <2>1, <2>2
    <3>2. (L \div Base) * Base \in Int /\ Base * Base \in Int
      BY <1>1, <1>2
    <3> QED BY <1>2, <1>3, <1>4, <3>1, <3>2
  <2> QED BY <1>1, <1>2, <2>2
<1> QED BY <1>2, <1>3, <1>4 DEF Tcp!MaxFrame

\* A frame: two bytes that say how many follow.
LEMMA FrameIs ==
  ASSUME NEW p \in Frames
  PROVE  LET n == Len(Payload[p]) IN
         /\ Payload[p] \in Seq(Tcp!Bytes) /\ n \in Nat
         /\ Tcp!Frame(Payload[p]) = <<n \div Base, n % Base>> \o Payload[p]
         /\ (n \div Base) * Base + (n % Base) = n
         /\ p \in Carried =>
              <<n \div Base, n % Base>> \in Seq(Tcp!Bytes) /\ Tcp!Frame(Payload[p]) \in Seq(Tcp!Bytes)
<1> DEFINE n == Len(Payload[p])
<1>1. Payload[p] \in Seq(Tcp!Bytes) /\ n \in Nat
  BY TcpAssumption DEF Tcp!Bytes
<1>2. /\ (n \div Base) * Base + (n % Base) = n /\ n % Base \in Tcp!Bytes
      /\ n <= Tcp!MaxFrame => n \div Base \in Tcp!Bytes
  <2> HIDE DEF n
  <2> QED BY <1>1, Digits DEF Tcp!Bytes
<1>3. Tcp!Frame(Payload[p]) = <<n \div Base, n % Base>> \o Payload[p]
  BY DEF Tcp!Frame
<1>4. ASSUME p \in Carried
      PROVE  <<n \div Base, n % Base>> \in Seq(Tcp!Bytes)
  BY <1>2, <1>4 DEF Carried
<1>5. ASSUME p \in Carried PROVE Tcp!Frame(Payload[p]) \in Seq(Tcp!Bytes)
  BY <1>1, <1>3, <1>4, <1>5, ConcatProperties
<1> QED BY <1>1, <1>2, <1>3, <1>4, <1>5

\* A stream of frames: the frames of its packets.
LEMMA FramesOfIs ==
  ASSUME NEW ps \in Seq(Carried)
  PROVE  /\ FramesOf(ps) \in Seq(Seq(Tcp!Bytes))
         /\ \A p \in Carried : FramesOf(Append(ps, p)) = Append(FramesOf(ps), Tcp!Frame(Payload[p]))
         /\ ps # << >> =>
              FramesOf(ps) = <<Tcp!Frame(Payload[Head(ps)])>> \o FramesOf(Tail(ps))
<1> DEFINE f(q) == Tcp!Frame(Payload[q])
<1>1. \A q \in Carried : f(q) \in Seq(Tcp!Bytes)
  BY FrameIs DEF Carried
<1>2. Len(ps) \in Nat /\ \A k \in 1..Len(ps) : ps[k] \in Carried
  OBVIOUS
<1>3. \A qs \in Seq(Carried) : FramesOf(qs) \in Seq(Seq(Tcp!Bytes)) /\ Len(FramesOf(qs)) = Len(qs)
        /\ \A k \in 1..Len(qs) : FramesOf(qs)[k] = f(qs[k])
  <2> SUFFICES ASSUME NEW qs \in Seq(Carried)
               PROVE  /\ FramesOf(qs) \in Seq(Seq(Tcp!Bytes)) /\ Len(FramesOf(qs)) = Len(qs)
                      /\ \A k \in 1..Len(qs) : FramesOf(qs)[k] = f(qs[k])
    OBVIOUS
  <2>1. Len(qs) \in Nat /\ \A k \in 1..Len(qs) : f(qs[k]) \in Seq(Tcp!Bytes)
    BY <1>1
  <2> HIDE DEF f
  <2>2. FramesOf(qs) = [k \in 1..Len(qs) |-> f(qs[k])]
    BY DEF FramesOf, f
  <2> QED BY <2>1, <2>2
<1> HIDE DEF f
<1>4. ASSUME NEW p \in Carried PROVE FramesOf(Append(ps, p)) = Append(FramesOf(ps), f(p))
  <2>1. /\ Append(ps, p) \in Seq(Carried) /\ Len(Append(ps, p)) = Len(ps) + 1
        /\ Append(ps, p)[Len(ps) + 1] = p /\ \A k \in 1..Len(ps) : Append(ps, p)[k] = ps[k]
    OBVIOUS
  <2>2. /\ FramesOf(Append(ps, p)) \in Seq(Seq(Tcp!Bytes))
        /\ Len(FramesOf(Append(ps, p))) = Len(ps) + 1
        /\ FramesOf(Append(ps, p))[Len(ps) + 1] = f(p)
        /\ \A k \in 1..Len(ps) : FramesOf(Append(ps, p))[k] = f(ps[k])
    <3> DEFINE qs == Append(ps, p)
    <3> HIDE DEF qs
    <3>1. /\ FramesOf(qs) \in Seq(Seq(Tcp!Bytes)) /\ Len(FramesOf(qs)) = Len(ps) + 1
          /\ \A k \in 1..(Len(ps) + 1) : FramesOf(qs)[k] = f(qs[k])
      BY <1>3, <2>1 DEF qs
    <3>2. Len(ps) + 1 \in 1..(Len(ps) + 1) /\ \A k \in 1..Len(ps) : k \in 1..(Len(ps) + 1)
      BY <1>2
    <3> QED BY <2>1, <3>1, <3>2 DEF qs
  <2>3. /\ FramesOf(ps) \in Seq(Seq(Tcp!Bytes)) /\ Len(FramesOf(ps)) = Len(ps)
        /\ f(p) \in Seq(Tcp!Bytes)
    BY <1>1, <1>3
  <2>4. /\ Append(FramesOf(ps), f(p)) \in Seq(Seq(Tcp!Bytes))
        /\ Len(Append(FramesOf(ps), f(p))) = Len(ps) + 1
        /\ Append(FramesOf(ps), f(p))[Len(ps) + 1] = f(p)
        /\ \A k \in 1..Len(ps) : Append(FramesOf(ps), f(p))[k] = f(ps[k])
    <3> DEFINE t == FramesOf(ps)
               x == f(p)
               T == Seq(Tcp!Bytes)
    <3>1. t \in Seq(T) /\ x \in T /\ Len(t) = Len(ps) /\ \A k \in 1..Len(ps) : t[k] = f(ps[k])
      BY <2>3, <1>3
    <3> HIDE DEF t, x, T
    <3>2. /\ Append(t, x) \in Seq(T) /\ Len(Append(t, x)) = Len(t) + 1
          /\ \A k \in 1..Len(t) : Append(t, x)[k] = t[k]
          /\ Append(t, x)[Len(t) + 1] = x
      BY <3>1, AppendProperties
    <3>3. \A k \in 1..Len(ps) : Append(t, x)[k] = f(ps[k])
      BY <3>1, <3>2
    <3> QED BY <3>1, <3>2, <3>3 DEF t, x, T
  <2>5. \A k \in 1..(Len(ps) + 1) : FramesOf(Append(ps, p))[k] = Append(FramesOf(ps), f(p))[k]
    BY <1>2, <2>2, <2>4
  <2> QED BY <2>2, <2>4, <2>5, SeqEqual
<1>5. ASSUME ps # << >> PROVE FramesOf(ps) = <<f(Head(ps))>> \o FramesOf(Tail(ps))
  <2>1. /\ Head(ps) = ps[1] /\ Head(ps) \in Carried /\ Tail(ps) \in Seq(Carried)
        /\ Len(Tail(ps)) = Len(ps) - 1 /\ Len(ps) >= 1
        /\ \A k \in 1..(Len(ps) - 1) : Tail(ps)[k] = ps[k + 1]
    BY <1>5
  <2>2. /\ FramesOf(Tail(ps)) \in Seq(Seq(Tcp!Bytes))
        /\ Len(FramesOf(Tail(ps))) = Len(ps) - 1
        /\ \A k \in 1..(Len(ps) - 1) : FramesOf(Tail(ps))[k] = f(ps[k + 1])
    <3>1. PICK qs \in Seq(Carried) : qs = Tail(ps)
      BY <2>1
    <3>2. /\ FramesOf(qs) \in Seq(Seq(Tcp!Bytes)) /\ Len(FramesOf(qs)) = Len(qs)
          /\ \A k \in 1..Len(qs) : FramesOf(qs)[k] = f(qs[k])
      BY <1>3
    <3>3. Len(qs) = Len(ps) - 1 /\ \A k \in 1..(Len(ps) - 1) : qs[k] = ps[k + 1]
      BY <2>1, <3>1
    <3>4. /\ FramesOf(qs) \in Seq(Seq(Tcp!Bytes)) /\ Len(FramesOf(qs)) = Len(ps) - 1
          /\ \A k \in 1..(Len(ps) - 1) : FramesOf(qs)[k] = f(ps[k + 1])
      BY <3>2, <3>3, Zenon
    <3> QED BY <3>1, <3>4, Zenon
  <2>3. <<f(Head(ps))>> \in Seq(Seq(Tcp!Bytes)) /\ Len(<<f(Head(ps))>>) = 1
    BY <1>1, <2>1
  <2> DEFINE h == <<f(Head(ps))>>
             t == FramesOf(Tail(ps))
  <2>4. h[1] = f(ps[1])
    BY <2>1
  <2> HIDE DEF h, t
  <2>5. /\ h \o t \in Seq(Seq(Tcp!Bytes)) /\ Len(h \o t) = Len(ps)
        /\ \A k \in 1..Len(ps) : (h \o t)[k] = IF k <= 1 THEN h[k] ELSE t[k - 1]
    <3>1. h \in Seq(Seq(Tcp!Bytes)) /\ t \in Seq(Seq(Tcp!Bytes)) /\ Len(h) = 1 /\ Len(t) = Len(ps) - 1
      BY <2>2, <2>3 DEF h, t
    <3>2. 1 + (Len(ps) - 1) = Len(ps)
      BY <1>2
    <3> DEFINE T == Seq(Tcp!Bytes)
    <3> HIDE DEF T
    <3>3. /\ h \o t \in Seq(T) /\ Len(h \o t) = Len(h) + Len(t)
          /\ \A k \in 1..(Len(h) + Len(t)) :
               (h \o t)[k] = IF k <= Len(h) THEN h[k] ELSE t[k - Len(h)]
      BY <3>1, ConcatProperties DEF T
    <3> QED BY <3>1, <3>2, <3>3 DEF T
  <2>6. \A k \in 1..Len(ps) : (h \o t)[k] = f(ps[k])
    <3> SUFFICES ASSUME NEW k \in 1..Len(ps) PROVE (h \o t)[k] = f(ps[k])
      OBVIOUS
    <3>1. CASE k = 1
      BY <2>4, <2>5, <3>1
    <3>2. CASE k > 1
      <4>1. k - 1 \in 1..(Len(ps) - 1) /\ (k - 1) + 1 = k /\ ~(k <= 1)
        BY <1>2, <3>2
      <4>2. t[k - 1] = f(ps[(k - 1) + 1])
        BY <2>2, <4>1 DEF t
      <4> QED BY <2>5, <4>1, <4>2
    <3>3. k = 1 \/ k > 1
      BY <1>2
    <3> QED BY <3>1, <3>2, <3>3
  <2>7. FramesOf(ps) = h \o t
    <3> DEFINE u == h \o t
               v == FramesOf(ps)
               T == Seq(Tcp!Bytes)
    <3>1. u \in Seq(T) /\ v \in Seq(T) /\ Len(u) = Len(v) /\ \A k \in 1..Len(v) : u[k] = v[k]
      BY <1>3, <2>5, <2>6
    <3> HIDE DEF u, v, T
    <3>2. u = v
      BY <3>1, SeqEqual
    <3> QED BY <3>2 DEF u, v
  <2> QED BY <2>7 DEF h, t
<1> QED BY <1>3, <1>4, <1>5 DEF f

\* A stream is a sequence of bytes; it grows at its end and starts with its first frame.
LEMMA StuffedIs ==
  ASSUME NEW ps \in Seq(Carried)
  PROVE  /\ Stuffed(ps) \in Seq(Tcp!Bytes)
         /\ ps = << >> => Stuffed(ps) = << >>
         /\ \A p \in Carried : Stuffed(Append(ps, p)) = Stuffed(ps) \o Tcp!Frame(Payload[p])
         /\ ps # << >> =>
              Stuffed(ps) = Tcp!Frame(Payload[Head(ps)]) \o Stuffed(Tail(ps))
<1>1. FramesOf(ps) \in Seq(Seq(Tcp!Bytes))
  BY FramesOfIs
<1>2. Stuffed(ps) \in Seq(Tcp!Bytes)
  BY <1>1, ConcatAppend DEF Stuffed
<1>3. ASSUME ps = << >> PROVE Stuffed(ps) = << >>
  <2>1. FramesOf(ps) = << >>
    BY <1>3 DEF FramesOf
  <2> QED BY <2>1, ConcatAppend DEF Stuffed
<1>4. ASSUME NEW p \in Carried PROVE Stuffed(Append(ps, p)) = Stuffed(ps) \o Tcp!Frame(Payload[p])
  <2>1. FramesOf(Append(ps, p)) = Append(FramesOf(ps), Tcp!Frame(Payload[p]))
    BY FramesOfIs
  <2>2. Tcp!Frame(Payload[p]) \in Seq(Tcp!Bytes)
    BY FrameIs DEF Carried
  <2> QED BY <1>1, <2>1, <2>2, ConcatAppend DEF Stuffed
<1>5. ASSUME ps # << >>
      PROVE  Stuffed(ps) = Tcp!Frame(Payload[Head(ps)]) \o Stuffed(Tail(ps))
  <2>1. Head(ps) \in Carried /\ Tail(ps) \in Seq(Carried)
    BY <1>5
  <2>2. FramesOf(ps) = <<Tcp!Frame(Payload[Head(ps)])>> \o FramesOf(Tail(ps))
    BY <1>5, FramesOfIs
  <2>3. Tcp!Frame(Payload[Head(ps)]) \in Seq(Tcp!Bytes)
    BY <2>1, FrameIs DEF Carried
  <2>4. FramesOf(Tail(ps)) \in Seq(Seq(Tcp!Bytes))
    BY <2>1, FramesOfIs
  <2> QED BY <2>2, <2>3, <2>4, ConcatCons DEF Stuffed
<1> QED BY <1>2, <1>3, <1>4, <1>5

\* What is left of a buffer, and what follows it, begin with x: so does the buffer, as far
\* as it goes; and when all of x is in it the rest goes on behind x.
LEMMA CutOff ==
  ASSUME NEW buf \in Seq(Tcp!Bytes), NEW w \in Seq(Tcp!Bytes), NEW x \in Seq(Tcp!Bytes), NEW y \in Seq(Tcp!Bytes),
         NEW r \in 1..(Len(buf) + 1),
         SubSeq(buf, r, Len(buf)) \o w = x \o y
  PROVE  /\ \A j \in 1..Len(x) : r - 1 + j <= Len(buf) => buf[r - 1 + j] = x[j]
         /\ r - 1 + Len(x) <= Len(buf) => SubSeq(buf, r + Len(x), Len(buf)) \o w = y
<1> DEFINE t == SubSeq(buf, r, Len(buf))
           z == SubSeq(buf, r + Len(x), Len(buf))
<1>1. Len(buf) \in Nat /\ Len(x) \in Nat /\ Len(y) \in Nat /\ Len(w) \in Nat
  OBVIOUS
<1>2. /\ t \in Seq(Tcp!Bytes) /\ Len(t) = Len(buf) + 1 - r
      /\ \A j \in 1..(Len(buf) + 1 - r) : t[j] = buf[r - 1 + j]
  OBVIOUS
<1> HIDE DEF t
<1>3. /\ Len(t \o w) = Len(t) + Len(w)
      /\ \A j \in 1..(Len(t) + Len(w)) : (t \o w)[j] = IF j <= Len(t) THEN t[j] ELSE w[j - Len(t)]
  BY <1>2, ConcatProperties
<1>4. /\ Len(x \o y) = Len(x) + Len(y)
      /\ \A j \in 1..(Len(x) + Len(y)) : (x \o y)[j] = IF j <= Len(x) THEN x[j] ELSE y[j - Len(x)]
  BY ConcatProperties
<1>5. t \o w = x \o y
  BY DEF t
<1>6. Len(t) + Len(w) = Len(x) + Len(y)
  BY <1>3, <1>4, <1>5
<1>7. ASSUME NEW j \in 1..Len(x), r - 1 + j <= Len(buf) PROVE buf[r - 1 + j] = x[j]
  <2>1. j \in 1..(Len(x) + Len(y)) /\ j \in 1..(Len(t) + Len(w)) /\ j <= Len(t) /\ j <= Len(x)
        /\ j \in 1..(Len(buf) + 1 - r)
    BY <1>1, <1>2, <1>6, <1>7
  <2>2. (t \o w)[j] = t[j] /\ (x \o y)[j] = x[j]
    BY <1>3, <1>4, <2>1
  <2> QED BY <1>2, <1>5, <2>1, <2>2
<1>8. ASSUME r - 1 + Len(x) <= Len(buf) PROVE z \o w = y
  <2>1. /\ z \in Seq(Tcp!Bytes) /\ Len(z) = Len(buf) + 1 - r - Len(x)
        /\ \A j \in 1..(Len(buf) + 1 - r - Len(x)) : z[j] = buf[r + Len(x) - 1 + j]
    <3> DEFINE q == r + Len(x)
               n == Len(buf)
    <3>1. q \in Nat /\ n \in Nat /\ 1 <= q /\ q <= n + 1 /\ \A j \in q..n : buf[j] \in Tcp!Bytes
      BY <1>1, <1>8
    <3>2. n + 1 - r - Len(x) = n - q + 1 /\ \A j \in Int : q - 1 + j = q + j - 1
      BY <1>1, <3>1
    <3> HIDE DEF q, n
    <3>3. /\ SubSeq(buf, q, n) \in Seq(Tcp!Bytes)
          /\ Len(SubSeq(buf, q, n)) = IF q <= n THEN n - q + 1 ELSE 0
          /\ \A j \in 1..(n - q + 1) : SubSeq(buf, q, n)[j] = buf[q + j - 1]
      BY <3>1, SubSeqProperties
    <3>4. Len(SubSeq(buf, q, n)) = n - q + 1
      BY <3>1, <3>3
    <3> QED BY <3>2, <3>3, <3>4 DEF q, n
  <2> HIDE DEF z
  <2>2. /\ z \o w \in Seq(Tcp!Bytes) /\ Len(z \o w) = Len(z) + Len(w)
        /\ \A j \in 1..(Len(z) + Len(w)) : (z \o w)[j] = IF j <= Len(z) THEN z[j] ELSE w[j - Len(z)]
    BY <2>1, ConcatProperties
  <2>3. Len(z) + Len(w) = Len(y) /\ Len(t) = Len(z) + Len(x) /\ Len(z) \in Nat
    BY <1>1, <1>2, <1>6, <1>8, <2>1
  <2>4. ASSUME NEW j \in 1..Len(y) PROVE (z \o w)[j] = y[j]
    <3>1. Len(x) + j \in 1..(Len(x) + Len(y)) /\ ~(Len(x) + j <= Len(x)) /\ (Len(x) + j) - Len(x) = j
          /\ Len(x) + j \in 1..(Len(t) + Len(w)) /\ j \in 1..(Len(z) + Len(w))
      BY <1>1, <1>6, <2>3
    <3>2. (x \o y)[Len(x) + j] = y[j]
      BY <1>4, <3>1
    <3>3. CASE j <= Len(z)
      <4>1. /\ Len(x) + j <= Len(t) /\ Len(x) + j \in 1..(Len(buf) + 1 - r)
            /\ r - 1 + (Len(x) + j) = r + Len(x) - 1 + j /\ j \in 1..(Len(buf) + 1 - r - Len(x))
        BY <1>1, <1>2, <2>1, <2>3, <3>3
      <4>2. (t \o w)[Len(x) + j] = t[Len(x) + j]
        BY <1>3, <3>1, <4>1
      <4>3. t[Len(x) + j] = buf[r + Len(x) - 1 + j] /\ z[j] = buf[r + Len(x) - 1 + j]
        BY <1>2, <2>1, <4>1
      <4> QED BY <1>5, <2>2, <3>1, <3>2, <3>3, <4>2, <4>3
    <3>4. CASE j > Len(z)
      <4>1. ~(Len(x) + j <= Len(t)) /\ (Len(x) + j) - Len(t) = j - Len(z) /\ ~(j <= Len(z))
        BY <1>1, <2>3, <3>4
      <4>2. (t \o w)[Len(x) + j] = w[j - Len(z)]
        BY <1>3, <3>1, <4>1
      <4>3. (z \o w)[j] = w[j - Len(z)]
        BY <2>2, <3>1, <4>1
      <4> QED BY <1>5, <3>2, <4>2, <4>3
    <3>5. j <= Len(z) \/ j > Len(z)
      BY <2>3
    <3> QED BY <3>3, <3>4, <3>5
  <2>5. Len(z \o w) = Len(y)
    BY <2>2, <2>3
  <2> QED BY <2>2, <2>4, <2>5, SeqEqual
<1> QED BY <1>7, <1>8 DEF z

-----------------------------------------------------------------------------
(* The receiver's loop over the frames of its buffer.                      *)

\* Slice x of the buffer holds the bytes of data.
Slice(buf, x, data) ==
  /\ x[1] \in Nat /\ x[2] \in Nat /\ x[1] >= 1 /\ x[2] <= Len(buf) /\ x[2] + 1 - x[1] = Len(data)
  /\ \A j \in 1..Len(data) : buf[x[1] - 1 + j] = data[j]

\* What the loop has found of packets ps in a buffer that w follows.
Fed(ps, buf, w, f) ==
  /\ f.remain \in 1..(Len(buf) + 1) /\ f.frames \in Seq(Nat \X Nat) /\ Len(f.frames) <= Len(ps)
  /\ \A i \in 1..Len(f.frames) : Slice(buf, f.frames[i], Payload[ps[i]])
  /\ SubSeq(buf, f.remain, Len(buf)) \o w = Stuffed(SubSeq(ps, Len(f.frames) + 1, Len(ps)))

\* The loop's state, and that a turn keeps its type.
FedType(buf) == [frames : Seq(Nat \X Nat), remain : 1..(Len(buf) + 1)]

LEMMA FeedOneType ==
  ASSUME NEW buf \in Seq(Tcp!Bytes), NEW f \in FedType(buf)
  PROVE  Tcp!FeedOne(buf, f) \in FedType(buf)
<1> DEFINE left == Len(buf) + 1 - f.remain
           n == buf[f.remain] * Base + buf[f.remain + 1]
<1>1. f.remain \in 1..(Len(buf) + 1) /\ f.frames \in Seq(Nat \X Nat) /\ Len(buf) \in Nat
  BY DEF FedType
<1>2. CASE left < 2 \/ left < 2 + n
  BY <1>2 DEF Tcp!FeedOne
<1>3. CASE ~(left < 2 \/ left < 2 + n)
  <2>1. f.remain \in 1..Len(buf) /\ f.remain + 1 \in 1..Len(buf)
    BY <1>1, <1>3
  <2>2. buf[f.remain] \in Nat /\ buf[f.remain + 1] \in Nat /\ Base \in Nat
    BY <2>1, TcpAssumption DEF Tcp!Bytes
  <2>3. \A a, b, c \in Nat : a * b + c \in Nat
    OBVIOUS
  <2>4. n \in Nat
    BY <2>2, <2>3, Zenon
  <2> HIDE DEF n
  <2>5. f.remain + 2 + n \in 1..(Len(buf) + 1) /\ <<f.remain + 2, f.remain + 1 + n>> \in Nat \X Nat
    BY <1>1, <1>3, <2>4
  <2>6. Append(f.frames, <<f.remain + 2, f.remain + 1 + n>>) \in Seq(Nat \X Nat)
    BY <1>1, <2>5
  <2>7. Tcp!FeedOne(buf, f) = [frames |-> Append(f.frames, <<f.remain + 2, f.remain + 1 + n>>),
                               remain |-> f.remain + 2 + n]
    BY <1>3 DEF Tcp!FeedOne, n
  <2> QED BY <2>5, <2>6, <2>7 DEF FedType
<1> QED BY <1>2, <1>3

\* A turn takes a packet's frame, or nothing.
LEMMA FeedOneIs ==
  ASSUME NEW ps \in Seq(Carried), NEW buf \in Seq(Tcp!Bytes), NEW w \in Seq(Tcp!Bytes),
         NEW f, f \in FedType(buf), Fed(ps, buf, w, f)
  PROVE  Fed(ps, buf, w, Tcp!FeedOne(buf, f))
<1> DEFINE left == Len(buf) + 1 - f.remain
           n == buf[f.remain] * Base + buf[f.remain + 1]
           r == f.remain
           m == Len(f.frames)
           more == SubSeq(ps, m + 1, Len(ps))
<1>1. CASE left < 2 \/ left < 2 + n
  BY <1>1 DEF Tcp!FeedOne
<1>2. CASE ~(left < 2 \/ left < 2 + n)
  <2>1. /\ r \in 1..(Len(buf) + 1) /\ f.frames \in Seq(Nat \X Nat) /\ m \in Nat /\ m <= Len(ps)
        /\ Len(buf) \in Nat /\ Len(ps) \in Nat
        /\ \A i \in 1..m : Slice(buf, f.frames[i], Payload[ps[i]])
        /\ SubSeq(buf, r, Len(buf)) \o w = Stuffed(more)
    BY DEF Fed
  <2>2. more \in Seq(Carried) /\ Len(more) = Len(ps) - m
    <3> HIDE DEF m
    <3> QED BY <2>1
  <2>3. ~(left < 2)
    BY <1>2
  <2> HIDE DEF r, m, more, n
  <2>4. more # << >>
    <3> SUFFICES ASSUME more = << >> PROVE FALSE
      OBVIOUS
    <3>1. SubSeq(buf, r, Len(buf)) \o w = << >>
      BY <2>1, <2>2, StuffedIs
    <3>2. /\ SubSeq(buf, r, Len(buf)) \in Seq(Tcp!Bytes)
          /\ Len(SubSeq(buf, r, Len(buf))) >= 2
      BY <2>1, <2>3 DEF r
    <3>3. SubSeq(buf, r, Len(buf)) = << >>
      BY <3>1, <3>2, ConcatEqualIffEmpty
    <3> QED BY <3>2, <3>3
  <2>5. m + 1 <= Len(ps) /\ Head(more) = ps[m + 1] /\ Tail(more) = SubSeq(ps, m + 2, Len(ps))
    <3>1. m + 1 <= Len(ps)
      BY <2>1, <2>2, <2>4, EmptySeq
    <3>2. m + 1 \in 1..Len(ps) /\ Len(ps) \in (m + 1)..Len(ps) /\ (m + 1) + 1 = m + 2
      BY <2>1, <3>1
    <3> QED BY <3>1, <3>2, HeadTailOfSubSeq DEF more
  <2> DEFINE p == ps[m + 1]
             L == Len(Payload[p])
             x == Tcp!Frame(Payload[p])
             y == Stuffed(SubSeq(ps, m + 2, Len(ps)))
             head == <<L \div Base, L % Base>>
  <2>6. p \in Carried /\ p \in Frames
    BY <2>1, <2>5 DEF Carried
  <2>7. SubSeq(ps, m + 2, Len(ps)) \in Seq(Carried)
    BY <2>2, <2>4, <2>5, HeadTailProperties
  <2>8. Stuffed(more) = x \o y /\ y \in Seq(Tcp!Bytes)
    BY <2>2, <2>4, <2>5, <2>7, StuffedIs
  <2>9. /\ L \in Nat /\ (L \div Base) * Base + (L % Base) = L /\ Payload[p] \in Seq(Tcp!Bytes)
        /\ x = head \o Payload[p] /\ head \in Seq(Tcp!Bytes) /\ x \in Seq(Tcp!Bytes)
    BY <2>6, FrameIs
  <2>10. /\ Len(x) = 2 + L /\ x[1] = L \div Base /\ x[2] = L % Base
         /\ \A j \in 1..L : x[2 + j] = Payload[p][j]
    <3>1. Len(head) = 2 /\ head[1] = L \div Base /\ head[2] = L % Base
      OBVIOUS
    <3>4. L = Len(Payload[p])
      OBVIOUS
    <3> HIDE DEF head, p, x, L
    <3>2. /\ Len(x) = 2 + L
          /\ \A j \in 1..(2 + L) : x[j] = IF j <= 2 THEN head[j] ELSE Payload[p][j - 2]
      <4> DEFINE d == Payload[p]
      <4>1. d \in Seq(Tcp!Bytes) /\ head \in Seq(Tcp!Bytes) /\ x = head \o d /\ Len(d) = L
        BY <2>9, <3>4
      <4> HIDE DEF d
      <4>2. /\ Len(head \o d) = Len(head) + Len(d)
            /\ \A j \in 1..(Len(head) + Len(d)) :
                 (head \o d)[j] = IF j <= Len(head) THEN head[j] ELSE d[j - Len(head)]
        BY <4>1, ConcatProperties
      <4> QED BY <3>1, <4>1, <4>2 DEF d
    <3>3. 1 \in 1..(2 + L) /\ 2 \in 1..(2 + L)
          /\ \A j \in 1..L : 2 + j \in 1..(2 + L) /\ ~(2 + j <= 2) /\ (2 + j) - 2 = j
      BY <2>9
    <3> QED BY <3>1, <3>2, <3>3
  <2> HIDE DEF p, x, y, head, L
  <2>11. /\ \A j \in 1..(2 + L) : r - 1 + j <= Len(buf) => buf[r - 1 + j] = x[j]
         /\ r - 1 + (2 + L) <= Len(buf) => SubSeq(buf, r + (2 + L), Len(buf)) \o w = y
    <3>1. SubSeq(buf, r, Len(buf)) \o w = x \o y
      BY <2>1, <2>8
    <3>2. /\ \A j \in 1..Len(x) : r - 1 + j <= Len(buf) => buf[r - 1 + j] = x[j]
          /\ r - 1 + Len(x) <= Len(buf) => SubSeq(buf, r + Len(x), Len(buf)) \o w = y
      <4>1. r \in 1..(Len(buf) + 1) /\ x \in Seq(Tcp!Bytes) /\ y \in Seq(Tcp!Bytes)
        BY <2>1, <2>8, <2>9
      <4> QED BY <3>1, <4>1, CutOff, Zenon
    <3> QED BY <2>10, <3>2
  <2>12. buf[r] = L \div Base /\ buf[r + 1] = L % Base
    <3>1. 1 \in 1..(2 + L) /\ 2 \in 1..(2 + L) /\ r - 1 + 1 = r /\ r - 1 + 2 = r + 1 /\ r + 1 <= Len(buf)
      BY <2>1, <2>3, <2>9 DEF r
    <3> QED BY <2>1, <2>10, <2>11, <3>1
  <2>13. n = L
    BY <2>9, <2>12 DEF n, r
  <2>14. r + 1 + L <= Len(buf)
    BY <1>2, <2>1, <2>9, <2>13 DEF r
  <2> DEFINE g == [frames |-> Append(f.frames, <<r + 2, r + 1 + L>>), remain |-> r + 2 + L]
  <2>15. Tcp!FeedOne(buf, f) = g
    BY <1>2, <2>13 DEF Tcp!FeedOne, n, r
  <2>16. /\ g.remain = r + 2 + L /\ g.frames \in Seq(Nat \X Nat) /\ Len(g.frames) = m + 1
         /\ g.frames[m + 1] = <<r + 2, r + 1 + L>> /\ \A i \in 1..m : g.frames[i] = f.frames[i]
    <3>1. <<r + 2, r + 1 + L>> \in Nat \X Nat
      BY <2>1, <2>9
    <3> QED BY <2>1, <3>1, AppendProperties DEF m
  <2> HIDE DEF g
  <2>17. ASSUME NEW i \in 1..(m + 1) PROVE Slice(buf, g.frames[i], Payload[ps[i]])
    <3>1. CASE i \in 1..m
      BY <2>1, <2>16, <3>1
    <3>2. CASE i = m + 1
      <4>1. g.frames[i] = <<r + 2, r + 1 + L>> /\ ps[i] = p
        BY <2>16, <3>2 DEF p
      <4>2. ASSUME NEW j \in 1..L PROVE buf[(r + 2) - 1 + j] = Payload[p][j]
        <5>1. 2 + j \in 1..(2 + L) /\ r - 1 + (2 + j) <= Len(buf) /\ r - 1 + (2 + j) = (r + 2) - 1 + j
          BY <2>1, <2>9, <2>14
        <5> QED BY <2>10, <2>11, <5>1
      <4>3. /\ r + 2 \in Nat /\ r + 1 + L \in Nat /\ r + 2 >= 1 /\ r + 1 + L <= Len(buf)
            /\ (r + 1 + L) + 1 - (r + 2) = L
        BY <2>1, <2>9, <2>14
      <4>4. L = Len(Payload[p])
        BY DEF L
      <4> QED BY <4>1, <4>2, <4>3, <4>4 DEF Slice
    <3> QED BY <2>1, <3>1, <3>2
  <2>18. SubSeq(buf, g.remain, Len(buf)) \o w = Stuffed(SubSeq(ps, Len(g.frames) + 1, Len(ps)))
    <3>1. r - 1 + (2 + L) <= Len(buf) /\ r + (2 + L) = r + 2 + L /\ (m + 1) + 1 = m + 2
      BY <2>1, <2>9, <2>14
    <3> QED BY <2>11, <2>16, <3>1 DEF y
  <2>19. g.remain \in 1..(Len(buf) + 1) /\ Len(g.frames) <= Len(ps)
    BY <2>1, <2>5, <2>9, <2>14, <2>16
  <2> QED BY <2>15, <2>16, <2>17, <2>18, <2>19 DEF Fed
<1> QED BY <1>1, <1>2

\* The loop of Feed, turn by turn.
Turned(buf) ==
  CHOOSE feed : feed = [k \in 0..Len(buf) |->
    IF k = 0 THEN [frames |-> << >>, remain |-> 1] ELSE Tcp!FeedOne(buf, feed[k - 1])]

\* Feed's loop goes on from turn to turn.
LEMMA TurnedIs ==
  ASSUME NEW buf \in Seq(Tcp!Bytes)
  PROVE  /\ Turned(buf) \in [0..Len(buf) -> FedType(buf)]
         /\ Turned(buf)[0] = [frames |-> << >>, remain |-> 1]
         /\ \A k \in 1..Len(buf) : Turned(buf)[k] = Tcp!FeedOne(buf, Turned(buf)[k - 1])
         /\ Tcp!Feed(buf) = Turned(buf)[Len(buf)]
<1> DEFINE n == Len(buf)
           T == FedType(buf)
           b == [frames |-> << >>, remain |-> 1]
           one == [a \in T |-> Tcp!FeedOne(buf, a)]
           step == [k \in Nat |-> one]
           F(f) == [k \in 0..n |-> IF k = 0 THEN b ELSE Tcp!FeedOne(buf, f[k - 1])]
<1>1. n \in Nat /\ b \in T
  BY DEF FedType
<1>2. step \in [Nat -> [T -> T]]
  BY FeedOneType
<1>3. PICK f \in [0..n -> T] : f[0] = b /\ \A k \in 1..n : f[k] = step[k][f[k - 1]]
  <2> HIDE DEF step, b, n, T
  <2>1. Recursive(T, b, step, n)
    BY <1>1, <1>2, Recursion, Zenon
  <2> QED BY <2>1 DEF Recursive
<1>4. \A k \in 1..n : f[k] = Tcp!FeedOne(buf, f[k - 1])
  <2> SUFFICES ASSUME NEW k \in 1..n PROVE f[k] = Tcp!FeedOne(buf, f[k - 1])
    OBVIOUS
  <2>1. k \in Nat /\ k - 1 \in 0..n
    BY <1>1
  <2>2. f[k - 1] \in T
    BY <1>3, <2>1
  <2>3. one[f[k - 1]] = Tcp!FeedOne(buf, f[k - 1])
    <3> HIDE DEF T
    <3> QED BY <2>2, Zenon
  <2> HIDE DEF one
  <2>4. step[k] = one
    BY <2>1
  <2> QED BY <2>3, <2>4, <1>3
<1>5. f = F(f)
  <2> HIDE DEF b, step, T, n
  <2>1. \A k \in 0..n : f[k] = IF k = 0 THEN b ELSE Tcp!FeedOne(buf, f[k - 1])
    <3> SUFFICES ASSUME NEW k \in 0..n, k # 0 PROVE f[k] = Tcp!FeedOne(buf, f[k - 1])
      BY <1>3
    <3>1. k \in 1..n
      BY <1>1
    <3> QED BY <3>1, <1>4
  <2>2. f = [k \in 0..n |-> f[k]]
    BY <1>3
  <2> QED BY <2>1, <2>2, Zenon
<1>6. Turned(buf) = CHOOSE g : g = F(g)
  BY DEF Turned
<1>7. Turned(buf) = F(Turned(buf))
  <2> HIDE DEF F
  <2> QED BY <1>5, <1>6
<1> DEFINE all == Turned(buf)
<1>8. DOMAIN all = 0..n /\ all[0] = b
  BY <1>1, <1>7
<1>9. \A k \in 1..n : all[k] = Tcp!FeedOne(buf, all[k - 1])
  <2> SUFFICES ASSUME NEW k \in 1..n PROVE all[k] = Tcp!FeedOne(buf, all[k - 1])
    OBVIOUS
  <2>1. k \in 0..n /\ k # 0
    BY <1>1
  <2>2. all[k] = F(all)[k]
    <3> HIDE DEF F, all
    <3> QED BY <1>7 DEF all
  <2> HIDE DEF all, b
  <2> QED BY <2>1, <2>2
<1> DEFINE R == {k \in Nat : k <= n => all[k] \in T}
<1>10. 0 \in R
  BY <1>1, <1>8
<1>11. ASSUME NEW k \in Nat, k \in R PROVE k + 1 \in R
  <2>1. CASE k + 1 <= n
    <3>1. k + 1 \in 1..n /\ all[k] \in T /\ (k + 1) - 1 = k
      BY <1>1, <1>11, <2>1
    <3>2. all[k + 1] = Tcp!FeedOne(buf, all[k])
      BY <1>9, <3>1
    <3>3. all[k + 1] \in T
      <4> HIDE DEF all
      <4> QED BY <3>1, <3>2, FeedOneType
    <3> QED BY <3>3
  <2> QED BY <2>1, <1>1
<1> HIDE DEF R
<1>12. \A k \in Nat : k \in R
  BY <1>10, <1>11, Induction
<1>13. \A k \in 0..n : all[k] \in T
  BY <1>1, <1>12 DEF R
<1>14. all = [k \in 0..n |-> all[k]]
  BY <1>7
<1>15. all \in [0..n -> T]
  <2> HIDE DEF all, n, T
  <2> QED BY <1>13, <1>14
<1>16. Tcp!Feed(buf) = all[n]
  BY DEF Tcp!Feed, Turned
<1> QED BY <1>8, <1>9, <1>15, <1>16

\* Feed finds frames of the packets that were stuffed into the stream, from the first on.
LEMMA FeedIs ==
  ASSUME NEW ps \in Seq(Carried), NEW buf \in Seq(Tcp!Bytes), NEW w \in Seq(Tcp!Bytes),
         buf \o w = Stuffed(ps)
  PROVE  Fed(ps, buf, w, Tcp!Feed(buf))
<1> DEFINE n == Len(buf)
           all == Turned(buf)
           R == {k \in Nat : k <= n => Fed(ps, buf, w, all[k])}
<1>1. /\ n \in Nat /\ all \in [0..n -> FedType(buf)] /\ all[0] = [frames |-> << >>, remain |-> 1]
      /\ \A k \in 1..n : all[k] = Tcp!FeedOne(buf, all[k - 1])
      /\ Tcp!Feed(buf) = all[n]
  BY TurnedIs
<1>2. Fed(ps, buf, w, all[0])
  <2>1. SubSeq(buf, 1, Len(buf)) = buf /\ SubSeq(ps, 1, Len(ps)) = ps /\ Len(ps) \in Nat
    BY SubSeqFull
  <2>2. /\ all[0].remain = 1 /\ all[0].frames = << >> /\ Len(all[0].frames) = 0
        /\ << >> \in Seq(Nat \X Nat)
    BY <1>1
  <2> HIDE DEF all
  <2>3. /\ SubSeq(buf, all[0].remain, Len(buf)) = buf
        /\ SubSeq(ps, Len(all[0].frames) + 1, Len(ps)) = ps
    BY <2>1, <2>2
  <2>4. all[0].remain \in 1..(Len(buf) + 1) /\ Len(all[0].frames) <= Len(ps)
        /\ all[0].frames \in Seq(Nat \X Nat) /\ 1..Len(all[0].frames) = {}
    BY <1>1, <2>1, <2>2
  <2> QED BY <2>3, <2>4 DEF Fed
<1> HIDE DEF all
<1>3. 0 \in R
  BY <1>2
<1>4. ASSUME NEW k \in Nat, k \in R PROVE k + 1 \in R
  <2>1. CASE k + 1 <= n
    <3>1. k + 1 \in 1..n /\ k \in 0..n /\ (k + 1) - 1 = k /\ Fed(ps, buf, w, all[k])
      BY <1>1, <1>4, <2>1
    <3>2. all[k] \in FedType(buf) /\ all[k + 1] = Tcp!FeedOne(buf, all[k])
      BY <1>1, <3>1
    <3>3. Fed(ps, buf, w, all[k + 1])
      BY <3>1, <3>2, FeedOneIs
    <3> QED BY <3>3
  <2> QED BY <2>1, <1>1
<1> HIDE DEF R
<1>5. n \in R
  BY <1>1, <1>3, <1>4, Induction
<1> QED BY <1>1, <1>5 DEF R

\* The receiver's buffer when what is left of it was moved to its front.
Moved(buf, remain) == [i \in DOMAIN buf |-> IF i <= Len(remain) THEN remain[i] ELSE buf[i]]

\* A payload that is read after the rest was moved to the front of the buffer has the
\* length of its slice, and its bytes where the rest did not reach it.
LEMMA MovedSlice ==
  ASSUME NEW buf \in Seq(Tcp!Bytes), NEW remain \in Seq(Tcp!Bytes), Len(remain) <= Len(buf),
         NEW x, NEW data \in Seq(Tcp!Bytes), Slice(buf, x, data)
  PROVE  LET payload == SubSeq(Moved(buf, remain), x[1], x[2])
         IN  /\ payload \in Seq(Tcp!Bytes) /\ Len(payload) = Len(data)
             /\ x[1] <= Len(remain) \/ payload = data
<1> DEFINE moved == Moved(buf, remain)
           payload == SubSeq(moved, x[1], x[2])
<1>1. /\ x[1] \in Nat /\ x[2] \in Nat /\ x[1] >= 1 /\ x[2] <= Len(buf)
      /\ x[2] + 1 - x[1] = Len(data) /\ Len(data) \in Nat /\ Len(buf) \in Nat /\ Len(remain) \in Nat
      /\ \A j \in 1..Len(data) : buf[x[1] - 1 + j] = data[j]
  BY DEF Slice
<1>2. \A i \in 1..Len(buf) :
        /\ moved[i] = IF i <= Len(remain) THEN remain[i] ELSE buf[i]
        /\ moved[i] \in Tcp!Bytes
  BY <1>1 DEF Moved
<1> HIDE DEF moved
<1>3. /\ payload \in Seq(Tcp!Bytes) /\ Len(payload) = Len(data)
      /\ \A j \in 1..Len(data) : payload[j] = moved[x[1] - 1 + j]
  <2> DEFINE m == x[1]
             n == x[2]
  <2>1. m \in Int /\ n \in Int /\ m >= 1 /\ n <= Len(buf) /\ n - m + 1 = Len(data)
        /\ \A i \in m..n : moved[i] \in Tcp!Bytes
    BY <1>1, <1>2
  <2> HIDE DEF m, n
  <2>2. \A j \in Int : m + j - 1 = m - 1 + j
    BY <2>1
  <2>3. /\ SubSeq(moved, m, n) \in Seq(Tcp!Bytes)
        /\ Len(SubSeq(moved, m, n)) = IF m <= n THEN n - m + 1 ELSE 0
        /\ \A j \in 1..(n - m + 1) : SubSeq(moved, m, n)[j] = moved[m + j - 1]
    BY <2>1, SubSeqProperties
  <2>4. Len(SubSeq(moved, m, n)) = Len(data)
    BY <1>1, <2>1, <2>3
  <2>5. \A j \in 1..Len(data) : SubSeq(moved, m, n)[j] = moved[m - 1 + j]
    <3> SUFFICES ASSUME NEW j \in 1..Len(data) PROVE SubSeq(moved, m, n)[j] = moved[m - 1 + j]
      OBVIOUS
    <3>1. j \in 1..(n - m + 1) /\ m + j - 1 = m - 1 + j
      BY <2>1, <2>2
    <3> QED BY <2>3, <3>1
  <2> HIDE DEF payload
  <2>6. payload = SubSeq(moved, m, n)
    BY DEF payload, m, n
  <2> QED BY <2>3, <2>4, <2>5, <2>6 DEF m
<1>4. ASSUME ~(x[1] <= Len(remain)) PROVE payload = data
  <2>1. ASSUME NEW j \in 1..Len(data) PROVE payload[j] = data[j]
    <3>1. x[1] - 1 + j \in 1..Len(buf) /\ ~(x[1] - 1 + j <= Len(remain))
      BY <1>1, <1>4
    <3>2. moved[x[1] - 1 + j] = buf[x[1] - 1 + j]
      BY <1>2, <3>1
    <3> QED BY <1>1, <1>3, <3>2
  <2> HIDE DEF payload
  <2> QED BY <1>3, <2>1, SeqEqual
<1> QED BY <1>3, <1>4 DEF moved

-----------------------------------------------------------------------------
(* The invariant of a TCP link that frames its packets.                    *)

Task == [p : Carried, b : Tcp!Bufs]
Parcel == [payload : Seq(Tcp!Bytes), over : BOOLEAN]

TcpType ==
  /\ tSend \in [Frames -> {"new", "dial", "again", "write", "returned"}]
  /\ \A p \in Frames : tSend[p] = "write" => tPicked[p] \in Tcp!Conns
  /\ tPicked \in [Frames -> Tcp!Conns \cup {None}]
  /\ tConns \in Seq(Tcp!Conns) /\ tRr \in Nat
  /\ tConn \in [Tcp!Conns -> {"none", "open", "shut", "stopped"}]
  /\ tTasks \in [Tcp!Conns -> Seq(Task)]
  /\ tPool \subseteq Tcp!Bufs /\ tBuffer \in [Tcp!Bufs -> Seq(Tcp!Bytes)]
  /\ tWire \in [Tcp!Conns -> Seq(Tcp!Bytes)] /\ tRest \in [Tcp!Conns -> Seq(Tcp!Bytes)]
  /\ tBroken \subseteq Tcp!Conns
  /\ tSent \in [Tcp!Conns -> Seq(Carried)] /\ tGot \in [Tcp!Conns -> Seq(Parcel)]

\* The connections are dialled in their order.
TcpDialled ==
  \E m \in 0..NumConns : \A c \in Tcp!Conns : tConn[c] = "none" <=> c > m

\* A write that waits has a buffer of its own that holds the frame of its packet, whose
\* Send has returned; and every buffer that is not in the pool is that of a write.
TcpTasks ==
  /\ \A c \in Tcp!Conns : \A k \in 1..Len(tTasks[c]) :
       /\ tTasks[c][k].b \notin tPool /\ tSend[tTasks[c][k].p] = "returned"
       /\ tBuffer[tTasks[c][k].b] = Tcp!Frame(Payload[tTasks[c][k].p])
  /\ \A c, d \in Tcp!Conns : \A k \in 1..Len(tTasks[c]), l \in 1..Len(tTasks[d]) :
       tTasks[c][k].b = tTasks[d][l].b \/ tTasks[c][k].p = tTasks[d][l].p => c = d /\ k = l
  /\ \A b \in Tcp!Bufs \ tPool :
       \E c \in Tcp!Conns : \E k \in 1..Len(tTasks[c]) : tTasks[c][k].b = b

\* What was cut from connection c are the first payloads written to it, in their lengths,
\* and the frames of the others are in the receiver's buffer and under way.
StreamOf(c) ==
  /\ Len(tGot[c]) <= Len(tSent[c])
  /\ \A k \in 1..Len(tGot[c]) :
       /\ Len(tGot[c][k].payload) = Len(Payload[tSent[c][k]])
       /\ tGot[c][k].over \/ tGot[c][k].payload = Payload[tSent[c][k]]
  /\ c \notin tBroken =>
       tRest[c] \o tWire[c] = Stuffed(SubSeq(tSent[c], Len(tGot[c]) + 1, Len(tSent[c])))
  /\ c \in tBroken => tWire[c] = << >> /\ tConn[c] \in {"shut", "stopped"}
TcpStreams == \A c \in Tcp!Conns : StreamOf(c)

TcpInv == tFramed => TcpType /\ TcpDialled /\ TcpTasks /\ TcpStreams

\* The invariant holds initially.
LEMMA TcpInit == Tcp!Init => TcpInv
<1> SUFFICES ASSUME Tcp!Init PROVE TcpType /\ TcpDialled /\ TcpTasks /\ TcpStreams
  BY DEF TcpInv
<1> USE DEF Tcp!Init, Tcp!Conns
<1>1. /\ TcpConcurrency \in Nat /\ NumConns \in Nat /\ TcpConcurrency <= NumConns
  BY TcpAssumption
<1>2. \A S : << >> \in Seq(S) /\ Len(<< >>) = 0
  OBVIOUS
<1>3. TcpType
  <2>1. tConns \in Seq(1..NumConns)
    <3>1. \A k \in 1..TcpConcurrency : k \in 1..NumConns
      BY <1>1
    <3>2. tConns = [k \in 1..TcpConcurrency |-> k]
      OBVIOUS
    <3> QED BY <1>1, <3>1, <3>2
  <2>2. /\ tTasks \in [1..NumConns -> Seq(Task)] /\ tWire \in [1..NumConns -> Seq(Tcp!Bytes)]
        /\ tRest \in [1..NumConns -> Seq(Tcp!Bytes)] /\ tSent \in [1..NumConns -> Seq(Carried)]
        /\ tGot \in [1..NumConns -> Seq(Parcel)] /\ tBuffer \in [Tcp!Bufs -> Seq(Tcp!Bytes)]
    BY <1>2
  <2> QED BY <2>1, <2>2 DEF TcpType
<1>4. TcpDialled
  <2>1. \A c \in 1..NumConns : tConn[c] = "none" <=> c > TcpConcurrency
    BY <1>1
  <2>2. TcpConcurrency \in 0..NumConns
    BY <1>1
  <2> HIDE DEF Tcp!Init
  <2> QED BY <2>1, <2>2 DEF TcpDialled
<1>5. \A c \in 1..NumConns : tTasks[c] = << >> /\ 1..Len(tTasks[c]) = {}
  OBVIOUS
<1>6. TcpTasks
  BY <1>5 DEF TcpTasks
<1>7. ASSUME NEW c \in 1..NumConns PROVE StreamOf(c)
  <2>1. tGot[c] = << >> /\ tSent[c] = << >> /\ tRest[c] = << >> /\ tWire[c] = << >> /\ tBroken = {}
    OBVIOUS
  <2>2. PICK e \in Seq(Carried) : e = << >> /\ Len(e) = 0
    BY EmptySeq
  <2>3. Stuffed(e) = << >> /\ SubSeq(e, 1, 0) = e
    BY <2>2, StuffedIs, SubSeqFull
  <2>4. << >> \o << >> = << >>
    OBVIOUS
  <2>5. SubSeq(tSent[c], Len(tGot[c]) + 1, Len(tSent[c])) = e
    BY <2>1, <2>2, <2>3
  <2>6. Len(tGot[c]) = 0 /\ Len(tSent[c]) = 0 /\ 1..Len(tGot[c]) = {} /\ c \notin tBroken
    BY <2>1
  <2>7. tRest[c] \o tWire[c] = Stuffed(SubSeq(tSent[c], Len(tGot[c]) + 1, Len(tSent[c])))
    BY <2>1, <2>3, <2>4, <2>5
  <2> HIDE DEF Tcp!Init
  <2> QED BY <2>6, <2>7 DEF StreamOf
<1>8. TcpStreams
  BY <1>7 DEF TcpStreams
<1> QED BY <1>3, <1>4, <1>6, <1>8

\* What a waiting write consists of.
LEMMA TaskIs ==
  ASSUME TcpType, NEW c \in Tcp!Conns, NEW k \in 1..Len(tTasks[c])
  PROVE  /\ tTasks[c] \in Seq(Task) /\ tTasks[c][k] \in Task
         /\ tTasks[c][k].p \in Carried /\ tTasks[c][k].p \in Frames /\ tTasks[c][k].b \in Tcp!Bufs
<1>1. tTasks[c] \in Seq(Task)
  BY DEF TcpType
<1>2. tTasks[c][k] \in Task
  BY <1>1, ElementOfSeq
<1> QED BY <1>1, <1>2 DEF Task, Carried

\* A step that leaves tasks and buffers alone keeps what is said of them,
LEMMA TcpTasksSame ==
  ASSUME TcpType, TcpTasks, UNCHANGED <<tTasks, tPool, tBuffer>>,
         \A p \in Frames : tSend[p] = "returned" => tSend'[p] = "returned"
  PROVE  TcpTasks'
<1>1. \A c \in Tcp!Conns : \A k \in 1..Len(tTasks[c]) : tTasks[c][k].p \in Frames
  BY TaskIs
<1> QED BY <1>1 DEF TcpTasks

\* and so one that leaves the streams alone and opens no connection that broke.
LEMMA TcpStreamsSame ==
  ASSUME TcpStreams, UNCHANGED <<tSent, tGot, tRest, tWire, tBroken>>,
         \A c \in tBroken : tConn[c] \in {"shut", "stopped"} => tConn'[c] \in {"shut", "stopped"}
  PROVE  TcpStreams'
  BY DEF TcpStreams, StreamOf

\* What is said of a stream depends on the stream alone.
LEMMA StreamSame ==
  ASSUME NEW d, StreamOf(d), tSent'[d] = tSent[d], tGot'[d] = tGot[d], tRest'[d] = tRest[d],
         tWire'[d] = tWire[d], d \in tBroken' <=> d \in tBroken, tConn'[d] = tConn[d]
  PROVE  StreamOf(d)'
  BY DEF StreamOf

\* The sender's Send, but for the write.
LEMMA TcpSends ==
  ASSUME tFramed, TcpType, TcpDialled, TcpTasks, TcpStreams, NEW p \in Frames,
         Tcp!SendBegin(p) \/ Tcp!SendDial(p) \/ Tcp!SendAgain(p)
  PROVE  TcpType' /\ TcpDialled' /\ TcpTasks' /\ TcpStreams'
<1>1. ASSUME tConns # << >>, Tcp!pickConn(p)
      PROVE  /\ tPicked' = [tPicked EXCEPT ![p] = tConns[1 + (tRr % Len(tConns))]]
             /\ tSend' = [tSend EXCEPT ![p] = "write"] /\ UNCHANGED tConns
             /\ tConns[1 + (tRr % Len(tConns))] \in Tcp!Conns /\ tRr' \in Nat
  <2>1. Len(tConns) \in Nat \ {0} /\ tRr \in Nat
    BY <1>1 DEF TcpType
  <2>2. 1 + (tRr % Len(tConns)) \in 1..Len(tConns) /\ (tRr + 1) % Len(tConns) \in Nat
    BY <2>1
  <2>3. tConns[1 + (tRr % Len(tConns))] \in Tcp!Conns
    BY <2>2, ElementOfSeq DEF TcpType
  <2> QED BY <1>1, <2>1, <2>2, <2>3 DEF Tcp!pickConn
<1>2. CASE Tcp!SendBegin(p)
  <2>1. /\ tSend[p] = "new"
        /\ UNCHANGED <<tConn, tTasks, tPool, tBuffer, tWire, tRest, tBroken, tSent, tGot>>
    BY <1>2 DEF Tcp!SendBegin, Tcp!buffers, Tcp!history
  <2>2. CASE tConns # << >> /\ Tcp!pickConn(p)
    <3>1. TcpType'
      BY <1>1, <2>1, <2>2 DEF TcpType
    <3>2. \A q \in Frames : tSend[q] = "returned" => tSend'[q] = "returned"
      BY <1>1, <2>1, <2>2 DEF TcpType
    <3> QED BY <2>1, <3>1, <3>2, TcpTasksSame, TcpStreamsSame DEF TcpDialled
  <2>3. CASE tSend' = [tSend EXCEPT ![p] = "dial"] /\ UNCHANGED <<tPicked, tConns, tRr>>
    <3>1. TcpType'
      BY <2>1, <2>3 DEF TcpType
    <3>2. \A q \in Frames : tSend[q] = "returned" => tSend'[q] = "returned"
      BY <2>1, <2>3 DEF TcpType
    <3> QED BY <2>1, <3>1, <3>2, TcpTasksSame, TcpStreamsSame DEF TcpDialled
  <2> QED BY <1>2, <2>2, <2>3 DEF Tcp!SendBegin, Tcp!pooling
<1>3. CASE Tcp!SendAgain(p)
  <2>1. /\ tSend[p] = "again"
        /\ UNCHANGED <<tConn, tTasks, tPool, tBuffer, tWire, tRest, tBroken, tSent, tGot>>
    BY <1>3 DEF Tcp!SendAgain, Tcp!buffers, Tcp!history
  <2>2. CASE tConns # << >> /\ Tcp!pickConn(p)
    <3>1. TcpType'
      BY <1>1, <2>1, <2>2 DEF TcpType
    <3>2. \A q \in Frames : tSend[q] = "returned" => tSend'[q] = "returned"
      BY <1>1, <2>1, <2>2 DEF TcpType
    <3> QED BY <2>1, <3>1, <3>2, TcpTasksSame, TcpStreamsSame DEF TcpDialled
  <2>3. CASE tSend' = [tSend EXCEPT ![p] = "returned"] /\ UNCHANGED <<tPicked, tConns, tRr>>
    <3>1. TcpType'
      BY <2>1, <2>3 DEF TcpType
    <3>2. \A q \in Frames : tSend[q] = "returned" => tSend'[q] = "returned"
      BY <2>1, <2>3 DEF TcpType
    <3> QED BY <2>1, <3>1, <3>2, TcpTasksSame, TcpStreamsSame DEF TcpDialled
  <2> QED BY <1>3, <2>2, <2>3 DEF Tcp!SendAgain, Tcp!pooling, Tcp!Return
<1>4. CASE Tcp!SendDial(p)
  <2> DEFINE used == {c \in Tcp!Conns : tConn[c] # "none"}
  <2>1. PICK m \in 0..NumConns : \A c \in Tcp!Conns : tConn[c] = "none" <=> c > m
    BY DEF TcpDialled
  <2>2. Tcp!Cardinality(used) = m
    <3>1. NumConns \in Nat /\ m \in Nat /\ m <= NumConns
      BY TcpAssumption
    <3>2. used = 1..m
      BY <2>1, <3>1 DEF Tcp!Conns
    <3>3. Cardinality(1..m) = m
      BY <3>1, FS_Interval
    <3>4. \A S : Tcp!Cardinality(S) = Cardinality(S)
      BY DEF Tcp!Cardinality, Cardinality
    <3> QED BY <3>2, <3>3, <3>4
  <2>3. /\ tSend[p] = "dial" /\ tSend' = [tSend EXCEPT ![p] = "again"]
        /\ UNCHANGED <<tPicked, tRr, tTasks, tPool, tBuffer, tWire, tRest, tBroken, tSent, tGot>>
    BY <1>4 DEF Tcp!SendDial, Tcp!buffers, Tcp!history
  <2>4. PICK n \in 0..TcpConcurrency :
          /\ Tcp!Cardinality(used) + n <= NumConns
          /\ tConns' = [k \in 1..n |-> Tcp!Cardinality(used) + k]
          /\ tConn' = [c \in Tcp!Conns |-> IF c \in Tcp!Range(tConns') THEN "open" ELSE tConn[c]]
    BY <1>4 DEF Tcp!SendDial
  <2> HIDE DEF used
  <2>5. /\ n \in Nat /\ m \in Nat /\ m + n <= NumConns /\ m + n \in 0..NumConns
        /\ tConns' = [k \in 1..n |-> m + k]
        /\ \A k \in 1..n : m + k \in Tcp!Conns
    BY <2>2, <2>4, TcpAssumption DEF Tcp!Conns
  <2>6. tConns' \in Seq(Tcp!Conns) /\ Len(tConns') = n
    BY <2>5
  <2>7. \A c \in Tcp!Conns : c \in Tcp!Range(tConns') <=> c > m /\ c <= m + n
    <3>1. Tcp!Range(tConns') = {m + k : k \in 1..n}
      BY <2>5, <2>6 DEF Tcp!Range
    <3>2. \A c \in Tcp!Conns : c \in Nat
      BY DEF Tcp!Conns
    <3>3. ASSUME NEW c \in Tcp!Conns, c > m, c <= m + n PROVE c \in {m + k : k \in 1..n}
      <4>1. c - m \in 1..n /\ m + (c - m) = c
        BY <2>5, <3>2, <3>3
      <4> QED BY <4>1
    <3>4. ASSUME NEW k \in 1..n PROVE m + k > m /\ m + k <= m + n
      BY <2>5
    <3> QED BY <3>1, <3>3, <3>4
  <2>8. \A c \in Tcp!Conns : tConn'[c] = IF c > m /\ c <= m + n THEN "open" ELSE tConn[c]
    BY <2>4, <2>7
  <2>9. TcpType'
    <3>1. tConn' \in [Tcp!Conns -> {"none", "open", "shut", "stopped"}]
      BY <2>4 DEF TcpType
    <3> QED BY <2>3, <2>6, <3>1 DEF TcpType
  <2>10. TcpDialled'
    <3>1. \A c \in Tcp!Conns : c \in Nat
      BY DEF Tcp!Conns
    <3>2. \A c \in Tcp!Conns : tConn'[c] = "none" <=> c > m + n
      BY <2>1, <2>5, <2>8, <3>1
    <3> QED BY <2>5, <3>2 DEF TcpDialled
  <2>11. \A c \in tBroken : tConn[c] \in {"shut", "stopped"} => tConn'[c] \in {"shut", "stopped"}
    <3> SUFFICES ASSUME NEW c \in tBroken, tConn[c] \in {"shut", "stopped"}
                 PROVE  tConn'[c] = tConn[c]
      OBVIOUS
    <3>1. c \in Tcp!Conns /\ ~(c > m)
      BY <2>1 DEF TcpType
    <3> QED BY <2>8, <3>1
  <2>12. \A q \in Frames : tSend[q] = "returned" => tSend'[q] = "returned"
    BY <2>3 DEF TcpType
  <2> QED BY <2>3, <2>9, <2>10, <2>11, <2>12, TcpTasksSame, TcpStreamsSame
<1> QED BY <1>2, <1>3, <1>4

\* A Send that is about to write finds a buffer: the writes that wait are of other packets,
\* and there are as many buffers as packets.
LEMMA PoolLeft ==
  ASSUME TcpType, TcpTasks, NEW p \in Frames, tSend[p] = "write"
  PROVE  Tcp!FreeBuffer \in tPool
<1>1. IsFiniteSet(Frames) /\ Cardinality(Frames) \in Nat
  BY TcpAssumption, FS_CardinalityType
<1>2. Tcp!Bufs = 1..Cardinality(Frames)
  <2>1. \A S : Tcp!Cardinality(S) = Cardinality(S)
    BY DEF Tcp!Cardinality, Cardinality
  <2> QED BY <2>1 DEF Tcp!Bufs
<1>3. tPool # {}
  <2> SUFFICES ASSUME tPool = {} PROVE FALSE
    OBVIOUS
  <2>1. \A b \in Tcp!Bufs :
          \E q \in Frames : \E c \in Tcp!Conns : \E k \in 1..Len(tTasks[c]) :
            tTasks[c][k].b = b /\ tTasks[c][k].p = q
    BY TaskIs DEF TcpTasks
  <2> DEFINE f == [b \in Tcp!Bufs |-> CHOOSE q \in Frames :
                     \E c \in Tcp!Conns : \E k \in 1..Len(tTasks[c]) :
                       tTasks[c][k].b = b /\ tTasks[c][k].p = q]
  <2>2. ASSUME NEW b \in Tcp!Bufs
        PROVE  /\ f[b] \in Frames
               /\ \E c \in Tcp!Conns : \E k \in 1..Len(tTasks[c]) :
                    tTasks[c][k].b = b /\ tTasks[c][k].p = f[b]
    BY <2>1
  <2> HIDE DEF f
  <2>3. \A b \in Tcp!Bufs : f[b] \in Frames \ {p}
    <3> SUFFICES ASSUME NEW b \in Tcp!Bufs PROVE f[b] # p
      BY <2>2
    <3>1. PICK c \in Tcp!Conns : \E k \in 1..Len(tTasks[c]) : tTasks[c][k].p = f[b]
      BY <2>2
    <3>2. \A k \in 1..Len(tTasks[c]) : tSend[tTasks[c][k].p] = "returned"
      BY DEF TcpTasks
    <3> QED BY <3>1, <3>2
  <2>4. ASSUME NEW b \in Tcp!Bufs, NEW d \in Tcp!Bufs, f[b] = f[d] PROVE b = d
    <3>1. PICK c1 \in Tcp!Conns : \E k \in 1..Len(tTasks[c1]) :
            tTasks[c1][k].b = b /\ tTasks[c1][k].p = f[b]
      BY <2>2
    <3>2. PICK k1 \in 1..Len(tTasks[c1]) : tTasks[c1][k1].b = b /\ tTasks[c1][k1].p = f[b]
      BY <3>1
    <3>3. PICK c2 \in Tcp!Conns : \E k \in 1..Len(tTasks[c2]) :
            tTasks[c2][k].b = d /\ tTasks[c2][k].p = f[d]
      BY <2>2
    <3>4. PICK k2 \in 1..Len(tTasks[c2]) : tTasks[c2][k2].b = d /\ tTasks[c2][k2].p = f[d]
      BY <3>3
    <3>5. c1 = c2 /\ k1 = k2
      BY <2>4, <3>2, <3>4 DEF TcpTasks
    <3> QED BY <3>2, <3>4, <3>5
  <2>5. f \in Injection(Tcp!Bufs, Frames \ {p})
    <3>1. f = [b \in Tcp!Bufs |-> f[b]]
      BY DEF f
    <3>2. f \in [Tcp!Bufs -> Frames \ {p}]
      BY <2>3, <3>1
    <3> QED BY <2>4, <3>2 DEF Injection, IsInjective
  <2>6. IsFiniteSet(Frames \ {p}) /\ Cardinality(Frames \ {p}) = Cardinality(Frames) - 1
    BY <1>1, FS_RemoveElement
  <2>7. Cardinality(Tcp!Bufs) <= Cardinality(Frames \ {p})
    BY <2>5, <2>6, FS_Injection
  <2>8. Cardinality(Tcp!Bufs) = Cardinality(Frames)
    BY <1>1, <1>2, FS_Interval
  <2> QED BY <1>1, <2>6, <2>7, <2>8
<1> QED BY <1>3 DEF Tcp!FreeBuffer

\* A Send writes: the task is put behind the others.
LEMMA TcpWrites ==
  ASSUME tFramed, TcpType, TcpDialled, TcpTasks, TcpStreams, NEW p \in Frames, Tcp!SendWrite(p)
  PROVE  TcpType' /\ TcpDialled' /\ TcpTasks' /\ TcpStreams'
<1>1. /\ tSend[p] = "write" /\ tPicked' = [tPicked EXCEPT ![p] = None]
      /\ UNCHANGED <<tConns, tRr, tConn, tWire, tRest, tBroken, tSent, tGot>>
  BY DEF Tcp!SendWrite, Tcp!pooling, Tcp!history
<1>2. CASE tSend' = [tSend EXCEPT ![p] = "returned"] /\ UNCHANGED <<tTasks, tPool, tBuffer>>
  <2>1. TcpType'
    BY <1>1, <1>2 DEF TcpType
  <2>2. \A q \in Frames : tSend[q] = "returned" => tSend'[q] = "returned"
    BY <1>1, <1>2 DEF TcpType
  <2> QED BY <1>1, <1>2, <2>1, <2>2, TcpTasksSame, TcpStreamsSame DEF TcpDialled
<1>3. CASE /\ Len(Payload[p]) <= Tcp!MaxFrame
           /\ tTasks' = [tTasks EXCEPT ![tPicked[p]] = Append(@, [p |-> p, b |-> Tcp!FreeBuffer])]
           /\ tPool' = tPool \ {Tcp!FreeBuffer}
           /\ tBuffer' = [tBuffer EXCEPT ![Tcp!FreeBuffer] = Tcp!Frame(Payload[p])]
           /\ tSend' = [tSend EXCEPT ![p] = "returned"]
  <2>1. PICK c \in Tcp!Conns, b \in Tcp!Bufs : c = tPicked[p] /\ b = Tcp!FreeBuffer /\ b \in tPool
    BY <1>1, PoolLeft DEF TcpType
  <2>2. c \in Tcp!Conns /\ b \in tPool /\ b \in Tcp!Bufs /\ p \in Carried
    BY <1>3, <2>1 DEF Carried
  <2> DEFINE t == [p |-> p, b |-> b]
  <2>3. /\ tTasks' = [tTasks EXCEPT ![c] = Append(@, t)] /\ tPool' = tPool \ {b}
        /\ tBuffer' = [tBuffer EXCEPT ![b] = Tcp!Frame(Payload[p])]
        /\ tSend' = [tSend EXCEPT ![p] = "returned"]
    BY <1>3, <2>1
  <2>4. t \in Task /\ t.p = p /\ t.b = b
    BY <2>2 DEF Task
  <2> HIDE DEF t
  <2>5. /\ tTasks \in [Tcp!Conns -> Seq(Task)] /\ tTasks[c] \in Seq(Task) /\ Len(tTasks[c]) \in Nat
    BY <2>2 DEF TcpType
  <2>6. /\ Append(tTasks[c], t) \in Seq(Task) /\ Len(Append(tTasks[c], t)) = Len(tTasks[c]) + 1
        /\ Append(tTasks[c], t)[Len(tTasks[c]) + 1] = t
        /\ \A k \in 1..Len(tTasks[c]) : Append(tTasks[c], t)[k] = tTasks[c][k]
    BY <2>4, <2>5, AppendProperties
  <2>7. /\ tTasks'[c] = Append(tTasks[c], t) /\ \A d \in Tcp!Conns : d # c => tTasks'[d] = tTasks[d]
        /\ tTasks' \in [Tcp!Conns -> Seq(Task)]
    BY <2>2, <2>3, <2>5, <2>6
  <2>8. /\ tBuffer' \in [Tcp!Bufs -> Seq(Tcp!Bytes)] /\ tBuffer'[b] = Tcp!Frame(Payload[p])
        /\ \A d \in Tcp!Bufs : d # b => tBuffer'[d] = tBuffer[d]
    <3>1. Tcp!Frame(Payload[p]) \in Seq(Tcp!Bytes)
      BY <2>2, FrameIs
    <3> QED BY <2>2, <2>3, <3>1 DEF TcpType
  <2>9. TcpType'
    BY <1>1, <2>2, <2>3, <2>7, <2>8 DEF TcpType
  <2>10. \A q \in Frames : tSend[q] = "returned" => tSend'[q] = "returned" /\ q # p
    BY <1>1, <2>3 DEF TcpType
  <2>11. tSend'[p] = "returned"
    BY <2>3 DEF TcpType
  \* The tasks: those there were, and t.
  <2>12. \A d \in Tcp!Conns : \A k \in 1..Len(tTasks'[d]) :
           \/ k \in 1..Len(tTasks[d]) /\ tTasks'[d][k] = tTasks[d][k]
           \/ d = c /\ k = Len(tTasks[c]) + 1 /\ tTasks'[d][k] = t
    <3> SUFFICES ASSUME NEW d \in Tcp!Conns, NEW k \in 1..Len(tTasks'[d])
                 PROVE  \/ k \in 1..Len(tTasks[d]) /\ tTasks'[d][k] = tTasks[d][k]
                        \/ d = c /\ k = Len(tTasks[c]) + 1 /\ tTasks'[d][k] = t
      OBVIOUS
    <3>1. CASE d # c
      BY <2>7, <3>1
    <3>2. CASE d = c
      <4>1. k \in 1..Len(tTasks[c]) \/ k = Len(tTasks[c]) + 1
        BY <2>5, <2>6, <2>7, <3>2
      <4> QED BY <2>6, <2>7, <3>2, <4>1
    <3> QED BY <3>1, <3>2
  <2>13. \A d \in Tcp!Conns : \A k \in 1..Len(tTasks[d]) :
           /\ tTasks[d][k].b \in Tcp!Bufs /\ tTasks[d][k].b # b /\ tTasks[d][k].b \notin tPool
           /\ tTasks[d][k].p \in Frames /\ tTasks[d][k].p # p
           /\ tSend[tTasks[d][k].p] = "returned"
           /\ tBuffer[tTasks[d][k].b] = Tcp!Frame(Payload[tTasks[d][k].p])
    BY <2>2, <2>10, TaskIs DEF TcpTasks
  <2>14. \A d \in Tcp!Conns : \A k \in 1..Len(tTasks'[d]) :
           /\ tTasks'[d][k].b \notin tPool' /\ tSend'[tTasks'[d][k].p] = "returned"
           /\ tBuffer'[tTasks'[d][k].b] = Tcp!Frame(Payload[tTasks'[d][k].p])
    <3> SUFFICES ASSUME NEW d \in Tcp!Conns, NEW k \in 1..Len(tTasks'[d])
                 PROVE  /\ tTasks'[d][k].b \notin tPool' /\ tSend'[tTasks'[d][k].p] = "returned"
                        /\ tBuffer'[tTasks'[d][k].b] = Tcp!Frame(Payload[tTasks'[d][k].p])
      OBVIOUS
    <3>1. CASE k \in 1..Len(tTasks[d]) /\ tTasks'[d][k] = tTasks[d][k]
      BY <2>3, <2>8, <2>10, <2>13, <3>1
    <3>2. CASE tTasks'[d][k] = t
      BY <2>3, <2>4, <2>8, <2>11, <3>2
    <3> QED BY <2>12, <3>1, <3>2
  <2>15. \A d, e \in Tcp!Conns : \A k \in 1..Len(tTasks'[d]), l \in 1..Len(tTasks'[e]) :
           tTasks'[d][k].b = tTasks'[e][l].b \/ tTasks'[d][k].p = tTasks'[e][l].p => d = e /\ k = l
    <3> SUFFICES ASSUME NEW d \in Tcp!Conns, NEW e \in Tcp!Conns,
                        NEW k \in 1..Len(tTasks'[d]), NEW l \in 1..Len(tTasks'[e]),
                        tTasks'[d][k].b = tTasks'[e][l].b \/ tTasks'[d][k].p = tTasks'[e][l].p
                 PROVE  d = e /\ k = l
      OBVIOUS
    <3>1. CASE /\ k \in 1..Len(tTasks[d]) /\ tTasks'[d][k] = tTasks[d][k]
               /\ l \in 1..Len(tTasks[e]) /\ tTasks'[e][l] = tTasks[e][l]
      BY <3>1 DEF TcpTasks
    <3>2. CASE /\ k \in 1..Len(tTasks[d]) /\ tTasks'[d][k] = tTasks[d][k]
               /\ e = c /\ l = Len(tTasks[c]) + 1 /\ tTasks'[e][l] = t
      BY <2>4, <2>13, <3>2
    <3>3. CASE /\ d = c /\ k = Len(tTasks[c]) + 1 /\ tTasks'[d][k] = t
               /\ l \in 1..Len(tTasks[e]) /\ tTasks'[e][l] = tTasks[e][l]
      BY <2>4, <2>13, <3>3
    <3>4. CASE /\ d = c /\ k = Len(tTasks[c]) + 1 /\ e = c /\ l = Len(tTasks[c]) + 1
      BY <3>4
    <3> QED BY <2>12, <3>1, <3>2, <3>3, <3>4
  <2>16. \A x \in Tcp!Bufs \ tPool' :
           \E d \in Tcp!Conns : \E k \in 1..Len(tTasks'[d]) : tTasks'[d][k].b = x
    <3> SUFFICES ASSUME NEW x \in Tcp!Bufs, x \notin tPool'
                 PROVE  \E d \in Tcp!Conns : \E k \in 1..Len(tTasks'[d]) : tTasks'[d][k].b = x
      OBVIOUS
    <3>1. CASE x = b
      <4>1. Len(tTasks[c]) + 1 \in 1..Len(tTasks'[c]) /\ tTasks'[c][Len(tTasks[c]) + 1] = t
        BY <2>5, <2>6, <2>7
      <4> QED BY <2>2, <2>4, <3>1, <4>1
    <3>2. CASE x # b
      <4>1. PICK d \in Tcp!Conns : \E k \in 1..Len(tTasks[d]) : tTasks[d][k].b = x
        BY <2>3, <3>2 DEF TcpTasks
      <4>2. PICK k \in 1..Len(tTasks[d]) : tTasks[d][k].b = x
        BY <4>1
      <4>3. k \in 1..Len(tTasks'[d]) /\ tTasks'[d][k] = tTasks[d][k]
        <5>1. CASE d # c
          BY <2>7, <5>1
        <5>2. CASE d = c
          <6>1. k \in 1..(Len(tTasks[c]) + 1) /\ k \in 1..Len(tTasks[c])
            BY <2>5, <5>2
          <6> QED BY <2>6, <2>7, <5>2, <6>1
        <5> QED BY <5>1, <5>2
      <4> QED BY <4>2, <4>3
    <3> QED BY <3>1, <3>2
  <2>17. TcpTasks'
    BY <2>14, <2>15, <2>16 DEF TcpTasks
  <2> QED BY <1>1, <2>9, <2>17, TcpStreamsSame DEF TcpDialled
<1> QED BY <1>2, <1>3 DEF Tcp!SendWrite, Tcp!Return, Tcp!KeptForCallback, Tcp!buffers

\* What is left of a sequence that gains an item.
LEMMA AppendLeft ==
  ASSUME NEW ps \in Seq(Carried), NEW p \in Carried, NEW g \in Nat, g <= Len(ps)
  PROVE  SubSeq(Append(ps, p), g + 1, Len(ps) + 1) = Append(SubSeq(ps, g + 1, Len(ps)), p)
<1> DEFINE qs == Append(ps, p)
           left == SubSeq(ps, g + 1, Len(ps))
           L == Len(ps)
<1>1. /\ qs \in Seq(Carried) /\ Len(qs) = L + 1 /\ L \in Nat /\ qs[L + 1] = p
      /\ \A k \in 1..L : qs[k] = ps[k]
  OBVIOUS
<1>2. left \in Seq(Carried) /\ Len(left) = L - g /\ \A k \in 1..(L - g) : left[k] = ps[g + k]
  OBVIOUS
<1> HIDE DEF qs, left, L
<1> DEFINE u == SubSeq(qs, g + 1, L + 1)
           v == Append(left, p)
<1>3. u \in Seq(Carried) /\ Len(u) = L + 1 - g /\ \A k \in 1..(L + 1 - g) : u[k] = qs[g + k]
  <2>1. g <= L
    BY DEF L
  <2> QED BY <1>1, <2>1
<1>4. /\ v \in Seq(Carried) /\ Len(v) = (L - g) + 1 /\ v[(L - g) + 1] = p
      /\ \A k \in 1..(L - g) : v[k] = left[k]
  BY <1>2, AppendProperties
<1>5. ASSUME NEW k \in 1..(L + 1 - g) PROVE u[k] = v[k]
  <2>1. CASE k \in 1..(L - g)
    <3>1. g + k \in 1..L
      BY <1>1, <2>1
    <3> QED BY <1>1, <1>2, <1>3, <1>4, <2>1, <3>1
  <2>2. CASE k = (L - g) + 1
    <3>1. g + k = L + 1
      BY <1>1, <2>2
    <3> QED BY <1>1, <1>3, <1>4, <2>2, <3>1
  <2>3. k \in 1..(L - g) \/ k = (L - g) + 1
    BY <1>1
  <2> QED BY <2>1, <2>2, <2>3
<1>6. Len(u) = Len(v)
  BY <1>1, <1>3, <1>4
<1> HIDE DEF u, v
<1>7. u = v
  BY <1>3, <1>4, <1>5, <1>6, SeqEqual
<1> QED BY <1>7 DEF u, v, qs, left, L

\* An event loop runs the first write: its buffer goes back, its frame behind the stream.
LEMMA TcpRuns ==
  ASSUME tFramed, TcpType, TcpDialled, TcpTasks, TcpStreams, NEW c \in Tcp!Conns, Tcp!RunWrite(c)
  PROVE  TcpType' /\ TcpDialled' /\ TcpTasks' /\ TcpStreams'
<1>1. /\ tTasks[c] # << >> /\ tTasks' = [tTasks EXCEPT ![c] = Tail(@)]
      /\ UNCHANGED <<tSend, tPicked, tConns, tRr, tConn, tRest, tBroken, tGot>>
      /\ Tcp!releaseFrameBuf(Head(tTasks[c]).b)
  BY DEF Tcp!RunWrite, Tcp!sending, Tcp!pooling
<1>2. tTasks \in [Tcp!Conns -> Seq(Task)] /\ tTasks[c] \in Seq(Task) /\ Len(tTasks[c]) \in Nat \ {0}
  BY <1>1, EmptySeq DEF TcpType
<1>3. PICK t \in Task : t = Head(tTasks[c]) /\ t = tTasks[c][1]
  BY <1>1, <1>2
<1>4. t.b \in Tcp!Bufs /\ t.p \in Carried /\ t.p \in Frames
  BY DEF Task, Carried
<1>5. tPool' = tPool \cup {t.b} /\ tBuffer' = [tBuffer EXCEPT ![t.b] = << >>]
  BY <1>1, <1>3 DEF Tcp!releaseFrameBuf
<1>6. /\ Tail(tTasks[c]) \in Seq(Task) /\ Len(Tail(tTasks[c])) = Len(tTasks[c]) - 1
      /\ \A k \in 1..(Len(tTasks[c]) - 1) : Tail(tTasks[c])[k] = tTasks[c][k + 1]
  BY <1>1, <1>2, HeadTailProperties
<1>7. /\ tTasks' \in [Tcp!Conns -> Seq(Task)] /\ tTasks'[c] = Tail(tTasks[c])
      /\ \A d \in Tcp!Conns : d # c => tTasks'[d] = tTasks[d]
  BY <1>1, <1>2, <1>6
<1>8. /\ tBuffer' \in [Tcp!Bufs -> Seq(Tcp!Bytes)]
      /\ \A b \in Tcp!Bufs : b # t.b => tBuffer'[b] = tBuffer[b]
  <2>1. << >> \in Seq(Tcp!Bytes)
    OBVIOUS
  <2> QED BY <1>4, <1>5, <2>1 DEF TcpType
<1>9. 1 \in 1..Len(tTasks[c])
  BY <1>2
\* What the tasks were before: those of c move up by one.
<1> DEFINE up == [d \in Tcp!Conns |-> IF d = c THEN 1 ELSE 0]
<1>10. \A d \in Tcp!Conns : up[d] \in {0, 1} /\ (d = c <=> up[d] = 1)
  OBVIOUS
<1> HIDE DEF up
<1>11. \A d \in Tcp!Conns : \A k \in 1..Len(tTasks'[d]) :
         /\ k + up[d] \in 1..Len(tTasks[d]) /\ tTasks'[d][k] = tTasks[d][k + up[d]]
         /\ ~(d = c /\ k + up[d] = 1)
  <2> SUFFICES ASSUME NEW d \in Tcp!Conns, NEW k \in 1..Len(tTasks'[d])
               PROVE  /\ k + up[d] \in 1..Len(tTasks[d]) /\ tTasks'[d][k] = tTasks[d][k + up[d]]
                      /\ ~(d = c /\ k + up[d] = 1)
    OBVIOUS
  <2>1. CASE d # c
    <3>1. tTasks'[d] = tTasks[d] /\ up[d] = 0 /\ k + 0 = k
      BY <1>7, <1>10, <2>1
    <3> QED BY <2>1, <3>1
  <2>2. CASE d = c
    <3>1. k \in 1..(Len(tTasks[c]) - 1) /\ up[d] = 1
      BY <1>6, <1>7, <1>10, <2>2
    <3>2. k + 1 \in 1..Len(tTasks[c]) /\ k + 1 # 1
      BY <1>2, <3>1
    <3> QED BY <1>6, <1>7, <2>2, <3>1, <3>2
  <2> QED BY <2>1, <2>2
<1>12. \A d \in Tcp!Conns : \A k \in 1..Len(tTasks[d]) :
         (d = c /\ k = 1) \/ tTasks[d][k].b # t.b
  BY <1>3, <1>9 DEF TcpTasks
<1>13. TcpTasks'
  <2>1. ASSUME NEW d \in Tcp!Conns, NEW k \in 1..Len(tTasks'[d])
        PROVE  /\ tTasks'[d][k].b \notin tPool' /\ tSend'[tTasks'[d][k].p] = "returned"
               /\ tBuffer'[tTasks'[d][k].b] = Tcp!Frame(Payload[tTasks'[d][k].p])
    <3>1. PICK l \in 1..Len(tTasks[d]) : tTasks'[d][k] = tTasks[d][l] /\ ~(d = c /\ l = 1)
      BY <1>11
    <3>2. /\ tTasks[d][l].b \in Tcp!Bufs /\ tTasks[d][l].b # t.b
          /\ tTasks[d][l].b \notin tPool /\ tSend[tTasks[d][l].p] = "returned"
          /\ tBuffer[tTasks[d][l].b] = Tcp!Frame(Payload[tTasks[d][l].p])
      BY <1>12, <3>1, TaskIs DEF TcpTasks
    <3> QED BY <1>1, <1>5, <1>8, <3>1, <3>2
  <2>2. ASSUME NEW d \in Tcp!Conns, NEW e \in Tcp!Conns,
               NEW k \in 1..Len(tTasks'[d]), NEW l \in 1..Len(tTasks'[e]),
               tTasks'[d][k].b = tTasks'[e][l].b \/ tTasks'[d][k].p = tTasks'[e][l].p
        PROVE  d = e /\ k = l
    <3>1. /\ k + up[d] \in 1..Len(tTasks[d]) /\ tTasks'[d][k] = tTasks[d][k + up[d]]
          /\ l + up[e] \in 1..Len(tTasks[e]) /\ tTasks'[e][l] = tTasks[e][l + up[e]]
      BY <1>11
    <3>2. d = e /\ k + up[d] = l + up[e]
      <4>1. PICK i \in 1..Len(tTasks[d]) : i = k + up[d]
        BY <3>1
      <4>2. PICK j \in 1..Len(tTasks[e]) : j = l + up[e]
        BY <3>1
      <4>3. tTasks[d][i].b = tTasks[e][j].b \/ tTasks[d][i].p = tTasks[e][j].p
        BY <2>2, <3>1, <4>1, <4>2
      <4>4. d = e /\ i = j
        BY <4>3 DEF TcpTasks
      <4> QED BY <4>1, <4>2, <4>4
    <3>3. k \in Int /\ l \in Int /\ up[d] \in {0, 1}
      BY <1>10
    <3> QED BY <3>2, <3>3
  <2>3. ASSUME NEW x \in Tcp!Bufs, x \notin tPool'
        PROVE  \E d \in Tcp!Conns : \E k \in 1..Len(tTasks'[d]) : tTasks'[d][k].b = x
    <3>1. x # t.b /\ x \notin tPool
      BY <1>5, <2>3
    <3>2. PICK d \in Tcp!Conns : \E k \in 1..Len(tTasks[d]) : tTasks[d][k].b = x
      BY <3>1 DEF TcpTasks
    <3>3. PICK k \in 1..Len(tTasks[d]) : tTasks[d][k].b = x
      BY <3>2
    <3>4. CASE d # c
      BY <1>7, <3>3, <3>4
    <3>5. CASE d = c
      <4>1. k # 1
        BY <1>3, <3>1, <3>3, <3>5
      <4>2. k - 1 \in 1..(Len(tTasks[c]) - 1) /\ (k - 1) + 1 = k
        BY <1>2, <3>5, <4>1
      <4>3. k - 1 \in 1..Len(tTasks'[c]) /\ tTasks'[c][k - 1] = tTasks[c][k]
        BY <1>6, <1>7, <4>2
      <4> QED BY <3>3, <3>5, <4>3
    <3> QED BY <3>4, <3>5
  <2> QED BY <2>1, <2>2, <2>3 DEF TcpTasks
<1>14. TcpDialled'
  BY <1>1 DEF TcpDialled
<1>15. tPool' \subseteq Tcp!Bufs
  BY <1>4, <1>5 DEF TcpType
<1>16. CASE tConn[c] # "open" /\ UNCHANGED <<tWire, tSent>>
  <2>1. TcpType'
    BY <1>1, <1>7, <1>8, <1>15, <1>16 DEF TcpType
  <2> QED BY <1>1, <1>13, <1>14, <1>16, <2>1, TcpStreamsSame
<1>17. CASE /\ tConn[c] = "open" /\ tWire' = [tWire EXCEPT ![c] = @ \o Tcp!Data(t)]
            /\ tSent' = [tSent EXCEPT ![c] = Append(@, t.p)]
  <2> DEFINE fr == Tcp!Frame(Payload[t.p])
  <2>1. Tcp!Data(t) = fr /\ fr \in Seq(Tcp!Bytes)
    <3>1. tBuffer[t.b] = fr
      BY <1>3, <1>9 DEF TcpTasks
    <3> QED BY <1>4, <3>1, FrameIs DEF Tcp!Data
  <2> HIDE DEF fr
  <2>2. PICK ps \in Seq(Carried) : ps = tSent[c]
    BY DEF TcpType
  <2>3. PICK w \in Seq(Tcp!Bytes) : w = tWire[c]
    BY DEF TcpType
  <2>4. w \o fr \in Seq(Tcp!Bytes) /\ Append(ps, t.p) \in Seq(Carried)
    BY <1>4, <2>1, ConcatProperties
  <2>5. /\ tWire' \in [Tcp!Conns -> Seq(Tcp!Bytes)] /\ tWire'[c] = w \o fr
        /\ tSent' \in [Tcp!Conns -> Seq(Carried)] /\ tSent'[c] = Append(ps, t.p)
        /\ \A d \in Tcp!Conns : d # c => tWire'[d] = tWire[d] /\ tSent'[d] = tSent[d]
    BY <1>17, <2>1, <2>2, <2>3, <2>4 DEF TcpType
  <2>6. TcpType'
    BY <1>1, <1>7, <1>8, <1>15, <2>5 DEF TcpType
  <2>7. ASSUME NEW d \in Tcp!Conns, d # c PROVE StreamOf(d)'
    <3>1. StreamOf(d)
      BY DEF TcpStreams
    <3>2. /\ tGot'[d] = tGot[d] /\ tRest'[d] = tRest[d] /\ tConn'[d] = tConn[d]
          /\ d \in tBroken' <=> d \in tBroken
      BY <1>1
    <3> QED BY <2>5, <2>7, <3>1, <3>2, StreamSame
  <2>8. StreamOf(c)'
    <3>1. StreamOf(c)
      BY DEF TcpStreams
    <3>2. c \notin tBroken
      BY <1>17, <3>1 DEF StreamOf
    <3>3. /\ Len(tGot[c]) \in Nat /\ Len(tGot[c]) <= Len(ps) /\ Len(ps) \in Nat
          /\ tRest[c] \o w = Stuffed(SubSeq(ps, Len(tGot[c]) + 1, Len(ps)))
      BY <2>2, <2>3, <3>1, <3>2 DEF StreamOf, TcpType
    <3>4. PICK g \in Nat : g = Len(tGot[c])
      BY <3>3
    <3> DEFINE qs == Append(ps, t.p)
               left == SubSeq(ps, g + 1, Len(ps))
    <3>5. /\ Len(qs) = Len(ps) + 1 /\ \A k \in 1..Len(ps) : qs[k] = ps[k]
      OBVIOUS
    <3>6. left \in Seq(Carried)
      BY <3>3, <3>4
    <3>7. SubSeq(qs, g + 1, Len(ps) + 1) = Append(left, t.p)
      BY <1>4, <3>3, <3>4, AppendLeft
    <3>8. Stuffed(Append(left, t.p)) = Stuffed(left) \o fr
      BY <1>4, <3>6, StuffedIs DEF fr
    <3>9. (tRest[c] \o w) \o fr = tRest[c] \o (w \o fr)
      <4>1. tRest[c] \in Seq(Tcp!Bytes)
        BY DEF TcpType
      <4>2. \A x, y, z \in Seq(Tcp!Bytes) : (x \o y) \o z = x \o (y \o z)
        BY Associates
      <4> QED BY <2>1, <4>1, <4>2
    <3> HIDE DEF qs, left
    <3>10. tRest[c] \o (w \o fr) = Stuffed(SubSeq(qs, g + 1, Len(qs)))
      BY <3>3, <3>4, <3>5, <3>7, <3>8, <3>9 DEF left
    <3>11. \A k \in 1..g : /\ Len(tGot[c][k].payload) = Len(Payload[qs[k]])
                           /\ tGot[c][k].over \/ tGot[c][k].payload = Payload[qs[k]]
      <4>1. ASSUME NEW k \in 1..g
            PROVE  /\ Len(tGot[c][k].payload) = Len(Payload[ps[k]])
                   /\ tGot[c][k].over \/ tGot[c][k].payload = Payload[ps[k]]
        BY <2>2, <3>1, <3>4 DEF StreamOf
      <4>2. \A k \in 1..g : k \in 1..Len(ps)
        BY <3>3, <3>4
      <4> QED BY <3>5, <4>1, <4>2
    <3>12. tSent'[c] = qs /\ tGot'[c] = tGot[c] /\ tRest'[c] = tRest[c] /\ tWire'[c] = w \o fr
           /\ tBroken' = tBroken
      BY <1>1, <2>5 DEF qs
    <3>13. Len(tGot'[c]) = g /\ Len(tGot'[c]) <= Len(tSent'[c]) /\ c \notin tBroken'
      BY <3>2, <3>3, <3>4, <3>5, <3>12
    <3>14. tRest'[c] \o tWire'[c] = Stuffed(SubSeq(tSent'[c], Len(tGot'[c]) + 1, Len(tSent'[c])))
      BY <3>10, <3>12, <3>13
    <3>15. \A k \in 1..Len(tGot'[c]) :
             /\ Len(tGot'[c][k].payload) = Len(Payload[tSent'[c][k]])
             /\ tGot'[c][k].over \/ tGot'[c][k].payload = Payload[tSent'[c][k]]
      BY <3>11, <3>12, <3>13
    <3> QED BY <3>13, <3>14, <3>15 DEF StreamOf
  <2>9. TcpStreams'
    BY <2>7, <2>8 DEF TcpStreams
  <2> QED BY <1>13, <1>14, <2>6, <2>9
<1> QED BY <1>3, <1>16, <1>17 DEF Tcp!RunWrite

\* A connection is closed or breaks, the sender is closed.
LEMMA TcpEnds ==
  ASSUME tFramed, TcpType, TcpDialled, TcpTasks, TcpStreams,
         \/ \E c \in Tcp!Conns : Tcp!RunClose(c) \/ Tcp!Break(c)
         \/ Tcp!CloseConns \/ Tcp!CloseStore \/ Tcp!CloseClient
  PROVE  TcpType' /\ TcpDialled' /\ TcpTasks' /\ TcpStreams'
<1> USE DEF Tcp!sending, Tcp!buffers, Tcp!history
<1>1. ASSUME NEW c \in Tcp!Conns, Tcp!RunClose(c)
      PROVE  TcpType' /\ TcpDialled' /\ TcpTasks' /\ TcpStreams'
  <2>1. /\ tConn[c] = "open" /\ tConn' = [tConn EXCEPT ![c] = "shut"]
        /\ UNCHANGED <<tSend, tPicked, tConns, tRr, tTasks, tPool, tBuffer, tWire, tRest, tBroken,
                       tSent, tGot>>
    BY <1>1 DEF Tcp!RunClose, Tcp!pooling
  <2>2. TcpType'
    BY <2>1 DEF TcpType
  <2>3. TcpDialled'
    BY <2>1 DEF TcpDialled, TcpType
  <2>4. \A d \in tBroken : tConn[d] \in {"shut", "stopped"} => tConn'[d] \in {"shut", "stopped"}
    BY <2>1 DEF TcpType
  <2> QED BY <2>1, <2>2, <2>3, <2>4, TcpTasksSame, TcpStreamsSame
<1>2. ASSUME NEW c \in Tcp!Conns, Tcp!Break(c)
      PROVE  TcpType' /\ TcpDialled' /\ TcpTasks' /\ TcpStreams'
  <2>1. /\ tConn[c] \in {"open", "shut"} /\ tConn' = [tConn EXCEPT ![c] = "shut"]
        /\ tBroken' = tBroken \cup {c} /\ tWire' = [tWire EXCEPT ![c] = << >>]
        /\ UNCHANGED <<tSend, tPicked, tConns, tRr, tTasks, tPool, tBuffer, tRest, tSent, tGot>>
    BY <1>2 DEF Tcp!Break, Tcp!pooling
  <2>2. << >> \in Seq(Tcp!Bytes)
    OBVIOUS
  <2>3. TcpType'
    BY <2>1, <2>2 DEF TcpType
  <2>4. TcpDialled'
    BY <2>1 DEF TcpDialled, TcpType
  <2>5. /\ tWire'[c] = << >> /\ tConn'[c] = "shut" /\ c \in tBroken'
        /\ \A d \in Tcp!Conns : d # c =>
             tWire'[d] = tWire[d] /\ tConn'[d] = tConn[d] /\ (d \in tBroken' <=> d \in tBroken)
    BY <2>1 DEF TcpType
  <2>6. TcpStreams'
    <3>1. ASSUME NEW d \in Tcp!Conns, d # c PROVE StreamOf(d)'
      <4>1. StreamOf(d)
        BY DEF TcpStreams
      <4>2. tSent'[d] = tSent[d] /\ tGot'[d] = tGot[d] /\ tRest'[d] = tRest[d]
        BY <2>1
      <4> QED BY <2>5, <3>1, <4>1, <4>2, StreamSame
    <3>2. StreamOf(c)'
      <4>1. StreamOf(c)
        BY DEF TcpStreams
      <4> QED BY <2>1, <2>5, <4>1 DEF StreamOf
    <3> QED BY <3>1, <3>2 DEF TcpStreams
  <2> QED BY <2>1, <2>3, <2>4, <2>6, TcpTasksSame
<1>3. CASE Tcp!CloseConns
  <2>1. UNCHANGED <<tSend, tPicked, tConns, tRr, tConn, tTasks, tPool, tBuffer, tWire, tRest,
                    tBroken, tSent, tGot>>
    BY <1>3 DEF Tcp!CloseConns, Tcp!pooling
  <2> QED BY <2>1, TcpTasksSame, TcpStreamsSame DEF TcpType, TcpDialled
<1>4. CASE Tcp!CloseStore
  <2>1. /\ tConns' = << >>
        /\ UNCHANGED <<tSend, tPicked, tRr, tConn, tTasks, tPool, tBuffer, tWire, tRest,
                       tBroken, tSent, tGot>>
    BY <1>4 DEF Tcp!CloseStore
  <2>2. TcpType'
    BY <2>1 DEF TcpType
  <2> QED BY <2>1, <2>2, TcpTasksSame, TcpStreamsSame DEF TcpDialled
<1>5. CASE Tcp!CloseClient
  <2>1. /\ tConn' = [c \in Tcp!Conns |-> IF tConn[c] = "none" THEN "none" ELSE "stopped"]
        /\ UNCHANGED <<tSend, tPicked, tConns, tRr, tTasks, tPool, tBuffer, tWire, tRest,
                       tBroken, tSent, tGot>>
    BY <1>5 DEF Tcp!CloseClient
  <2>2. TcpType'
    BY <2>1 DEF TcpType
  <2>3. TcpDialled'
    BY <2>1 DEF TcpDialled
  <2>4. \A d \in tBroken : tConn[d] \in {"shut", "stopped"} => tConn'[d] \in {"shut", "stopped"}
    BY <2>1 DEF TcpType
  <2> QED BY <2>1, <2>2, <2>3, <2>4, TcpTasksSame, TcpStreamsSame
<1> QED BY <1>1, <1>2, <1>3, <1>4, <1>5

\* What is left of a sequence behind its first m items.
LEMMA SuffixIs ==
  ASSUME NEW q \in Seq(Carried), NEW m \in Nat, m <= Len(q)
  PROVE  /\ SubSeq(q, m + 1, Len(q)) \in Seq(Carried) /\ Len(SubSeq(q, m + 1, Len(q))) = Len(q) - m
         /\ \A i \in 1..(Len(q) - m) : SubSeq(q, m + 1, Len(q))[i] = q[m + i]
  OBVIOUS

\* The receiver reads k bytes more, and cuts what packets it can from them.
LEMMA TcpTraffic ==
  ASSUME tFramed, TcpType, TcpDialled, TcpTasks, TcpStreams, NEW c \in Tcp!Conns,
         NEW k \in 1..Len(tWire[c]), Tcp!OnTraffic(c, k)
  PROVE  TcpType' /\ TcpDialled' /\ TcpTasks' /\ TcpStreams'
<1> DEFINE buf == tRest[c] \o SubSeq(tWire[c], 1, k)
           w == SubSeq(tWire[c], k + 1, Len(tWire[c]))
           fed == Tcp!Feed(buf)
           remain == SubSeq(buf, fed.remain, Len(buf))
           moved == Moved(buf, remain)
           parcels == [f \in DOMAIN fed.frames |->
                     [payload |-> SubSeq(moved, fed.frames[f][1], fed.frames[f][2]),
                      over |-> fed.frames[f][1] <= Len(remain)]]
           g == Len(tGot[c])
           left == SubSeq(tSent[c], g + 1, Len(tSent[c]))
<1>1. /\ tWire' = [tWire EXCEPT ![c] = w] /\ tRest' = [tRest EXCEPT ![c] = remain]
      /\ tGot' = [tGot EXCEPT ![c] = @ \o parcels]
      /\ UNCHANGED <<tSend, tPicked, tConns, tRr, tConn, tTasks, tPool, tBuffer, tBroken, tSent>>
  BY Zenon DEF Moved, Tcp!OnTraffic, Tcp!sending, Tcp!pooling, Tcp!buffers
<1>2. /\ tWire[c] \in Seq(Tcp!Bytes) /\ tRest[c] \in Seq(Tcp!Bytes) /\ tSent[c] \in Seq(Carried)
      /\ tGot[c] \in Seq(Parcel) /\ tWire \in [Tcp!Conns -> Seq(Tcp!Bytes)]
      /\ tRest \in [Tcp!Conns -> Seq(Tcp!Bytes)] /\ tGot \in [Tcp!Conns -> Seq(Parcel)]
  BY DEF TcpType
<1>3. /\ g \in Nat /\ Len(tSent[c]) \in Nat /\ g <= Len(tSent[c])
      /\ \A i \in 1..g :
           /\ Len(tGot[c][i].payload) = Len(Payload[tSent[c][i]])
           /\ tGot[c][i].over \/ tGot[c][i].payload = Payload[tSent[c][i]]
      /\ c \in tBroken => tWire[c] = << >>
      /\ c \notin tBroken => tRest[c] \o tWire[c] = Stuffed(left)
  <2>1. StreamOf(c)
    BY DEF TcpStreams
  <2>2. g \in Nat /\ Len(tSent[c]) \in Nat
    BY <1>2
  <2> QED BY <2>1, <2>2 DEF StreamOf
<1>4. c \notin tBroken
  <2> SUFFICES ASSUME tWire[c] = << >> PROVE FALSE
    BY <1>3
  <2>1. Len(tWire[c]) = 0
    OBVIOUS
  <2> QED BY <2>1
<1>5. /\ buf \in Seq(Tcp!Bytes) /\ w \in Seq(Tcp!Bytes) /\ left \in Seq(Carried)
      /\ Len(left) = Len(tSent[c]) - g /\ \A i \in 1..(Len(tSent[c]) - g) : left[i] = tSent[c][g + i]
      /\ buf \o w = Stuffed(left)
  <2> DEFINE a == SubSeq(tWire[c], 1, k)
  <2>1. a \in Seq(Tcp!Bytes) /\ w \in Seq(Tcp!Bytes) /\ a \o w = tWire[c]
    <3>1. PICK v \in Seq(Tcp!Bytes) : v = tWire[c]
      BY <1>2
    <3>2. Len(v) \in Nat /\ k \in 1..Len(v)
      BY <3>1
    <3>3. SubSeq(v, 1, k) \in Seq(Tcp!Bytes) /\ SubSeq(v, k + 1, Len(v)) \in Seq(Tcp!Bytes)
      BY <3>2
    <3>4. 1 \in 1..(Len(v) + 1) /\ k \in (1 - 1)..Len(v) /\ Len(v) \in k..Len(v)
      BY <3>2
    <3>5. SubSeq(v, 1, k) \o SubSeq(v, k + 1, Len(v)) = SubSeq(v, 1, Len(v))
      BY <3>4, ConcatAdjacentSubSeq
    <3>6. SubSeq(v, 1, Len(v)) = v
      BY SubSeqFull
    <3> QED BY <3>1, <3>3, <3>5, <3>6
  <2>2. left \in Seq(Carried) /\ Len(left) = Len(tSent[c]) - g
        /\ \A i \in 1..(Len(tSent[c]) - g) : left[i] = tSent[c][g + i]
    <3>1. PICK ps \in Seq(Carried) : ps = tSent[c]
      BY <1>2
    <3> HIDE DEF g
    <3> QED BY <1>3, <3>1
  <2> HIDE DEF a, w, left
  <2>3. tRest[c] \o a \in Seq(Tcp!Bytes)
    BY <1>2, <2>1, ConcatProperties
  <2>4. \A x, y, z \in Seq(Tcp!Bytes) : (x \o y) \o z = x \o (y \o z)
    BY Associates
  <2>5. (tRest[c] \o a) \o w = tRest[c] \o (a \o w)
    BY <1>2, <2>1, <2>4
  <2>6. buf = tRest[c] \o a
    BY DEF a
  <2> HIDE DEF buf
  <2> QED BY <1>3, <1>4, <2>1, <2>2, <2>3, <2>5, <2>6
<1> HIDE DEF buf, w, left, g
<1>6. Fed(left, buf, w, fed)
  BY <1>5, FeedIs
<1> HIDE DEF fed
<1> DEFINE m == Len(fed.frames)
<1>7. /\ fed.remain \in 1..(Len(buf) + 1) /\ fed.frames \in Seq(Nat \X Nat) /\ m \in Nat
      /\ m <= Len(left) /\ Len(buf) \in Nat
      /\ \A i \in 1..m : Slice(buf, fed.frames[i], Payload[left[i]])
      /\ remain \o w = Stuffed(SubSeq(left, m + 1, Len(left)))
  BY <1>5, <1>6 DEF Fed
<1>8. remain \in Seq(Tcp!Bytes) /\ Len(remain) <= Len(buf)
  <2>1. \A r \in 1..(Len(buf) + 1) :
          SubSeq(buf, r, Len(buf)) \in Seq(Tcp!Bytes) /\ Len(SubSeq(buf, r, Len(buf))) <= Len(buf)
    BY <1>5
  <2> QED BY <1>7, <2>1
<1> HIDE DEF remain
<1>9. ASSUME NEW i \in 1..m
      PROVE  /\ parcels[i] \in Parcel /\ Len(parcels[i].payload) = Len(Payload[left[i]])
             /\ parcels[i].over \/ parcels[i].payload = Payload[left[i]]
  <2>1. i \in 1..Len(left) /\ left[i] \in Carried /\ left[i] \in Frames
    <3>1. i \in 1..Len(left)
      <4> HIDE DEF m
      <4> QED BY <1>5, <1>7
    <3>2. left[i] \in Carried
      BY <1>5, <3>1, ElementOfSeq
    <3> QED BY <3>1, <3>2 DEF Carried
  <2>2. PICK x \in Nat \X Nat : x = fed.frames[i]
    BY <1>7, ElementOfSeq
  <2>3. PICK data \in Seq(Tcp!Bytes) : data = Payload[left[i]]
    BY <2>1, FrameIs
  <2>4. Slice(buf, x, data)
    BY <1>7, <2>2, <2>3
  <2>5. /\ SubSeq(moved, x[1], x[2]) \in Seq(Tcp!Bytes) /\ Len(SubSeq(moved, x[1], x[2])) = Len(data)
        /\ x[1] <= Len(remain) \/ SubSeq(moved, x[1], x[2]) = data
    <3>1. buf \in Seq(Tcp!Bytes) /\ remain \in Seq(Tcp!Bytes) /\ Len(remain) <= Len(buf)
      BY <1>5, <1>8
    <3> HIDE DEF m, moved
    <3>2. moved = Moved(buf, remain)
      BY DEF moved
    <3>3. \A y : Slice(buf, y, data) =>
            /\ SubSeq(Moved(buf, remain), y[1], y[2]) \in Seq(Tcp!Bytes)
            /\ Len(SubSeq(Moved(buf, remain), y[1], y[2])) = Len(data)
            /\ y[1] <= Len(remain) \/ SubSeq(Moved(buf, remain), y[1], y[2]) = data
      BY <3>1, MovedSlice
    <3> QED BY <2>4, <3>2, <3>3
  <2> HIDE DEF moved
  <2>6. parcels[i] = [payload |-> SubSeq(moved, x[1], x[2]), over |-> x[1] <= Len(remain)]
    <3>1. i \in DOMAIN fed.frames
      BY <1>7
    <3> QED BY <2>2, <3>1
  <2>7. PICK d \in Seq(Tcp!Bytes) : d = SubSeq(moved, x[1], x[2])
    BY <2>5
  <2>8. (x[1] <= Len(remain)) \in BOOLEAN
    OBVIOUS
  <2>9. PICK o \in BOOLEAN : o = (x[1] <= Len(remain))
    BY <2>8, Zenon
  <2>10. parcels[i] = [payload |-> d, over |-> o]
    BY <2>6, <2>7, <2>9, Zenon
  <2> HIDE DEF parcels
  <2>11. parcels[i].payload = d /\ parcels[i].over = o /\ parcels[i] \in Parcel
    BY <2>10 DEF Parcel
  <2>12. Len(d) = Len(data) /\ (o \/ d = data)
    BY <2>5, <2>7, <2>9
  <2> QED BY <2>3, <2>11, <2>12
<1>10. Len(parcels) = m /\ parcels \in Seq(Parcel)
  <2>1. DOMAIN fed.frames = 1..m
    BY <1>7
  <2> DEFINE F(f) == [payload |-> SubSeq(moved, fed.frames[f][1], fed.frames[f][2]),
                      over |-> fed.frames[f][1] <= Len(remain)]
  <2>2. parcels = [f \in 1..m |-> F(f)]
    BY <2>1
  <2>3. \A i \in 1..m : F(i) \in Parcel
    <3> SUFFICES ASSUME NEW i \in 1..m PROVE F(i) \in Parcel
      OBVIOUS
    <3>1. parcels[i] = F(i)
      BY <2>2
    <3> HIDE DEF parcels, F
    <3> QED BY <1>9, <3>1
  <2>4. m \in Nat
    BY <1>7
  <2> HIDE DEF F, parcels, m
  <2>5. parcels \in [1..m -> Parcel]
    BY <2>2, <2>3
  <2>6. \A n \in Nat : \A f \in [1..n -> Parcel] : f \in Seq(Parcel) /\ Len(f) = n
    OBVIOUS
  <2> QED BY <2>4, <2>5, <2>6
<1> HIDE DEF parcels
<1>11. /\ tGot[c] \o parcels \in Seq(Parcel) /\ Len(tGot[c] \o parcels) = g + m
       /\ \A i \in 1..(g + m) : (tGot[c] \o parcels)[i] = IF i <= g THEN tGot[c][i] ELSE parcels[i - g]
  <2>1. g = Len(tGot[c])
    BY DEF g
  <2> HIDE DEF m
  <2>2. PICK a \in Seq(Parcel) : a = tGot[c]
    BY <1>2
  <2>3. /\ a \o parcels \in Seq(Parcel) /\ Len(a \o parcels) = Len(a) + Len(parcels)
        /\ \A i \in 1..(Len(a) + Len(parcels)) : (a \o parcels)[i] = IF i <= Len(a) THEN a[i] ELSE parcels[i - Len(a)]
    BY <1>10, ConcatProperties
  <2> QED BY <1>10, <2>1, <2>2, <2>3
<1> HIDE DEF m
<1>12. /\ tWire'[c] = w /\ tRest'[c] = remain /\ tGot'[c] = tGot[c] \o parcels
       /\ tSent'[c] = tSent[c] /\ c \notin tBroken'
       /\ \A d \in Tcp!Conns : d # c =>
            tWire'[d] = tWire[d] /\ tRest'[d] = tRest[d] /\ tGot'[d] = tGot[d]
       /\ tWire' \in [Tcp!Conns -> Seq(Tcp!Bytes)] /\ tRest' \in [Tcp!Conns -> Seq(Tcp!Bytes)]
       /\ tGot' \in [Tcp!Conns -> Seq(Parcel)]
  BY <1>1, <1>2, <1>4, <1>5, <1>8, <1>11
<1>13. TcpType'
  BY <1>1, <1>12 DEF TcpType
<1>14. TcpDialled' /\ TcpTasks'
  BY <1>1, TcpTasksSame DEF TcpDialled
<1>15. ASSUME NEW d \in Tcp!Conns, d # c PROVE StreamOf(d)'
  <2>1. StreamOf(d)
    BY DEF TcpStreams
  <2>2. tConn'[d] = tConn[d] /\ (d \in tBroken' <=> d \in tBroken) /\ tSent'[d] = tSent[d]
    BY <1>1
  <2> QED BY <1>12, <1>15, <2>1, <2>2, StreamSame
<1>16. StreamOf(c)'
  <2>1. Len(tGot'[c]) = g + m /\ Len(tSent'[c]) = Len(tSent[c]) /\ g + m <= Len(tSent[c])
    BY <1>3, <1>5, <1>7, <1>11, <1>12
  <2>2. ASSUME NEW i \in 1..(g + m)
        PROVE  /\ Len(tGot'[c][i].payload) = Len(Payload[tSent'[c][i]])
               /\ tGot'[c][i].over \/ tGot'[c][i].payload = Payload[tSent'[c][i]]
    <3>1. CASE i <= g
      <4>1. i \in 1..g /\ tGot'[c][i] = tGot[c][i]
        BY <1>3, <1>11, <1>12, <3>1
      <4> QED BY <1>3, <1>12, <4>1
    <3>2. CASE ~(i <= g)
      <4>1. i - g \in 1..m /\ g + (i - g) = i /\ i - g \in 1..(Len(tSent[c]) - g)
        <5>1. g \in Nat /\ m \in Nat /\ Len(tSent[c]) \in Nat /\ g + m <= Len(tSent[c])
          BY <1>3, <1>7, <2>1
        <5> QED BY <3>2, <5>1
      <4>2. tGot'[c][i] = parcels[i - g]
        BY <1>11, <1>12, <3>2
      <4>3. left[i - g] = tSent[c][i]
        BY <1>5, <4>1
      <4>4. /\ Len(parcels[i - g].payload) = Len(Payload[left[i - g]])
            /\ parcels[i - g].over \/ parcels[i - g].payload = Payload[left[i - g]]
        BY <1>9, <4>1
      <4>5. tSent'[c][i] = tSent[c][i]
        BY <1>12
      <4> QED BY <4>2, <4>3, <4>4, <4>5, Zenon
    <3> QED BY <3>1, <3>2
  <2>3. SubSeq(left, m + 1, Len(left)) = SubSeq(tSent[c], (g + m) + 1, Len(tSent[c]))
    <3>1. PICK ps \in Seq(Carried) : ps = tSent[c]
      BY <1>2
    <3>2. /\ Len(left) = Len(ps) - g /\ \A i \in 1..(Len(ps) - g) : left[i] = ps[g + i]
          /\ g \in Nat /\ m \in Nat /\ Len(ps) \in Nat /\ g + m <= Len(ps)
      BY <1>3, <1>5, <1>7, <2>1, <3>1
    <3> DEFINE u == SubSeq(left, m + 1, Len(left))
               v == SubSeq(ps, (g + m) + 1, Len(ps))
               n == Len(ps) - g - m
    <3>3. u \in Seq(Carried) /\ Len(u) = n /\ \A i \in 1..n : u[i] = left[m + i]
      <4>1. Len(left) - m = n /\ m <= Len(left)
        BY <3>2
      <4> HIDE DEF n
      <4> QED BY <1>5, <3>2, <4>1, SuffixIs
    <3>4. v \in Seq(Carried) /\ Len(v) = n /\ \A i \in 1..n : v[i] = ps[g + m + i]
      <4>1. g + m \in Nat /\ Len(ps) - (g + m) = n
        BY <3>2
      <4> HIDE DEF n
      <4> QED BY <3>2, <4>1, SuffixIs
    <3>5. \A i \in 1..n : m + i \in 1..(Len(ps) - g) /\ g + (m + i) = g + m + i
      BY <3>2
    <3> HIDE DEF u, v, n
    <3>6. \A i \in 1..n : u[i] = v[i]
      BY <3>2, <3>3, <3>4, <3>5
    <3>7. u = v
      BY <3>3, <3>4, <3>6, SeqEqual
    <3> QED BY <3>1, <3>7 DEF u, v
  <2>4. tRest'[c] \o tWire'[c] = Stuffed(SubSeq(tSent'[c], Len(tGot'[c]) + 1, Len(tSent'[c])))
    BY <1>7, <1>12, <2>1, <2>3
  <2>5. \A i \in 1..Len(tGot'[c]) :
          /\ Len(tGot'[c][i].payload) = Len(Payload[tSent'[c][i]])
          /\ tGot'[c][i].over \/ tGot'[c][i].payload = Payload[tSent'[c][i]]
    BY <2>1, <2>2
  <2>6. Len(tGot'[c]) <= Len(tSent'[c])
    BY <2>1
  <2> QED BY <1>12, <2>4, <2>5, <2>6 DEF StreamOf
<1>17. TcpStreams'
  BY <1>15, <1>16 DEF TcpStreams
<1> QED BY <1>13, <1>14, <1>17

\* One step per action: TcpInv is inductive.
LEMMA TcpStep == TcpInv /\ [Tcp!Next]_tcpVars => TcpInv'
<1> SUFFICES ASSUME TcpInv, [Tcp!Next]_tcpVars, tFramed'
             PROVE  TcpType' /\ TcpDialled' /\ TcpTasks' /\ TcpStreams'
  BY DEF TcpInv
<1>1. tFramed' = tFramed
  BY Zenon DEF tcpVars, Tcp!Next, Tcp!SendBegin, Tcp!SendStep, Tcp!SendDial, Tcp!SendAgain,
         Tcp!SendWrite, Tcp!RunWrite, Tcp!RunClose, Tcp!Break, Tcp!Receive, Tcp!OnTraffic,
         Tcp!CloseConns, Tcp!CloseStore, Tcp!CloseClient
<1>2. tFramed /\ TcpType /\ TcpDialled /\ TcpTasks /\ TcpStreams
  BY <1>1 DEF TcpInv
<1>3. CASE UNCHANGED tcpVars
  <2>1. UNCHANGED <<tSend, tPicked, tConns, tRr, tConn, tTasks, tPool, tBuffer, tWire, tRest,
                    tBroken, tSent, tGot>>
    BY <1>3 DEF tcpVars
  <2> QED BY <1>2, <2>1, TcpTasksSame, TcpStreamsSame DEF TcpType, TcpDialled
<1>4. ASSUME NEW p \in Frames, Tcp!SendBegin(p) \/ Tcp!SendStep(p)
      PROVE  TcpType' /\ TcpDialled' /\ TcpTasks' /\ TcpStreams'
  <2>1. CASE Tcp!SendBegin(p) \/ Tcp!SendDial(p) \/ Tcp!SendAgain(p)
    BY <1>2, <2>1, TcpSends
  <2>2. CASE Tcp!SendWrite(p)
    BY <1>2, <2>2, TcpWrites
  <2> QED BY <1>4, <2>1, <2>2 DEF Tcp!SendStep
<1>5. ASSUME NEW c \in Tcp!Conns, Tcp!RunWrite(c)
      PROVE  TcpType' /\ TcpDialled' /\ TcpTasks' /\ TcpStreams'
  BY <1>2, <1>5, TcpRuns
<1>6. ASSUME NEW c \in Tcp!Conns, Tcp!Receive(c)
      PROVE  TcpType' /\ TcpDialled' /\ TcpTasks' /\ TcpStreams'
  <2>1. PICK k \in 1..Len(tWire[c]) : Tcp!OnTraffic(c, k)
    BY <1>6 DEF Tcp!Receive
  <2> QED BY <1>2, <2>1, TcpTraffic
<1>7. CASE \/ \E c \in Tcp!Conns : Tcp!RunClose(c) \/ Tcp!Break(c)
           \/ Tcp!CloseConns \/ Tcp!CloseStore \/ Tcp!CloseClient
  BY <1>2, <1>7, TcpEnds
<1> QED BY <1>3, <1>4, <1>5, <1>6, <1>7 DEF Tcp!Next

\* The invariant holds of every behaviour.
LEMMA TcpCorrect == EndpointSpec => []TcpInv
<1>1. Build => TcpInv
  BY TcpInit DEF Build
<1>2. TcpInv /\ [EndpointNext]_allVars => TcpInv'
  <2> SUFFICES ASSUME TcpInv, [EndpointNext]_allVars PROVE TcpInv'
    OBVIOUS
  <2>1. CASE EndpointNext
    BY <2>1, TcpMoves, TcpStep
  <2>2. CASE UNCHANGED allVars
    <3>1. UNCHANGED tcpVars
      BY <2>2 DEF allVars
    <3> QED BY <3>1, TcpStep
  <2> QED BY <2>1, <2>2
<1> QED BY <1>1, <1>2, PTL DEF EndpointSpec

\* However the bytes are cut up and whatever the payloads are, the receiver of a TCP link
\* cuts from each connection the payloads written to it, in their order and lengths, and no
\* frame buffer is used again before its write was run (FramesIntact).
THEOREM FramesAreIntact == EndpointSpec => []FramesIntact
<1>1. TcpInv => FramesIntact
  <2> SUFFICES ASSUME TcpInv, tFramed PROVE Tcp!FramesIntact
    BY DEF FramesIntact, Tcp!FramesIntact
  <2>1. TcpType /\ TcpTasks /\ TcpStreams
    BY DEF TcpInv
  <2>2. \A w \in Tcp!Writes : w = <<w[1], w[2]>> /\ w[1] \in Tcp!Conns /\ w[2] \in 1..Len(tTasks[w[1]])
    <3> SUFFICES ASSUME NEW w \in Tcp!Writes
                 PROVE  w = <<w[1], w[2]>> /\ w[1] \in Tcp!Conns /\ w[2] \in 1..Len(tTasks[w[1]])
      OBVIOUS
    <3>1. /\ w \in Tcp!Conns \X (1..Tcp!Cardinality(Frames)) /\ w[2] <= Len(tTasks[w[1]])
      BY DEF Tcp!Writes
    <3>2. w = <<w[1], w[2]>> /\ w[1] \in Tcp!Conns /\ w[2] \in 1..Tcp!Cardinality(Frames)
      BY <3>1
    <3>3. Len(tTasks[w[1]]) \in Nat
      BY <2>1, <3>2 DEF TcpType
    <3> QED BY <3>1, <3>2, <3>3
  <2>3. \A w1, w2 \in Tcp!Writes :
          Tcp!BufferOf(w1) \notin tPool /\ (Tcp!BufferOf(w1) = Tcp!BufferOf(w2) => w1 = w2)
    BY <2>1, <2>2 DEF TcpTasks, Tcp!BufferOf
  <2>4. ASSUME NEW c \in Tcp!Conns
        PROVE  LET written == Tcp!Payloads(tSent[c])
                   left == SubSeq(written, Len(tGot[c]) + 1, Len(written))
               IN  /\ Len(tGot[c]) <= Len(written)
                   /\ \A k \in DOMAIN tGot[c] :
                        /\ Len(tGot[c][k].payload) = Len(written[k])
                        /\ tGot[c][k].over \/ tGot[c][k].payload = written[k]
                   /\ c \notin tBroken =>
                        tRest[c] \o tWire[c] = Tcp!Concat([k \in DOMAIN left |-> Tcp!Frame(left[k])])
    <3>1. PICK ps \in Seq(Carried) : ps = tSent[c]
      BY <2>1 DEF TcpType
    <3>2. PICK g \in Nat : g = Len(tGot[c]) /\ DOMAIN tGot[c] = 1..g
      BY <2>1 DEF TcpType
    <3>3. StreamOf(c)
      BY <2>1 DEF TcpStreams
    <3>4. g <= Len(ps) /\ Len(ps) \in Nat
      BY <3>1, <3>2, <3>3 DEF StreamOf
    <3> DEFINE written == Tcp!Payloads(ps)
               left == SubSeq(written, g + 1, Len(written))
               more == SubSeq(ps, g + 1, Len(ps))
    <3>5. /\ written \in Seq(Seq(Tcp!Bytes)) /\ Len(written) = Len(ps)
          /\ \A k \in 1..Len(ps) : written[k] = Payload[ps[k]]
      <4>1. \A k \in 1..Len(ps) : Payload[ps[k]] \in Seq(Tcp!Bytes)
        <5> SUFFICES ASSUME NEW k \in 1..Len(ps) PROVE Payload[ps[k]] \in Seq(Tcp!Bytes)
          OBVIOUS
        <5>1. ps[k] \in Frames
          BY ElementOfSeq DEF Carried
        <5> QED BY <5>1, FrameIs
      <4>2. written = [k \in 1..Len(ps) |-> Payload[ps[k]]]
        BY DEF Tcp!Payloads
      <4> HIDE DEF written
      <4> QED BY <3>4, <4>1, <4>2
    <3> HIDE DEF written
    <3>6. /\ DOMAIN left = 1..(Len(ps) - g)
          /\ \A k \in 1..(Len(ps) - g) : left[k] = Payload[ps[g + k]]
      <4>1. \A k \in 1..(Len(ps) - g) : g + k \in 1..Len(ps)
        BY <3>4
      <4>2. /\ DOMAIN left = 1..(Len(ps) - g)
            /\ \A k \in 1..(Len(ps) - g) : left[k] = written[g + k]
        BY <3>4, <3>5
      <4> QED BY <3>5, <4>1, <4>2
    <3>7. Len(more) = Len(ps) - g /\ \A k \in 1..(Len(ps) - g) : more[k] = ps[g + k]
      BY <3>4, SuffixIs
    <3> HIDE DEF left, more
    <3>8. [k \in DOMAIN left |-> Tcp!Frame(left[k])] = FramesOf(more)
      BY <3>6, <3>7 DEF FramesOf
    <3>9. c \notin tBroken =>
            tRest[c] \o tWire[c] = Tcp!Concat([k \in DOMAIN left |-> Tcp!Frame(left[k])])
      BY <3>1, <3>2, <3>3, <3>8 DEF StreamOf, Stuffed, more
    <3>10. ASSUME NEW k \in 1..g
           PROVE  /\ Len(tGot[c][k].payload) = Len(written[k])
                  /\ tGot[c][k].over \/ tGot[c][k].payload = written[k]
      <4>1. k \in 1..Len(ps)
        BY <3>4
      <4> QED BY <3>1, <3>2, <3>3, <3>5, <4>1 DEF StreamOf
    <3> QED BY <3>1, <3>2, <3>4, <3>5, <3>9, <3>10 DEF written, left
  <2> QED BY <2>3, <2>4 DEF Tcp!FramesIntact
<1> QED BY <1>1, TcpCorrect, PTL
-----------------------------------------------------------------------------
(* A SkyDDS topic. First, how often a message is in a sequence, and how    *)
(* long its payloads are together.                                         *)

\* The module of the topic counts as the library does.
LEMMA SkyCardinality == \A S : Sky!Cardinality(S) = Cardinality(S)
  BY DEF Sky!Cardinality, Cardinality

\* How often m is in one sequence behind another.
LEMMA TimesConcat ==
  ASSUME NEW s \in Seq(Messages), NEW u \in Seq(Messages), NEW m
  PROVE  Sky!Times(m, s \o u) = Sky!Times(m, s) + Sky!Times(m, u)
<1> DEFINE a == Len(s)
           b == Len(u)
           P(q) == {k \in DOMAIN q : q[k] = m}
           B == {k \in (a + 1)..(a + b) : u[k - a] = m}
<1>1. /\ a \in Nat /\ b \in Nat /\ DOMAIN s = 1..a /\ DOMAIN u = 1..b
      /\ s \o u \in Seq(Messages) /\ DOMAIN (s \o u) = 1..(a + b)
      /\ \A k \in 1..(a + b) : (s \o u)[k] = IF k <= a THEN s[k] ELSE u[k - a]
  BY ConcatProperties, LenProperties
<1>2. P(s \o u) = P(s) \cup B
  <2> HIDE DEF a, b
  <2> QED BY <1>1
<1>3. P(s) \cap B = {}
  <2> HIDE DEF a, b
  <2> QED BY <1>1
<1>4. IsFiniteSet(P(s)) /\ IsFiniteSet(P(u))
  <2>1. P(s) \subseteq 1..a /\ P(u) \subseteq 1..b
    BY <1>1
  <2> HIDE DEF P, a, b
  <2>2. 1 \in Int /\ a \in Int /\ b \in Int
    BY <1>1
  <2>3. IsFiniteSet(1..a) /\ IsFiniteSet(1..b)
    BY <2>2, FS_Interval, Zenon
  <2> QED BY <2>1, <2>3, FS_Subset
<1>5. IsFiniteSet(B) /\ Cardinality(B) = Cardinality(P(u))
  <2> DEFINE f == [k \in P(u) |-> k + a]
  <2>1. f \in Bijection(P(u), B)
    <3> HIDE DEF a, b
    <3>1. \A k \in P(u) : k \in 1..b /\ u[k] = m
      BY <1>1
    <3>2. f \in [P(u) -> B]
      <4> SUFFICES ASSUME NEW k \in P(u) PROVE k + a \in B
        OBVIOUS
      <4>1. k + a \in (a + 1)..(a + b) /\ (k + a) - a = k
        BY <1>1, <3>1
      <4> QED BY <3>1, <4>1
    <3>3. \A k, l \in P(u) : f[k] = f[l] => k = l
      <4> SUFFICES ASSUME NEW k \in P(u), NEW l \in P(u), k + a = l + a PROVE k = l
        OBVIOUS
      <4> QED BY <1>1, <3>1
    <3>4. \A y \in B : \E k \in P(u) : f[k] = y
      <4> SUFFICES ASSUME NEW y \in B PROVE y - a \in P(u) /\ (y - a) + a = y
        OBVIOUS
      <4> QED BY <1>1
    <3> HIDE DEF f, P, B
    <3> QED BY <3>2, <3>3, <3>4 DEF f, Bijection, Injection, Surjection, IsInjective
  <2>2. ExistsBijection(P(u), B)
    BY <2>1 DEF ExistsBijection
  <2> HIDE DEF P, B
  <2> QED BY <1>4, <2>2, FS_Bijection
<1>6. Cardinality(P(s) \cup B) = Cardinality(P(s)) + Cardinality(P(u))
  <2> HIDE DEF P, B
  <2>1. Cardinality(P(s) \cup B) = Cardinality(P(s)) + Cardinality(B) - Cardinality({})
    BY <1>3, <1>4, <1>5, FS_Union
  <2>2. Cardinality(P(s)) \in Nat /\ Cardinality(P(u)) \in Nat /\ Cardinality({}) = 0
    BY <1>4, FS_CardinalityType, FS_EmptySet
  <2> QED BY <2>1, <2>2, <1>5
<1> QED BY <1>2, <1>6, SkyCardinality DEF Sky!Times

\* It is a natural number, 0 for those that are not there.
LEMMA TimesType ==
  ASSUME NEW s \in Seq(Messages), NEW m
  PROVE  /\ Sky!Times(m, s) \in Nat
         /\ Sky!Times(m, s) = 0 <=> m \notin Sky!Range(s)
<1> DEFINE P == {k \in DOMAIN s : s[k] = m}
<1>1. IsFiniteSet(P)
  <2>1. Len(s) \in Nat /\ DOMAIN s = 1..Len(s)
    BY LenProperties
  <2>2. IsFiniteSet(1..Len(s)) /\ P \subseteq 1..Len(s)
    BY <2>1, FS_Interval
  <2> HIDE DEF P
  <2> QED BY <2>2, FS_Subset
<1>2. P = {} <=> m \notin Sky!Range(s)
  BY DEF Sky!Range
<1>3. Sky!Times(m, s) = Cardinality(P)
  BY SkyCardinality DEF Sky!Times
<1> HIDE DEF P
<1> QED BY <1>1, <1>2, <1>3, FS_CardinalityType, FS_EmptySet

\* Sequences of no or one message.
LEMMA TimesFew ==
  /\ \A m : Sky!Times(m, <<>>) = 0
  /\ \A m, n \in Messages : Sky!Times(m, <<n>>) = IF m = n THEN 1 ELSE 0
<1>1. ASSUME NEW m PROVE Sky!Times(m, <<>>) = 0
  <2>1. {k \in DOMAIN << >> : << >>[k] = m} = {}
    OBVIOUS
  <2> QED BY <2>1, SkyCardinality, FS_EmptySet DEF Sky!Times
<1>2. ASSUME NEW m \in Messages, NEW n \in Messages
      PROVE  Sky!Times(m, <<n>>) = IF m = n THEN 1 ELSE 0
  <2>1. {k \in DOMAIN <<n>> : <<n>>[k] = m} = IF m = n THEN {1} ELSE {}
    OBVIOUS
  <2>2. Cardinality({1}) = 1 /\ Cardinality({}) = 0
    BY FS_EmptySet, FS_Singleton
  <2> QED BY <2>1, <2>2, SkyCardinality DEF Sky!Times
<1> QED BY <1>1, <1>2

\* The facts above for all sequences at once, and for what steps do to them.
LEMMA TimesFacts ==
  /\ \A m : Sky!Times(m, <<>>) = 0
  /\ \A s \in Seq(Messages) : \A m \in Messages :
       /\ Sky!Times(m, s) \in Nat
       /\ Sky!Times(m, s) = 0 <=> m \notin Sky!Range(s)
  /\ \A s, u \in Seq(Messages) : \A m \in Messages :
       Sky!Times(m, s \o u) = Sky!Times(m, s) + Sky!Times(m, u)
  /\ \A s \in Seq(Messages) : \A m, n \in Messages :
       Sky!Times(m, Append(s, n)) = Sky!Times(m, s) + (IF m = n THEN 1 ELSE 0)
  /\ \A m, n \in Messages : Sky!Times(m, <<n>>) = IF m = n THEN 1 ELSE 0
<1>1. \A m : Sky!Times(m, <<>>) = 0
  BY TimesFew
<1>2. \A s \in Seq(Messages) : \A m \in Messages :
       /\ Sky!Times(m, s) \in Nat
       /\ Sky!Times(m, s) = 0 <=> m \notin Sky!Range(s)
  BY TimesType
<1>3. \A s, u \in Seq(Messages) : \A m \in Messages :
       Sky!Times(m, s \o u) = Sky!Times(m, s) + Sky!Times(m, u)
  BY TimesConcat
<1>4. ASSUME NEW s \in Seq(Messages), NEW m \in Messages, NEW n \in Messages
      PROVE  Sky!Times(m, Append(s, n)) = Sky!Times(m, s) + (IF m = n THEN 1 ELSE 0)
  <2>1. <<n>> \in Seq(Messages)
    OBVIOUS
  <2>2. Append(s, n) = s \o <<n>>
    BY AppendIsConcat
  <2>3. Sky!Times(m, s \o <<n>>) = Sky!Times(m, s) + Sky!Times(m, <<n>>)
    BY <2>1, TimesConcat
  <2> QED BY <2>2, <2>3, TimesFew, Zenon
<1> QED BY <1>1, <1>2, <1>3, <1>4, TimesFew

\* A sequence that is cut in two.
LEMMA TimesSplit ==
  /\ \A s \in Seq(Messages) : s # <<>> =>
       /\ Head(s) \in Messages /\ Tail(s) \in Seq(Messages)
       /\ \A m \in Messages :
            Sky!Times(m, s) = (IF m = Head(s) THEN 1 ELSE 0) + Sky!Times(m, Tail(s))
  /\ \A s \in Seq(Messages) : \A n \in 0..Len(s) :
       /\ SubSeq(s, 1, n) \in Seq(Messages) /\ SubSeq(s, n + 1, Len(s)) \in Seq(Messages)
       /\ Len(SubSeq(s, 1, n)) = n
       /\ \A m \in Messages : Sky!Times(m, s) =
            Sky!Times(m, SubSeq(s, 1, n)) + Sky!Times(m, SubSeq(s, n + 1, Len(s)))
<1>1. ASSUME NEW s \in Seq(Messages), s # <<>>
      PROVE  /\ Head(s) \in Messages /\ Tail(s) \in Seq(Messages)
             /\ \A m \in Messages :
                  Sky!Times(m, s) = (IF m = Head(s) THEN 1 ELSE 0) + Sky!Times(m, Tail(s))
  <2>1. Head(s) \in Messages /\ Tail(s) \in Seq(Messages)
    BY <1>1, HeadTailProperties
  <2>2. <<Head(s)>> \in Seq(Messages) /\ s = <<Head(s)>> \o Tail(s)
    BY <1>1, <2>1
  <2>3. \A m \in Messages :
          Sky!Times(m, <<Head(s)>> \o Tail(s)) =
            Sky!Times(m, <<Head(s)>>) + Sky!Times(m, Tail(s))
    BY <2>1, <2>2, TimesFacts
  <2>4. \A m \in Messages : Sky!Times(m, <<Head(s)>>) = IF m = Head(s) THEN 1 ELSE 0
    BY <2>1, TimesFacts
  <2> QED BY <2>1, <2>2, <2>3, <2>4
<1>2. ASSUME NEW s \in Seq(Messages), NEW n \in 0..Len(s)
      PROVE  /\ SubSeq(s, 1, n) \in Seq(Messages) /\ SubSeq(s, n + 1, Len(s)) \in Seq(Messages)
             /\ Len(SubSeq(s, 1, n)) = n
             /\ \A m \in Messages : Sky!Times(m, s) =
                  Sky!Times(m, SubSeq(s, 1, n)) + Sky!Times(m, SubSeq(s, n + 1, Len(s)))
  <2>1. Len(s) \in Nat /\ \A k \in 1..Len(s) : s[k] \in Messages
    OBVIOUS
  <2>2. SubSeq(s, 1, n) \in Seq(Messages) /\ Len(SubSeq(s, 1, n)) = n
    BY <2>1, SubSeqProperties
  <2>3. SubSeq(s, n + 1, Len(s)) \in Seq(Messages)
    BY <2>1, SubSeqProperties
  <2>4. SubSeq(s, 1, n) \o SubSeq(s, n + 1, Len(s)) = s
    <3>1. 1 \in 1..Len(s) + 1 /\ n \in (1 - 1)..Len(s) /\ Len(s) \in n..Len(s)
      BY <2>1
    <3>2. SubSeq(s, 1, n) \o SubSeq(s, n + 1, Len(s)) = SubSeq(s, 1, Len(s))
      BY <3>1, ConcatAdjacentSubSeq, Zenon
    <3> QED BY <3>2, SubSeqFull
  <2>5. \A m \in Messages :
          Sky!Times(m, SubSeq(s, 1, n) \o SubSeq(s, n + 1, Len(s))) =
            Sky!Times(m, SubSeq(s, 1, n)) + Sky!Times(m, SubSeq(s, n + 1, Len(s)))
    BY <2>2, <2>3, TimesConcat
  <2> QED BY <2>2, <2>3, <2>4, <2>5
<1> QED BY <1>1, <1>2

\* The loop of Bytes, turn by turn.
Measures(s, f) ==
  f[0] = 0 /\ \A k \in 1..Len(s) : f[k] = f[k - 1] + Size[s[k]]

\* Its turns exist,
LEMMA MeasureExists ==
  ASSUME NEW s \in Seq(Messages)
  PROVE  \E f \in [0..Len(s) -> Nat] : Measures(s, f)
<1> DEFINE n == Len(s)
           step == [k \in Nat |-> [a \in Nat |-> IF k \in 1..n THEN a + Size[s[k]] ELSE a]]
<1>1. n \in Nat /\ \A k \in 1..n : Size[s[k]] \in Nat
  BY SkyAssumption
<1>2. step \in [Nat -> [Nat -> Nat]]
  <2> HIDE DEF n
  <2> SUFFICES ASSUME NEW k \in Nat, NEW a \in Nat
               PROVE  (IF k \in 1..n THEN a + Size[s[k]] ELSE a) \in Nat
    OBVIOUS
  <2> QED BY <1>1
<1>3. PICK f \in [0..n -> Nat] : f[0] = 0 /\ \A k \in 1..n : f[k] = step[k][f[k - 1]]
  <2> HIDE DEF step, n
  <2>1. Recursive(Nat, 0, step, n)
    BY <1>1, <1>2, Recursion
  <2> QED BY <2>1 DEF Recursive
<1>4. ASSUME NEW k \in 1..n PROVE f[k] = f[k - 1] + Size[s[k]]
  <2> HIDE DEF n
  <2>1. k \in Nat /\ k - 1 \in 0..n
    BY <1>1
  <2>2. f[k - 1] \in Nat
    BY <1>3, <2>1
  <2> QED BY <2>1, <2>2, <1>3
<1> QED BY <1>3, <1>4 DEF Measures

\* and lead to its result.
LEMMA BytesIs ==
  ASSUME NEW s \in Seq(Messages), NEW f, Measures(s, f)
  PROVE  Sky!Bytes(s) = f[Len(s)]
<1> DEFINE n == Len(s)
           F(e) == [k \in 0..n |-> IF k = 0 THEN 0 ELSE e[k - 1] + Size[s[k]]]
           all == CHOOSE e : e = F(e)
<1>1. n \in Nat
  OBVIOUS
<1>2. PICK e \in [0..n -> Nat] : Measures(s, e)
  BY MeasureExists
<1>3. e = F(e)
  <2> HIDE DEF n
  <2>1. e = [k \in 0..n |-> e[k]]
    BY <1>2
  <2>2. \A k \in 0..n : e[k] = IF k = 0 THEN 0 ELSE e[k - 1] + Size[s[k]]
    BY <1>1, <1>2 DEF Measures, n
  <2> QED BY <2>1, <2>2, Zenon
<1>4. all = F(all)
  <2> HIDE DEF F
  <2> QED BY <1>3
<1>5. DOMAIN all = 0..n /\ all[0] = 0 /\ \A k \in 1..n : all[k] = all[k - 1] + Size[s[k]]
  <2> HIDE DEF all, n
  <2>1. all = [k \in 0..n |-> IF k = 0 THEN 0 ELSE all[k - 1] + Size[s[k]]]
    BY <1>4
  <2>2. \A k \in 0..n : all[k] = IF k = 0 THEN 0 ELSE all[k - 1] + Size[s[k]]
    BY <2>1
  <2>3. DOMAIN all = 0..n
    BY <2>1
  <2> QED BY <1>1, <2>2, <2>3
<1>6. Sky!Bytes(s) = all[n]
  BY DEF Sky!Bytes
<1> DEFINE S == {k \in Nat : k <= n => all[k] = f[k]}
<1>7. 0 \in S
  BY <1>5 DEF Measures
<1>8. ASSUME NEW k \in Nat, k \in S PROVE k + 1 \in S
  <2> HIDE DEF all, n
  <2> SUFFICES ASSUME k + 1 <= n PROVE all[k + 1] = f[k + 1]
    BY DEF S
  <2>1. k + 1 \in 1..n /\ (k + 1) - 1 = k /\ k <= n
    BY <1>1
  <2>2. all[k] = f[k]
    BY <1>8, <2>1
  <2>3. all[k + 1] = all[k] + Size[s[k + 1]] /\ f[k + 1] = f[k] + Size[s[k + 1]]
    <3>1. \A j \in 1..n : f[j] = f[j - 1] + Size[s[j]]
      BY DEF Measures, n
    <3> QED BY <3>1, <2>1, <1>5
  <2> QED BY <2>2, <2>3
<1> HIDE DEF S
<1>9. n \in S
  BY <1>1, <1>7, <1>8, Induction
<1> HIDE DEF all
<1> QED BY <1>1, <1>6, <1>9 DEF S

\* The length of nothing, and of a payload more.
LEMMA BytesFacts ==
  /\ Sky!Bytes(<<>>) = 0
  /\ \A s \in Seq(Messages) : Sky!Bytes(s) \in Nat
  /\ \A s \in Seq(Messages) : \A m \in Messages :
       Sky!Bytes(Append(s, m)) = Sky!Bytes(s) + Size[m]
<1>1. Sky!Bytes(<<>>) = 0
  <2>1. << >> \in Seq(Messages) /\ Len(<< >>) = 0
    OBVIOUS
  <2>2. PICK f \in [0..Len(<< >>) -> Nat] : Measures(<< >>, f)
    BY <2>1, MeasureExists
  <2>3. f[0] = 0
    BY <2>2 DEF Measures
  <2> QED BY <2>1, <2>2, <2>3, BytesIs
<1>2. ASSUME NEW s \in Seq(Messages) PROVE Sky!Bytes(s) \in Nat
  <2>1. PICK f \in [0..Len(s) -> Nat] : Measures(s, f)
    BY MeasureExists
  <2>2. Sky!Bytes(s) = f[Len(s)]
    BY <2>1, BytesIs
  <2> QED BY <2>1, <2>2
<1>3. ASSUME NEW s \in Seq(Messages), NEW m \in Messages
      PROVE  Sky!Bytes(Append(s, m)) = Sky!Bytes(s) + Size[m]
  <2>1. /\ Append(s, m) \in Seq(Messages) /\ Len(Append(s, m)) = Len(s) + 1 /\ Len(s) \in Nat
        /\ \A k \in 1..Len(s) : Append(s, m)[k] = s[k]
        /\ Append(s, m)[Len(s) + 1] = m
    BY AppendProperties
  <2>2. PICK f \in [0..Len(Append(s, m)) -> Nat] : Measures(Append(s, m), f)
    BY <2>1, MeasureExists
  <2>3. Sky!Bytes(Append(s, m)) = f[Len(s) + 1]
    BY <2>1, <2>2, BytesIs
  <2>4. Measures(s, f)
    BY <2>1, <2>2 DEF Measures
  <2>5. Sky!Bytes(s) = f[Len(s)]
    BY <2>4, BytesIs
  <2>6. f[Len(s) + 1] = f[Len(s)] + Size[m]
    <3>1. Len(s) + 1 \in 1..Len(Append(s, m)) /\ (Len(s) + 1) - 1 = Len(s)
      BY <2>1
    <3>2. f[Len(s) + 1] = f[(Len(s) + 1) - 1] + Size[Append(s, m)[Len(s) + 1]]
      BY <2>2, <3>1, Zenon DEF Measures
    <3> QED BY <3>1, <3>2, <2>1
  <2> QED BY <2>3, <2>5, <2>6
<1> QED BY <1>1, <1>2, <1>3

\* There is a longest prefix of the queue that the buffer takes.
LEMMA FitIs ==
  ASSUME sQueue \in Seq(Messages)
  PROVE  Sky!Fit \in 0..Len(sQueue)
<1> DEFINE Stops(n) == \/ n = Len(sQueue) \/ n = DrainItems
                       \/ Sky!Bytes(SubSeq(sQueue, 1, n + 1)) > DrainBytes
           Fits(n) == n <= DrainItems /\ Sky!Bytes(SubSeq(sQueue, 1, n)) <= DrainBytes
           T == {n \in Nat : Stops(n)}
<1>1. Len(sQueue) \in Nat /\ DrainItems \in Nat /\ DrainBytes \in Nat
  BY SkyAssumption
<1>2. Len(sQueue) \in T /\ DrainItems \in T /\ T \subseteq Nat
  BY <1>1
<1> HIDE DEF T
<1>3. PICK n \in T : \A k \in T : n <= k
  <2>1. T # {}
    BY <1>2
  <2> QED BY <1>2, <2>1, LeastNat
<1>4. n \in 0..Len(sQueue) /\ n <= DrainItems /\ Stops(n)
  <2>1. n \in Nat /\ Stops(n)
    BY <1>3 DEF T
  <2> HIDE DEF Stops
  <2> QED BY <1>1, <1>2, <1>3, <2>1
<1>5. Sky!Bytes(SubSeq(sQueue, 1, n)) <= DrainBytes
  <2>1. CASE n = 0
    <3>1. SubSeq(sQueue, 1, n) = << >>
      BY <2>1, SubSeqEmpty
    <3>2. Sky!Bytes(SubSeq(sQueue, 1, n)) = 0
      BY <3>1, BytesFacts, Zenon
    <3> QED BY <3>2, <1>1
  <2>2. CASE n # 0
    <3>1. n - 1 \in Nat /\ (n - 1) + 1 = n /\ n \in 0..Len(sQueue)
      BY <2>2, <1>1, <1>4
    <3>2. n - 1 \notin T
      BY <1>3, <3>1
    <3>3. ~(Sky!Bytes(SubSeq(sQueue, 1, n)) > DrainBytes)
      BY <3>1, <3>2 DEF T
    <3>4. Sky!Bytes(SubSeq(sQueue, 1, n)) \in Nat
      BY <3>1, TimesSplit, BytesFacts
    <3> QED BY <3>3, <3>4, <1>1
  <2> QED BY <2>1, <2>2
<1>6. Sky!Fit = CHOOSE k \in 0..Len(sQueue) : Fits(k) /\ Stops(k)
  BY DEF Sky!Fit
<1> HIDE DEF Fits, Stops
<1>7. Fits(n)
  BY <1>4, <1>5 DEF Fits
<1> QED BY <1>4, <1>6, <1>7

-----------------------------------------------------------------------------
(* Where the messages of a topic are.                                      *)

Who == Messages \cup Timers \cup {Closer}

SkyType ==
  /\ sSend \in [Messages -> {"new", "flush", "returned"}]
  /\ sResult \in [Messages -> {None, "ok", "error"}]
  /\ sBatch \in Seq(Messages) /\ sClosed \in BOOLEAN /\ sFlushTimer \in Timers \cup {None}
  /\ sTimer \in [Timers -> {"idle", "armed", "fired", "flush", "failed"}]
  /\ sHold \in [Who -> Seq(Messages)]
  /\ sClosing \in {"idle", "flush", "writer", "failed", "returned"}
  /\ sTopic \in Seq(Messages) /\ sQueue \in Seq(Messages) /\ sDrained \in Seq(Messages)
  /\ sFaults \in Nat
  /\ sWrote \in [Messages -> Nat] /\ sGot \in [Messages -> Nat]
  /\ sDropped \in [Messages -> Nat]

\* Only who is about to write holds payloads, and Start what it is to emit.
SkyHolds ==
  /\ \A m \in Messages : sSend[m] # "flush" => sHold[m] = <<>>
  /\ \A t \in Timers : sTimer[t] \notin {"flush", "failed"} => sHold[t] = <<>>
  /\ sClosing # "flush" => sHold[Closer] = <<>>
  /\ sLoop # "emit" => sDrained = <<>>
  /\ sLoop = "emit" => sDrained # <<>>

\* The batch is measured, and has a timer until it is closed; a batch that was closed
\* comes from a timer whose write failed.
SkyBatch ==
  /\ sBatchBytes = Sky!Bytes(sBatch)
  /\ Sky!TimerArmed
  /\ sClosed /\ sBatch # <<>> => sFaults > 0 \/ sWriter = "nil"
  /\ \A t \in Timers : sTimer[t] = "failed" => sFaults > 0 \/ sWriter = "nil"

\* A message is in the batch or with one holder, once, and nowhere before its Send.
SkyOnce ==
  \A m \in Messages :
    /\ Sky!Times(m, sBatch) <= 1
    /\ \A h \in Who : Sky!Times(m, sHold[h]) <= 1
    /\ \A h \in Who : Sky!Times(m, sBatch) = 0 \/ Sky!Times(m, sHold[h]) = 0
    /\ \A h, g \in Who :
         h = g \/ Sky!Times(m, sHold[h]) = 0 \/ Sky!Times(m, sHold[g]) = 0
    /\ sSend[m] = "new" =>
         /\ Sky!Times(m, sBatch) = 0
         /\ \A h \in Who : Sky!Times(m, sHold[h]) = 0

Waits(m) == Sky!Times(m, sBatch) > 0 \/ \E h \in Who : Sky!Times(m, sHold[h]) > 0

\* It is written once more than writes have failed, and not more often than that while it
\* waits to be written; what Send accepted waits, was written, or was lost with an error.
SkyWritten ==
  \A m \in Messages :
    /\ sWrote[m] <= 1 + sFaults
    /\ Waits(m) => sWrote[m] <= sFaults
    /\ sSend[m] = "new" => sWrote[m] = 0
    /\ sSend[m] = "flush" =>
         Sky!Times(m, sHold[m]) > 0 \/ (sModel = "octet" /\ Size[m] = 0)
    /\ Sky!Accepted(m) => Waits(m) \/ sWrote[m] > 0 \/ m \in sLost

\* What was written is somewhere on its way, emitted or counted as dropped.
SkyFlow ==
  \A m \in Messages :
    sWrote[m] = sGot[m] + sDropped[m] + Sky!Times(m, sTopic) + Sky!Times(m, sQueue)
                  + Sky!Times(m, sDrained)

SkyInv ==
  SkyType /\ SkyHolds /\ SkyBatch /\ SkyOnce /\ SkyWritten /\ SkyFlow

\* Calls, timers and Close hold payloads of their own.
LEMMA Holding ==
  /\ \A m \in Messages : m \in Who /\ m \notin Timers /\ m # Closer
  /\ \A t \in Timers : t \in Who /\ t \notin Messages /\ t # Closer /\ t # None
  /\ Closer \in Who
  BY SkyAssumption DEF Who

\* The invariant holds initially.
LEMMA SkyInit == Sky!Init => SkyInv
<1> SUFFICES ASSUME Sky!Init PROVE SkyInv
  OBVIOUS
<1> USE DEF Sky!Init
<1>1. << >> \in Seq(Messages) /\ sHold = [h \in Who |-> << >>]
  BY DEF Who
<1>2. /\ sBatch = << >> /\ sTopic = << >> /\ sQueue = << >> /\ sDrained = << >>
      /\ \A h \in Who : sHold[h] = << >>
  BY <1>1
<1>3. SkyType
  BY <1>1 DEF SkyType, Sky!Zero
<1>4. SkyHolds
  BY <1>2, Holding DEF SkyHolds
<1>5. SkyBatch
  BY <1>2, BytesFacts DEF SkyBatch, Sky!TimerArmed
<1>6. \A m : Sky!Times(m, << >>) = 0
  BY TimesFacts
<1>7. SkyOnce
  BY <1>2, <1>6 DEF SkyOnce
<1>8. SkyWritten
  <2>1. \A m \in Messages : ~Sky!Accepted(m)
    BY SkyAssumption DEF Sky!Accepted
  <2>2. \A m \in Messages : ~Waits(m)
    BY <1>2, <1>6 DEF Waits
  <2> QED BY <2>1, <2>2 DEF SkyWritten, Sky!Zero
<1>9. SkyFlow
  BY <1>2, <1>6 DEF SkyFlow, Sky!Zero
<1> QED BY <1>3, <1>4, <1>5, <1>7, <1>8, <1>9 DEF SkyInv

\* What is left alone keeps its part of the invariant.
LEMMA SkySame ==
  ASSUME SkyInv
  PROVE  /\ UNCHANGED <<sSend, sHold, sTimer, sClosing, sLoop, sDrained>> => SkyHolds'
         /\ UNCHANGED <<sBatch, sBatchBytes, sClosed, sFlushTimer, sTimer, sFaults, sWriter>>
              => SkyBatch'
         /\ UNCHANGED <<sSend, sHold, sBatch>> => SkyOnce'
         /\ UNCHANGED <<sModel, sSend, sResult, sHold, sBatch, sFaults, sLost, sWrote>>
              => SkyWritten'
         /\ UNCHANGED <<sWrote, sGot, sDropped, sTopic, sQueue, sDrained>> => SkyFlow'
<1>1. UNCHANGED <<sSend, sHold, sTimer, sClosing, sLoop, sDrained>> => SkyHolds'
  BY DEF SkyInv, SkyHolds
<1>2. UNCHANGED <<sBatch, sBatchBytes, sClosed, sFlushTimer, sTimer, sFaults, sWriter>>
        => SkyBatch'
  BY DEF SkyInv, SkyBatch, Sky!TimerArmed
<1>3. UNCHANGED <<sSend, sHold, sBatch>> => SkyOnce'
  BY DEF SkyInv, SkyOnce
<1>4. UNCHANGED <<sModel, sSend, sResult, sHold, sBatch, sFaults, sLost, sWrote>>
        => SkyWritten'
  BY DEF SkyInv, SkyWritten, Waits, Sky!Accepted
<1>5. UNCHANGED <<sWrote, sGot, sDropped, sTopic, sQueue, sDrained>> => SkyFlow'
  BY DEF SkyInv, SkyFlow
<1> QED BY <1>1, <1>2, <1>3, <1>4, <1>5

\* Messages move between the batch and one holder, and those of D, of calls that only
\* begin, come in: each stays in one place.
LEMMA SkyMoved ==
  ASSUME SkyInv, NEW h \in Who, NEW X \in Seq(Messages), NEW D \in SUBSET Messages,
         sBatch' \in Seq(Messages), sHold' = [sHold EXCEPT ![h] = X],
         \A n \in Messages :
           Sky!Times(n, X) + Sky!Times(n, sBatch') =
             Sky!Times(n, sHold[h]) + Sky!Times(n, sBatch) + (IF n \in D THEN 1 ELSE 0),
         \A n \in D : sSend[n] = "new",
         \A n \in Messages : sSend'[n] = "new" => sSend[n] = "new" /\ n \notin D
  PROVE  SkyOnce' /\ \A n \in Messages : Waits(n)' <=> Waits(n) \/ n \in D
<1>1. /\ \A n \in Messages, g \in Who :
           Sky!Times(n, sHold'[g]) = IF g = h THEN Sky!Times(n, X) ELSE Sky!Times(n, sHold[g])
      /\ \A g \in Who : sHold'[g] \in Seq(Messages) /\ sHold[g] \in Seq(Messages)
      /\ sBatch \in Seq(Messages)
  BY DEF SkyInv, SkyType
<1>2. \A n \in Messages :
        /\ Sky!Times(n, X) \in Nat /\ Sky!Times(n, sBatch') \in Nat
        /\ Sky!Times(n, sBatch) \in Nat
        /\ \A g \in Who : Sky!Times(n, sHold[g]) \in Nat
  BY <1>1, TimesFacts
<1>3. ASSUME NEW n \in Messages
      PROVE  /\ Sky!Times(n, sBatch') <= 1
             /\ \A g \in Who : Sky!Times(n, sHold'[g]) <= 1
             /\ \A g \in Who : Sky!Times(n, sBatch') = 0 \/ Sky!Times(n, sHold'[g]) = 0
             /\ \A g, k \in Who :
                  g = k \/ Sky!Times(n, sHold'[g]) = 0 \/ Sky!Times(n, sHold'[k]) = 0
             /\ sSend'[n] = "new" =>
                  /\ Sky!Times(n, sBatch') = 0
                  /\ \A g \in Who : Sky!Times(n, sHold'[g]) = 0
  <2>1. /\ Sky!Times(n, sBatch) <= 1
        /\ \A g \in Who : Sky!Times(n, sHold[g]) <= 1
        /\ \A g \in Who : Sky!Times(n, sBatch) = 0 \/ Sky!Times(n, sHold[g]) = 0
        /\ \A g, k \in Who :
             g = k \/ Sky!Times(n, sHold[g]) = 0 \/ Sky!Times(n, sHold[k]) = 0
        /\ sSend[n] = "new" =>
             /\ Sky!Times(n, sBatch) = 0
             /\ \A g \in Who : Sky!Times(n, sHold[g]) = 0
    BY DEF SkyInv, SkyOnce
  <2>2. Sky!Times(n, X) + Sky!Times(n, sBatch') <= 1
    BY <1>2, <2>1
  <2>3. Sky!Times(n, X) > 0 \/ Sky!Times(n, sBatch') > 0 =>
          \A g \in Who : g = h \/ Sky!Times(n, sHold[g]) = 0
    <3>1. CASE n \in D
      BY <2>1, <3>1
    <3>2. CASE n \notin D
      <4>1. Sky!Times(n, X) + Sky!Times(n, sBatch') = Sky!Times(n, sHold[h]) + Sky!Times(n, sBatch)
        BY <3>2, <1>2
      <4>2. Sky!Times(n, X) > 0 \/ Sky!Times(n, sBatch') > 0 =>
              Sky!Times(n, sHold[h]) # 0 \/ Sky!Times(n, sBatch) # 0
        <5> DEFINE x == Sky!Times(n, X)
                   y == Sky!Times(n, sBatch')
                   o == Sky!Times(n, sHold[h])
                   b == Sky!Times(n, sBatch)
        <5>1. x \in Nat /\ y \in Nat /\ o \in Nat /\ b \in Nat /\ x + y = o + b
          BY <1>2, <4>1
        <5> HIDE DEF x, y, o, b
        <5>2. x > 0 \/ y > 0 => o # 0 \/ b # 0
          BY <5>1
        <5> QED BY <5>2 DEF x, y, o, b
      <4> QED BY <4>2, <2>1
    <3> QED BY <3>1, <3>2
  <2>4. sSend'[n] = "new" => /\ Sky!Times(n, X) = 0 /\ Sky!Times(n, sBatch') = 0
                             /\ \A g \in Who : Sky!Times(n, sHold[g]) = 0
    BY <1>2, <2>1
  <2>5. Sky!Times(n, X) <= 1 /\ Sky!Times(n, sBatch') <= 1
    BY <1>2, <2>2
  <2>6. Sky!Times(n, X) = 0 \/ Sky!Times(n, sBatch') = 0
    BY <1>2, <2>2
  <2>7. \A g \in Who : Sky!Times(n, sHold'[g]) <= 1
    BY <1>1, <2>1, <2>5
  <2>8. \A g \in Who : Sky!Times(n, sBatch') = 0 \/ Sky!Times(n, sHold'[g]) = 0
    BY <1>1, <1>2, <2>3, <2>6
  <2>9. \A g, k \in Who :
          g = k \/ Sky!Times(n, sHold'[g]) = 0 \/ Sky!Times(n, sHold'[k]) = 0
    <3> SUFFICES ASSUME NEW g \in Who, NEW k \in Who, g # k
                 PROVE  Sky!Times(n, sHold'[g]) = 0 \/ Sky!Times(n, sHold'[k]) = 0
      OBVIOUS
    <3>1. CASE g # h /\ k # h
      BY <3>1, <1>1, <2>1
    <3>2. CASE g = h \/ k = h
      <4>1. Sky!Times(n, X) = 0 \/ \A j \in Who : j = h \/ Sky!Times(n, sHold[j]) = 0
        BY <1>2, <2>3
      <4> QED BY <3>2, <4>1, <1>1
    <3> QED BY <3>1, <3>2
  <2>10. sSend'[n] = "new" => \A g \in Who : Sky!Times(n, sHold'[g]) = 0
    BY <1>1, <2>4
  <2> QED BY <2>4, <2>5, <2>7, <2>8, <2>9, <2>10
<1>4. ASSUME NEW n \in Messages PROVE Waits(n)' <=> Waits(n) \/ n \in D
  <2>1. Waits(n)' <=> Sky!Times(n, sBatch') > 0 \/ \E g \in Who : Sky!Times(n, sHold'[g]) > 0
    BY DEF Waits
  <2>2. Waits(n) <=> Sky!Times(n, sBatch) > 0 \/ \E g \in Who : Sky!Times(n, sHold[g]) > 0
    BY DEF Waits
  <2>3. Sky!Times(n, X) > 0 \/ Sky!Times(n, sBatch') > 0 <=>
          Sky!Times(n, sHold[h]) > 0 \/ Sky!Times(n, sBatch) > 0 \/ n \in D
    BY <1>2
  <2> QED BY <1>1, <2>1, <2>2, <2>3
<1> QED BY <1>3, <1>4 DEF SkyOnce

\* A holder is done with its payloads: they wait no longer.
LEMMA SkyEmptied ==
  ASSUME SkyInv, NEW h \in Who, sHold' = [sHold EXCEPT ![h] = <<>>], UNCHANGED sBatch,
         \A n \in Messages : sSend'[n] = "new" => sSend[n] = "new"
  PROVE  /\ SkyOnce'
         /\ \A n \in Messages : Waits(n)' <=> Waits(n) /\ Sky!Times(n, sHold[h]) = 0
<1>1. /\ \A n \in Messages, g \in Who :
           Sky!Times(n, sHold'[g]) = IF g = h THEN 0 ELSE Sky!Times(n, sHold[g])
      /\ \A n \in Messages, g \in Who : Sky!Times(n, sHold[g]) \in Nat
      /\ \A n \in Messages : Sky!Times(n, sBatch) \in Nat /\ sBatch' = sBatch
  BY TimesFacts DEF SkyInv, SkyType
<1>2. SkyOnce'
  BY <1>1 DEF SkyInv, SkyOnce
<1>3. ASSUME NEW n \in Messages PROVE Waits(n)' <=> Waits(n) /\ Sky!Times(n, sHold[h]) = 0
  <2>1. Waits(n)' <=> Sky!Times(n, sBatch) > 0 \/ \E g \in Who : Sky!Times(n, sHold'[g]) > 0
    BY <1>1 DEF Waits
  <2>2. Waits(n) <=> Sky!Times(n, sBatch) > 0 \/ \E g \in Who : Sky!Times(n, sHold[g]) > 0
    BY DEF Waits
  <2>3. \A g \in Who : /\ Sky!Times(n, sBatch) = 0 \/ Sky!Times(n, sHold[g]) = 0
                       /\ g = h \/ Sky!Times(n, sHold[g]) = 0 \/ Sky!Times(n, sHold[h]) = 0
    BY DEF SkyInv, SkyOnce
  <2> QED BY <1>1, <2>1, <2>2, <2>3
<1> QED BY <1>2, <1>3

\* A new timer takes the place of the one before, which is idle unless it has fired.
LEMMA TimerStarts ==
  ASSUME SkyInv, NEW timers \in [Timers -> {"idle", "armed", "fired", "flush", "failed"}],
         Sky!startFlushTimer(timers)
  PROVE  /\ sTimer' \in [Timers -> {"idle", "armed", "fired", "flush", "failed"}]
         /\ sFlushTimer' \in Timers /\ sTimer'[sFlushTimer'] = "armed"
         /\ \A t \in Timers : /\ timers[t] \in {"flush", "failed"} => sTimer'[t] = timers[t]
                              /\ sTimer'[t] \in {"flush", "failed"} => sTimer'[t] = timers[t]
<1> DEFINE stopped == Sky!Stopped(timers)
           spare == {t \in Timers : stopped[t] = "idle" /\ t # sFlushTimer}
           fresh == CHOOSE t \in spare : TRUE
<1>1. spare # {} /\ sTimer' = [stopped EXCEPT ![fresh] = "armed"] /\ sFlushTimer' = fresh
  BY DEF Sky!startFlushTimer
<1>2. /\ stopped \in [Timers -> {"idle", "armed", "fired", "flush", "failed"}]
      /\ \A t \in Timers : /\ timers[t] \in {"flush", "failed"} => stopped[t] = timers[t]
                           /\ stopped[t] \in {"flush", "failed"} => stopped[t] = timers[t]
  BY DEF Sky!Stopped
<1>3. fresh \in Timers /\ stopped[fresh] = "idle"
  <2>1. fresh \in spare
    <3> HIDE DEF spare
    <3> QED BY <1>1
  <2> QED BY <2>1
<1> HIDE DEF stopped, fresh, spare
<1> QED BY <1>1, <1>2, <1>3

\* A timer that is stopped.
LEMMA TimerStops ==
  ASSUME SkyInv, Sky!stopFlushTimer(sTimer)
  PROVE  /\ sTimer' \in [Timers -> {"idle", "armed", "fired", "flush", "failed"}]
         /\ sFlushTimer' = None
         /\ \A t \in Timers : /\ sTimer[t] \in {"flush", "failed"} => sTimer'[t] = sTimer[t]
                              /\ sTimer'[t] \in {"flush", "failed"} => sTimer'[t] = sTimer[t]
  BY DEF Sky!stopFlushTimer, Sky!Stopped, SkyInv, SkyType

\* One that is left alone, or replaced, keeps what its callback has in hand.
TimersKept ==
  /\ sTimer' \in [Timers -> {"idle", "armed", "fired", "flush", "failed"}]
  /\ sFlushTimer' \in Timers \cup {None}
  /\ \A t \in Timers : /\ sTimer[t] \in {"flush", "failed"} => sTimer'[t] = sTimer[t]
                       /\ sTimer'[t] \in {"flush", "failed"} => sTimer'[t] = sTimer[t]

\* A Send takes the payloads X to be written itself; D is its message, unless that goes
\* nowhere.
Takes(m, X, D) ==
  /\ sHold' = [sHold EXCEPT ![m] = X] /\ sBatch' \in Seq(Messages)
  /\ \A n \in Messages :
       Sky!Times(n, X) + Sky!Times(n, sBatch') =
         Sky!Times(n, sHold[m]) + Sky!Times(n, sBatch) + (IF n \in D THEN 1 ELSE 0)
  /\ \/ /\ sSend' = [sSend EXCEPT ![m] = "flush"] /\ sResult' = sResult
        /\ Sky!Times(m, X) > 0 \/ (sModel = "octet" /\ Size[m] = 0)
     \/ /\ sSend' = [sSend EXCEPT ![m] = "returned"] /\ X = <<>>
        /\ \/ sResult' = [sResult EXCEPT ![m] = "error"]
           \/ sResult' = [sResult EXCEPT ![m] = "ok"] /\ D = {m}

\* What a Send puts into the batch or takes to be written.
LEMMA SendTakes ==
  ASSUME SkyInv, NEW m \in Messages, sSend[m] = "new", Sky!SendBegin(m)
  PROVE  /\ TimersKept /\ SkyBatch'
         /\ \E X \in Seq(Messages), D \in SUBSET {m} : Takes(m, X, D)
<1>1. /\ sHold[m] = << >> /\ sHold \in [Who -> Seq(Messages)] /\ m \in Who
      /\ sBatch \in Seq(Messages) /\ Append(sBatch, m) \in Seq(Messages)
      /\ << >> \in Seq(Messages) /\ <<m>> \in Seq(Messages)
  <2>1. sHold[m] = << >> /\ sHold \in [Who -> Seq(Messages)] /\ sBatch \in Seq(Messages)
    BY DEF SkyInv, SkyType, SkyHolds
  <2> QED BY <2>1, Holding
<1>2. /\ \A n \in Messages : Sky!Times(n, << >>) = 0 /\ Sky!Times(n, sBatch) \in Nat
      /\ \A n \in Messages : Sky!Times(n, <<m>>) = IF n = m THEN 1 ELSE 0
      /\ \A n \in Messages :
           Sky!Times(n, Append(sBatch, m)) = Sky!Times(n, sBatch) + (IF n = m THEN 1 ELSE 0)
  BY <1>1, TimesFacts
<1>3. [sHold EXCEPT ![m] = << >>] = sHold
  BY <1>1
<1>4. UNCHANGED <<sFlushTimer, sTimer>> => TimersKept
  BY DEF TimersKept, SkyInv, SkyType
<1>5. UNCHANGED <<sFaults, sWriter>>
  BY DEF Sky!SendBegin
<1>6. CASE sModel = "octet"
  <2>1. /\ sHold' = [sHold EXCEPT ![m] = IF Size[m] = 0 THEN << >> ELSE <<m>>]
        /\ sSend' = [sSend EXCEPT ![m] = "flush"] /\ sResult' = sResult
        /\ UNCHANGED <<sBatch, sBatchBytes, sClosed, sFlushTimer, sTimer>>
    BY <1>6 DEF Sky!SendBegin, Sky!batching
  <2>2. SkyBatch'
    BY <2>1, <1>5, SkySame
  <2>3. CASE Size[m] = 0
    <3>1. sHold' = [sHold EXCEPT ![m] = << >>] /\ sBatch' = sBatch
      BY <2>1, <2>3
    <3>2. \A n \in Messages :
            Sky!Times(n, << >>) + Sky!Times(n, sBatch') =
              Sky!Times(n, sHold[m]) + Sky!Times(n, sBatch) + (IF n \in {} THEN 1 ELSE 0)
      BY <1>1, <1>2, <3>1
    <3>3. Takes(m, << >>, {})
      BY <1>1, <1>6, <2>1, <2>3, <3>1, <3>2 DEF Takes
    <3> QED BY <1>1, <1>4, <2>1, <2>2, <3>3
  <2>4. CASE Size[m] # 0
    <3>1. sHold' = [sHold EXCEPT ![m] = <<m>>] /\ sBatch' = sBatch
      BY <2>1, <2>4
    <3>2. \A n \in Messages :
            Sky!Times(n, <<m>>) + Sky!Times(n, sBatch') =
              Sky!Times(n, sHold[m]) + Sky!Times(n, sBatch) + (IF n \in {m} THEN 1 ELSE 0)
      <4> DEFINE one == <<m>>
      <4>1. \A n \in Messages : Sky!Times(n, one) = IF n = m THEN 1 ELSE 0
        BY <1>2
      <4> HIDE DEF one
      <4>2. \A n \in Messages :
              Sky!Times(n, one) + Sky!Times(n, sBatch') =
                Sky!Times(n, sHold[m]) + Sky!Times(n, sBatch) + (IF n \in {m} THEN 1 ELSE 0)
        BY <1>1, <1>2, <3>1, <4>1
      <4> QED BY <4>2 DEF one
    <3>3. Sky!Times(m, <<m>>) > 0
      BY <1>2
    <3>4. Takes(m, <<m>>, {m})
      BY <1>1, <2>1, <3>1, <3>2, <3>3 DEF Takes
    <3> QED BY <1>1, <1>4, <2>1, <2>2, <3>4
  <2> QED BY <2>3, <2>4
<1>7. CASE sModel # "octet"
  <2>1. Sky!sendBatch(m)
    BY <1>7 DEF Sky!SendBegin
  <2>2. CASE sClosed
    <3>1. /\ sSend' = [sSend EXCEPT ![m] = "returned"] /\ sResult' = [sResult EXCEPT ![m] = "error"]
          /\ UNCHANGED <<sBatch, sBatchBytes, sClosed, sFlushTimer, sTimer, sHold>>
      BY <2>1, <2>2 DEF Sky!sendBatch, Sky!Return, Sky!batching
    <3>2. SkyBatch'
      BY <3>1, <1>5, SkySame
    <3>3. sHold' = [sHold EXCEPT ![m] = << >>] /\ sBatch' = sBatch
      BY <3>1, <1>3
    <3>4. \A n \in Messages :
            Sky!Times(n, << >>) + Sky!Times(n, sBatch') =
              Sky!Times(n, sHold[m]) + Sky!Times(n, sBatch) + (IF n \in {} THEN 1 ELSE 0)
      BY <1>1, <1>2, <3>3
    <3>5. Takes(m, << >>, {})
      BY <1>1, <3>1, <3>3, <3>4 DEF Takes
    <3> QED BY <1>1, <1>4, <3>1, <3>2, <3>5
  <2>3. CASE ~sClosed /\ Size[m] > BatchSize /\ sBatch = << >>
    <3>1. /\ sHold' = [sHold EXCEPT ![m] = <<m>>] /\ sSend' = [sSend EXCEPT ![m] = "flush"]
          /\ UNCHANGED <<sResult, sBatch, sBatchBytes, sClosed, sFlushTimer, sTimer>>
      BY <2>1, <2>3 DEF Sky!sendBatch, Sky!batching
    <3>2. SkyBatch'
      BY <3>1, <1>5, SkySame
    <3>3. \A n \in Messages :
            Sky!Times(n, <<m>>) + Sky!Times(n, sBatch') =
              Sky!Times(n, sHold[m]) + Sky!Times(n, sBatch) + (IF n \in {m} THEN 1 ELSE 0)
      <4> DEFINE one == <<m>>
      <4>1. \A n \in Messages : Sky!Times(n, one) = IF n = m THEN 1 ELSE 0
        BY <1>2
      <4> HIDE DEF one
      <4>2. \A n \in Messages :
              Sky!Times(n, one) + Sky!Times(n, sBatch') =
                Sky!Times(n, sHold[m]) + Sky!Times(n, sBatch) + (IF n \in {m} THEN 1 ELSE 0)
        BY <1>1, <1>2, <3>1, <4>1
      <4> QED BY <4>2 DEF one
    <3>4. Sky!Times(m, <<m>>) > 0
      BY <1>2
    <3>5. Takes(m, <<m>>, {m})
      BY <1>1, <3>1, <3>3, <3>4 DEF Takes
    <3> QED BY <1>1, <1>4, <3>1, <3>2, <3>5
  <2>4. CASE ~sClosed /\ ~(Size[m] > BatchSize /\ sBatch = << >>)
    <3>1. UNCHANGED sClosed
      BY <2>1, <2>4 DEF Sky!sendBatch
    <3>2. \/ /\ sHold' = [sHold EXCEPT ![m] = Append(sBatch, m)]
             /\ sBatch' = << >> /\ sBatchBytes' = 0 /\ Sky!stopFlushTimer(sTimer)
             /\ sSend' = [sSend EXCEPT ![m] = "flush"] /\ UNCHANGED sResult
          \/ /\ sBatch' = Append(sBatch, m) /\ sBatchBytes' = sBatchBytes + Size[m]
             /\ \/ sBatch = << >> /\ Sky!startFlushTimer(sTimer)
                \/ sBatch # << >> /\ UNCHANGED <<sTimer, sFlushTimer>>
             /\ sSend' = [sSend EXCEPT ![m] = "returned"]
             /\ sResult' = [sResult EXCEPT ![m] = "ok"] /\ UNCHANGED sHold
      BY <2>1, <2>4 DEF Sky!sendBatch, Sky!Return
    <3>3. CASE sBatch' = << >>
      <4>1. /\ sHold' = [sHold EXCEPT ![m] = Append(sBatch, m)]
            /\ sBatchBytes' = 0 /\ Sky!stopFlushTimer(sTimer)
            /\ sSend' = [sSend EXCEPT ![m] = "flush"] /\ UNCHANGED sResult
        BY <3>2, <3>3, <1>1, AppendProperties
      <4>2. TimersKept
        BY <4>1, TimerStops DEF TimersKept
      <4>3. SkyBatch'
        BY <3>3, <4>1, <4>2, <1>5, BytesFacts
        DEF SkyBatch, Sky!TimerArmed, SkyInv, TimersKept
      <4>4. \A n \in Messages :
              Sky!Times(n, Append(sBatch, m)) + Sky!Times(n, sBatch') =
                Sky!Times(n, sHold[m]) + Sky!Times(n, sBatch) + (IF n \in {m} THEN 1 ELSE 0)
        BY <1>1, <1>2, <3>3
      <4>5. Sky!Times(m, Append(sBatch, m)) > 0
        BY <1>2
      <4>6. Takes(m, Append(sBatch, m), {m})
        BY <1>1, <3>3, <4>1, <4>4, <4>5 DEF Takes
      <4> QED BY <1>1, <4>2, <4>3, <4>6
    <3>4. CASE sBatch' # << >>
      <4>1. /\ sBatch' = Append(sBatch, m) /\ sBatchBytes' = sBatchBytes + Size[m]
            /\ \/ sBatch = << >> /\ Sky!startFlushTimer(sTimer)
               \/ sBatch # << >> /\ UNCHANGED <<sTimer, sFlushTimer>>
            /\ sSend' = [sSend EXCEPT ![m] = "returned"]
            /\ sResult' = [sResult EXCEPT ![m] = "ok"] /\ UNCHANGED sHold
        BY <3>2, <3>4
      <4>2. sTimer \in [Timers -> {"idle", "armed", "fired", "flush", "failed"}]
        BY DEF SkyInv, SkyType
      <4>3. /\ TimersKept
            /\ sFlushTimer' # None /\ sTimer'[sFlushTimer'] \in {"armed", "fired"}
        <5>1. CASE sBatch = << >>
          BY <4>1, <4>2, <5>1, TimerStarts, Holding DEF TimersKept
        <5>2. CASE sBatch # << >>
          BY <4>1, <5>2, <2>4, <1>4 DEF SkyInv, SkyBatch, Sky!TimerArmed
        <5> QED BY <5>1, <5>2
      <4>4. sBatchBytes' = Sky!Bytes(sBatch')
        BY <4>1, <1>1, BytesFacts DEF SkyInv, SkyBatch
      <4>5. SkyBatch'
        BY <3>1, <2>4, <4>3, <4>4, <1>5
        DEF SkyBatch, Sky!TimerArmed, SkyInv, TimersKept
      <4>6. sHold' = [sHold EXCEPT ![m] = << >>]
        BY <1>3, <4>1
      <4>7. \A n \in Messages :
              Sky!Times(n, << >>) + Sky!Times(n, sBatch') =
                Sky!Times(n, sHold[m]) + Sky!Times(n, sBatch) + (IF n \in {m} THEN 1 ELSE 0)
        BY <1>1, <1>2, <4>1
      <4>8. Takes(m, << >>, {m})
        BY <1>1, <4>1, <4>6, <4>7 DEF Takes
      <4> QED BY <1>1, <4>3, <4>5, <4>8
    <3> QED BY <3>3, <3>4
  <2> QED BY <2>2, <2>3, <2>4
<1> QED BY <1>6, <1>7

\* Send until it writes, step by step.
LEMMA SkySends ==
  ASSUME SkyInv, NEW m \in Messages, Sky!SendBegin(m)
  PROVE  SkyInv'
<1>1. /\ sSend[m] = "new"
      /\ UNCHANGED <<sModel, sClosing, sWriter, sTopic, sQueue, sPumpError, sReader, sLoop,
                     sDrained, sFaults, sLost, sWrote, sGot, sDropped>>
  BY DEF Sky!SendBegin, Sky!native, Sky!receiving
<1>2. TimersKept /\ SkyBatch' /\ \E X \in Seq(Messages), D \in SUBSET {m} : Takes(m, X, D)
  BY <1>1, SendTakes
<1>3. PICK X \in Seq(Messages), D \in SUBSET {m} : Takes(m, X, D)
  BY <1>2
<1>4. m \in Who /\ m \notin Timers /\ m # Closer /\ D \in SUBSET Messages
  BY Holding
<1>5. /\ sHold' = [sHold EXCEPT ![m] = X] /\ sBatch' \in Seq(Messages)
      /\ \A n \in Messages :
           Sky!Times(n, X) + Sky!Times(n, sBatch') =
             Sky!Times(n, sHold[m]) + Sky!Times(n, sBatch) + (IF n \in D THEN 1 ELSE 0)
      /\ sSend' = [sSend EXCEPT ![m] = "flush"] \/ sSend' = [sSend EXCEPT ![m] = "returned"]
  BY <1>3 DEF Takes
<1>6. SkyOnce' /\ \A n \in Messages : Waits(n)' <=> Waits(n) \/ n \in D
  <2>1. sSend \in [Messages -> {"new", "flush", "returned"}]
    BY DEF SkyInv, SkyType
  <2>2. \A n \in Messages : sSend'[n] = "new" => sSend[n] = "new" /\ n \notin D
    BY <2>1, <1>5
  <2>3. \A n \in D : sSend[n] = "new"
    BY <1>1
  <2> QED BY <1>4, <1>5, <2>2, <2>3, SkyMoved
<1>7. SkyType'
  BY <1>1, <1>2, <1>3, <1>4 DEF SkyInv, SkyType, Takes, TimersKept, Sky!SendBegin,
     Sky!sendBatch, Sky!batching, SkyBatch
<1>8. SkyHolds'
  <2>1. /\ sHold \in [Who -> Seq(Messages)] /\ sSend \in [Messages -> {"new", "flush", "returned"}]
        /\ \A n \in Messages : sSend[n] # "flush" => sHold[n] = <<>>
        /\ \A t \in Timers : sTimer[t] \notin {"flush", "failed"} => sHold[t] = <<>>
        /\ sClosing # "flush" => sHold[Closer] = <<>>
    BY DEF SkyInv, SkyType, SkyHolds
  <2>2. \A n \in Messages : sSend'[n] # "flush" => sHold'[n] = <<>>
    BY <1>1, <1>3, <2>1, Holding DEF Takes
  <2>3. \A t \in Timers : sTimer'[t] \notin {"flush", "failed"} => sHold'[t] = <<>>
    <3>1. \A t \in Timers : sHold'[t] = sHold[t]
      BY <1>4, <1>5, <2>1, Holding
    <3> QED BY <1>2, <2>1, <3>1 DEF TimersKept
  <2>4. sClosing' # "flush" => sHold'[Closer] = <<>>
    BY <1>1, <1>4, <1>5, <2>1, Holding
  <2> QED BY <1>1, <2>2, <2>3, <2>4 DEF SkyInv, SkyHolds
<1>9. SkyWritten'
  <2> SUFFICES ASSUME NEW n \in Messages
               PROVE  /\ sWrote[n] <= 1 + sFaults
                      /\ Waits(n)' => sWrote[n] <= sFaults
                      /\ sSend'[n] = "new" => sWrote[n] = 0
                      /\ sSend'[n] = "flush" =>
                           Sky!Times(n, sHold'[n]) > 0 \/ (sModel = "octet" /\ Size[n] = 0)
                      /\ Sky!Accepted(n)' => Waits(n)' \/ sWrote[n] > 0 \/ n \in sLost
    BY <1>1 DEF SkyWritten
  <2>1. /\ sWrote[n] <= 1 + sFaults
        /\ Waits(n) => sWrote[n] <= sFaults
        /\ sSend[n] = "new" => sWrote[n] = 0
        /\ sSend[n] = "flush" =>
             Sky!Times(n, sHold[n]) > 0 \/ (sModel = "octet" /\ Size[n] = 0)
        /\ Sky!Accepted(n) => Waits(n) \/ sWrote[n] > 0 \/ n \in sLost
        /\ sFaults \in Nat
    BY DEF SkyInv, SkyType, SkyWritten
  <2>2. Waits(n)' <=> Waits(n) \/ n \in D
    BY <1>6
  <2>3. /\ sHold \in [Who -> Seq(Messages)] /\ sSend \in [Messages -> {"new", "flush", "returned"}]
        /\ sResult \in [Messages -> {None, "ok", "error"}] /\ n \in Who
    BY Holding DEF SkyInv, SkyType
  <2>4. CASE n = m
    <3>1. Waits(n)' => sWrote[n] <= sFaults
      BY <1>1, <2>1, <2>4
    <3>2. sSend'[n] = "flush" =>
            Sky!Times(n, sHold'[n]) > 0 \/ (sModel = "octet" /\ Size[n] = 0)
      BY <1>3, <1>4, <2>3, <2>4 DEF Takes
    <3>3. Sky!Accepted(n)' => Sky!Accepted(n) \/ n \in D
      BY <1>1, <1>3, <2>3, <2>4 DEF Takes, Sky!Accepted
    <3>4. sSend'[n] # "new"
      BY <1>5, <2>3, <2>4
    <3> QED BY <2>1, <2>2, <3>1, <3>2, <3>3, <3>4
  <2>5. CASE n # m
    <3>1. sSend'[n] = sSend[n] /\ sHold'[n] = sHold[n] /\ n \notin D
      BY <1>5, <2>3, <2>5
    <3>2. sResult'[n] = sResult[n]
      BY <1>3, <2>3, <2>5 DEF Takes
    <3>3. Sky!Accepted(n)' <=> Sky!Accepted(n)
      BY <1>1, <3>2 DEF Sky!Accepted
    <3> QED BY <2>1, <2>2, <3>1, <3>3
  <2> QED BY <2>4, <2>5
<1>10. SkyFlow'
  BY <1>1, SkySame
<1> QED BY <1>2, <1>6, <1>7, <1>8, <1>9, <1>10 DEF SkyInv

\* Payloads that are moved between the batch and a timer or Close wait as before.
LEMMA SkyShifted ==
  ASSUME SkyInv, NEW h \in Who \ Messages, NEW X \in Seq(Messages),
         sBatch' \in Seq(Messages), sHold' = [sHold EXCEPT ![h] = X],
         \A n \in Messages : Sky!Times(n, X) + Sky!Times(n, sBatch') =
                               Sky!Times(n, sHold[h]) + Sky!Times(n, sBatch),
         UNCHANGED <<sModel, sSend, sResult, sFaults, sLost, sWrote>>
  PROVE  SkyOnce' /\ SkyWritten'
<1>1. \A n \in Messages :
        Sky!Times(n, X) + Sky!Times(n, sBatch') =
          Sky!Times(n, sHold[h]) + Sky!Times(n, sBatch) + (IF n \in {} THEN 1 ELSE 0)
  <2>1. \A n \in Messages : Sky!Times(n, sHold[h]) \in Nat /\ Sky!Times(n, sBatch) \in Nat
    BY TimesFacts DEF SkyInv, SkyType
  <2> QED BY <2>1
<1>2. SkyOnce' /\ \A n \in Messages : Waits(n)' <=> Waits(n) \/ n \in {}
  <2>1. \A n \in {} : sSend[n] = "new"
    OBVIOUS
  <2>2. \A n \in Messages : sSend'[n] = "new" => sSend[n] = "new" /\ n \notin {}
    OBVIOUS
  <2>3. h \in Who /\ {} \in SUBSET Messages
    OBVIOUS
  <2> QED BY <1>1, <2>1, <2>2, <2>3, SkyMoved
<1>3. \A n \in Messages : sHold'[n] = sHold[n]
  BY Holding DEF SkyInv, SkyType
<1>4. \A n \in Messages : (Waits(n)' <=> Waits(n)) /\ (Sky!Accepted(n)' <=> Sky!Accepted(n))
  BY <1>2 DEF Sky!Accepted
<1> QED BY <1>2, <1>3, <1>4 DEF SkyInv, SkyWritten

\* The batch is taken by a timer or Close.
LEMMA SkyDrains ==
  ASSUME SkyInv, NEW h \in Who \ Messages, sHold[h] = <<>>, Sky!drainBatch(h),
         UNCHANGED <<sModel, sSend, sResult, sFaults, sLost, sWrote>>
  PROVE  /\ SkyOnce' /\ SkyWritten' /\ sBatch' = <<>>
         /\ sBatchBytes' = Sky!Bytes(sBatch') /\ sBatch' \in Seq(Messages)
         /\ sHold' \in [Who -> Seq(Messages)] /\ sHold'[h] = sBatch
         /\ \A g \in Who : g # h => sHold'[g] = sHold[g]
<1>1. /\ sHold' = [sHold EXCEPT ![h] = sBatch] /\ sBatch' = <<>> /\ sBatchBytes' = 0
      /\ sHold \in [Who -> Seq(Messages)] /\ sBatch \in Seq(Messages)
      /\ sBatch' \in Seq(Messages)
  BY DEF Sky!drainBatch, SkyInv, SkyType
<1>2. \A n \in Messages : Sky!Times(n, sBatch) + Sky!Times(n, sBatch') =
                            Sky!Times(n, sHold[h]) + Sky!Times(n, sBatch)
  <2>1. \A n \in Messages : Sky!Times(n, <<>>) = 0 /\ Sky!Times(n, sBatch) \in Nat
    BY <1>1, TimesFacts
  <2> QED BY <1>1, <2>1
<1>3. SkyOnce' /\ SkyWritten'
  BY <1>1, <1>2, SkyShifted
<1> QED BY <1>1, <1>3, BytesFacts

\* A timer that fires takes the batch, unless it is too late.
LEMMA SkyTakes ==
  ASSUME SkyInv, NEW t \in Timers, Sky!TimerTakes(t)
  PROVE  SkyInv'
<1>1. /\ sTimer[t] = "fired"
      /\ UNCHANGED <<sModel, sSend, sResult, sClosed, sClosing, sWriter, sTopic, sQueue,
                     sPumpError, sReader, sLoop, sDrained, sFaults, sLost, sWrote, sGot,
                     sDropped>>
  BY DEF Sky!TimerTakes, Sky!sending, Sky!native, Sky!receiving
<1>2. /\ t \in Who \ Messages /\ t # Closer /\ sHold[t] = <<>>
      /\ sTimer \in [Timers -> {"idle", "armed", "fired", "flush", "failed"}]
      /\ sHold \in [Who -> Seq(Messages)]
  BY <1>1, Holding DEF SkyInv, SkyType, SkyHolds
<1>3. SkyFlow'
  BY <1>1, SkySame
<1>4. CASE sClosed
  <2>1. /\ sTimer' = [sTimer EXCEPT ![t] = "idle"]
        /\ UNCHANGED <<sBatch, sBatchBytes, sFlushTimer, sHold>>
    BY <1>4 DEF Sky!TimerTakes
  <2>2. SkyType'
    BY <1>1, <1>2, <2>1 DEF SkyInv, SkyType
  <2>3. SkyHolds'
    BY <1>1, <1>2, <2>1 DEF SkyInv, SkyHolds
  <2>4. SkyBatch'
    BY <1>1, <1>2, <1>4, <2>1 DEF SkyInv, SkyBatch, Sky!TimerArmed
  <2>5. SkyOnce' /\ SkyWritten'
    BY <1>1, <2>1, SkySame
  <2> QED BY <1>3, <2>2, <2>3, <2>4, <2>5 DEF SkyInv
<1>5. CASE ~sClosed
  <2>1. /\ Sky!drainBatch(t) /\ sFlushTimer' = None
        /\ sTimer' = [sTimer EXCEPT ![t] = IF sBatch = <<>> THEN "idle" ELSE "flush"]
    BY <1>5 DEF Sky!TimerTakes
  <2>2. /\ SkyOnce' /\ SkyWritten' /\ sBatch' = <<>>
        /\ sBatchBytes' = Sky!Bytes(sBatch') /\ sBatch' \in Seq(Messages)
        /\ sHold' \in [Who -> Seq(Messages)] /\ sHold'[t] = sBatch
        /\ \A g \in Who : g # t => sHold'[g] = sHold[g]
    BY <1>1, <1>2, <2>1, SkyDrains
  <2>3. SkyType'
    BY <1>1, <1>2, <2>1, <2>2 DEF SkyInv, SkyType
  <2>4. SkyHolds'
    BY <1>1, <1>2, <2>1, <2>2, Holding DEF SkyInv, SkyHolds
  <2>5. SkyBatch'
    BY <1>1, <1>2, <2>1, <2>2 DEF SkyInv, SkyBatch, Sky!TimerArmed
  <2> QED BY <1>3, <2>2, <2>3, <2>4, <2>5 DEF SkyInv
<1> QED BY <1>4, <1>5

\* So does Close.
LEMMA SkyCloses ==
  ASSUME SkyInv, Sky!CloseBegin
  PROVE  SkyInv'
<1>1. /\ sClosing = "idle" /\ sClosed' = TRUE
      /\ Sky!drainBatch(Closer) /\ Sky!stopFlushTimer(sTimer)
      /\ sClosing' = IF sBatch = <<>> THEN "writer" ELSE "flush"
      /\ UNCHANGED <<sModel, sSend, sResult, sWriter, sTopic, sQueue, sPumpError, sReader,
                     sLoop, sDrained, sFaults, sLost, sWrote, sGot, sDropped>>
  BY DEF Sky!CloseBegin, Sky!sending, Sky!native, Sky!receiving
<1>2. Closer \in Who \ Messages /\ sHold[Closer] = <<>>
  BY <1>1, Holding DEF SkyInv, SkyHolds
<1>3. SkyFlow'
  BY <1>1, SkySame
<1>4. /\ SkyOnce' /\ SkyWritten' /\ sBatch' = <<>>
      /\ sBatchBytes' = Sky!Bytes(sBatch') /\ sBatch' \in Seq(Messages)
      /\ sHold' \in [Who -> Seq(Messages)] /\ sHold'[Closer] = sBatch
      /\ \A g \in Who : g # Closer => sHold'[g] = sHold[g]
  BY <1>1, <1>2, SkyDrains
<1>5. /\ sTimer' \in [Timers -> {"idle", "armed", "fired", "flush", "failed"}]
      /\ sFlushTimer' = None
      /\ \A t \in Timers : /\ sTimer[t] \in {"flush", "failed"} => sTimer'[t] = sTimer[t]
                           /\ sTimer'[t] \in {"flush", "failed"} => sTimer'[t] = sTimer[t]
  BY <1>1, TimerStops
<1>6. SkyType'
  BY <1>1, <1>4, <1>5 DEF SkyInv, SkyType
<1>7. SkyHolds'
  BY <1>1, <1>4, <1>5, Holding DEF SkyInv, SkyHolds
<1>8. SkyBatch'
  BY <1>1, <1>4, <1>5 DEF SkyInv, SkyBatch, Sky!TimerArmed
<1> QED BY <1>3, <1>4, <1>6, <1>7, <1>8 DEF SkyInv

\* A timer whose write failed puts its payloads back before what was sent meanwhile.
LEMMA SkyRestores ==
  ASSUME SkyInv, NEW t \in Timers, Sky!TimerRestores(t)
  PROVE  SkyInv'
<1>1. /\ sTimer[t] = "failed" /\ Sky!restoreBatch(t) /\ sHold' = [sHold EXCEPT ![t] = <<>>]
      /\ UNCHANGED <<sModel, sSend, sResult, sClosed, sClosing, sWriter, sTopic, sQueue,
                     sPumpError, sReader, sLoop, sDrained, sFaults, sLost, sWrote, sGot,
                     sDropped>>
  BY DEF Sky!TimerRestores, Sky!sending, Sky!native, Sky!receiving
<1>2. /\ t \in Who \ Messages /\ t # Closer
      /\ sTimer \in [Timers -> {"idle", "armed", "fired", "flush", "failed"}]
      /\ sHold \in [Who -> Seq(Messages)] /\ sBatch \in Seq(Messages)
      /\ sFlushTimer \in Timers \cup {None}
  BY Holding DEF SkyInv, SkyType
<1>3. SkyFlow'
  BY <1>1, SkySame
<1> DEFINE others == [sTimer EXCEPT ![t] = "idle"]
<1>4. /\ sBatch' = sHold[t] \o sBatch /\ sBatchBytes' = Sky!Bytes(sBatch')
      /\ \/ sBatch' # <<>> /\ Sky!startFlushTimer(others)
         \/ sBatch' = <<>> /\ sTimer' = others /\ UNCHANGED sFlushTimer
  BY <1>1 DEF Sky!restoreBatch, Sky!RestoresBefore
<1>5. sBatch' \in Seq(Messages)
  BY <1>2, <1>4, ConcatProperties
<1>6. SkyOnce' /\ SkyWritten'
  <2>1. << >> \in Seq(Messages) /\ sHold[t] \in Seq(Messages)
    BY <1>2
  <2>2. \A n \in Messages :
          /\ Sky!Times(n, <<>>) = 0 /\ Sky!Times(n, sBatch) \in Nat
          /\ Sky!Times(n, sHold[t]) \in Nat
          /\ Sky!Times(n, sBatch') = Sky!Times(n, sHold[t]) + Sky!Times(n, sBatch)
    BY <1>2, <1>4, <2>1, TimesFacts
  <2>3. \A n \in Messages : Sky!Times(n, <<>>) + Sky!Times(n, sBatch') =
                              Sky!Times(n, sHold[t]) + Sky!Times(n, sBatch)
    BY <2>2
  <2> QED BY <1>1, <1>2, <1>5, <2>1, <2>3, SkyShifted
<1>7. /\ sTimer' \in [Timers -> {"idle", "armed", "fired", "flush", "failed"}]
      /\ sFlushTimer' \in Timers \cup {None}
      /\ sBatch' # <<>> => sFlushTimer' # None /\ sTimer'[sFlushTimer'] = "armed"
      /\ sTimer'[t] \notin {"flush", "failed"}
      /\ \A x \in Timers : x # t =>
           /\ sTimer[x] \in {"flush", "failed"} => sTimer'[x] = sTimer[x]
           /\ sTimer'[x] \in {"flush", "failed"} => sTimer'[x] = sTimer[x]
  <2>1. /\ others \in [Timers -> {"idle", "armed", "fired", "flush", "failed"}]
        /\ others[t] = "idle" /\ \A x \in Timers : x # t => others[x] = sTimer[x]
    BY <1>2
  <2> HIDE DEF others
  <2>2. CASE sBatch' # <<>>
    <3>1. /\ sTimer' \in [Timers -> {"idle", "armed", "fired", "flush", "failed"}]
          /\ sFlushTimer' \in Timers /\ sTimer'[sFlushTimer'] = "armed"
          /\ \A x \in Timers : /\ others[x] \in {"flush", "failed"} => sTimer'[x] = others[x]
                               /\ sTimer'[x] \in {"flush", "failed"} => sTimer'[x] = others[x]
      BY <1>4, <2>1, <2>2, TimerStarts
    <3> QED BY <2>1, <3>1, Holding
  <2>3. CASE sBatch' = <<>>
    BY <1>2, <1>4, <2>1, <2>3
  <2> QED BY <2>2, <2>3
<1>8. SkyType'
  BY <1>1, <1>2, <1>5, <1>7 DEF SkyInv, SkyType
<1>9. SkyHolds'
  BY <1>1, <1>2, <1>7, Holding DEF SkyInv, SkyHolds
<1>10. SkyBatch'
  BY <1>1, <1>2, <1>4, <1>7 DEF SkyInv, SkyBatch, Sky!TimerArmed
<1> QED BY <1>3, <1>6, <1>8, <1>9, <1>10 DEF SkyInv

\* Messages that are written go to DDS.
LEMMA WrittenEffect ==
  ASSUME SkyInv, NEW s \in Seq(Messages), Sky!Written(s),
         UNCHANGED <<sQueue, sDrained, sGot, sDropped>>
  PROVE  /\ sTopic' \in Seq(Messages) /\ sWrote' \in [Messages -> Nat] /\ SkyFlow'
         /\ \A n \in Messages : sWrote'[n] = sWrote[n] + Sky!Times(n, s)
<1>1. sTopic' = sTopic \o s /\ sWrote' = [n \in Messages |-> sWrote[n] + Sky!Times(n, s)]
  BY DEF Sky!Written
<1>2. /\ sTopic \in Seq(Messages) /\ sQueue \in Seq(Messages) /\ sDrained \in Seq(Messages)
      /\ sWrote \in [Messages -> Nat] /\ sGot \in [Messages -> Nat]
      /\ sDropped \in [Messages -> Nat]
  BY DEF SkyInv, SkyType
<1>3. sTopic' \in Seq(Messages)
  BY <1>1, <1>2, ConcatProperties
<1>4. \A n \in Messages :
        /\ Sky!Times(n, s) \in Nat /\ Sky!Times(n, sTopic) \in Nat
        /\ Sky!Times(n, sQueue) \in Nat /\ Sky!Times(n, sDrained) \in Nat
        /\ Sky!Times(n, sTopic') = Sky!Times(n, sTopic) + Sky!Times(n, s)
  BY <1>1, <1>2, TimesFacts
<1>5. /\ sWrote' \in [Messages -> Nat]
      /\ \A n \in Messages : sWrote'[n] = sWrote[n] + Sky!Times(n, s)
  BY <1>1, <1>2, <1>4
<1>6. SkyFlow'
  <2> SUFFICES ASSUME NEW n \in Messages
               PROVE  sWrote'[n] = sGot'[n] + sDropped'[n] + Sky!Times(n, sTopic')
                                     + Sky!Times(n, sQueue') + Sky!Times(n, sDrained')
    BY DEF SkyFlow
  <2>1. sWrote[n] = sGot[n] + sDropped[n] + Sky!Times(n, sTopic) + Sky!Times(n, sQueue)
                      + Sky!Times(n, sDrained)
    BY DEF SkyInv, SkyFlow
  <2>2. sWrote[n] \in Nat /\ sGot[n] \in Nat /\ sDropped[n] \in Nat
    BY <1>2
  <2> QED BY <1>4, <1>5, <2>1, <2>2
<1> QED BY <1>3, <1>5, <1>6

\* A write that succeeds writes each message its holder has, once;
LEMMA SucceedsEffect ==
  ASSUME SkyInv, NEW h \in Who, Sky!WriteSucceeds(sHold[h]),
         UNCHANGED <<sQueue, sDrained, sGot, sDropped>>
  PROVE  /\ sTopic' \in Seq(Messages) /\ sWrote' \in [Messages -> Nat] /\ SkyFlow'
         /\ sFaults' = sFaults
         /\ \A n \in Messages : sWrote'[n] = sWrote[n] + Sky!Times(n, sHold[h])
<1>1. Sky!Written(sHold[h]) /\ sFaults' = sFaults /\ sHold[h] \in Seq(Messages)
  BY DEF Sky!WriteSucceeds, SkyInv, SkyType
<1> QED BY <1>1, WrittenEffect

\* one that fails some of them, or none if there is no writer any more.
LEMMA FailsEffect ==
  ASSUME SkyInv, NEW h \in Who, Sky!WriteFails(sHold[h]),
         UNCHANGED <<sQueue, sDrained, sGot, sDropped, sWriter>>
  PROVE  /\ sTopic' \in Seq(Messages) /\ sWrote' \in [Messages -> Nat] /\ SkyFlow'
         /\ sFaults' \in Nat /\ sFaults <= sFaults' /\ (sFaults' > 0 \/ sWriter = "nil")
         /\ \A n \in Messages :
              /\ sWrote[n] <= sWrote'[n]
              /\ Sky!Times(n, sHold[h]) = 0 => sWrote'[n] = sWrote[n]
              /\ sWrote[n] <= sFaults => sWrote'[n] <= sFaults'
<1>1. sHold[h] \in Seq(Messages) /\ sFaults \in Nat /\ sWrote \in [Messages -> Nat]
  BY DEF SkyInv, SkyType
<1>2. CASE sWriter = "nil" /\ UNCHANGED <<sTopic, sWrote, sFaults>>
  <2>1. SkyFlow'
    BY <1>2, SkySame
  <2>2. sTopic' \in Seq(Messages)
    BY <1>2 DEF SkyInv, SkyType
  <2> QED BY <1>1, <1>2, <2>1, <2>2
<1>3. CASE /\ sFaults' = sFaults + 1
           /\ \E k \in 0..(Len(sHold[h]) - 1) : Sky!Written(SubSeq(sHold[h], 1, k))
  <2>1. PICK k \in 0..(Len(sHold[h]) - 1) : Sky!Written(SubSeq(sHold[h], 1, k))
    BY <1>3
  <2>2. k \in 0..Len(sHold[h])
    BY <1>1, <2>1
  <2>3. PICK s \in Seq(Messages) :
          /\ Sky!Written(s)
          /\ \A n \in Messages : Sky!Times(n, s) <= Sky!Times(n, sHold[h])
    <3>1. /\ SubSeq(sHold[h], 1, k) \in Seq(Messages)
          /\ SubSeq(sHold[h], k + 1, Len(sHold[h])) \in Seq(Messages)
          /\ \A n \in Messages : Sky!Times(n, sHold[h]) =
               Sky!Times(n, SubSeq(sHold[h], 1, k))
                 + Sky!Times(n, SubSeq(sHold[h], k + 1, Len(sHold[h])))
      BY <1>1, <2>2, TimesSplit
    <3>2. \A n \in Messages :
            /\ Sky!Times(n, SubSeq(sHold[h], 1, k)) \in Nat
            /\ Sky!Times(n, SubSeq(sHold[h], k + 1, Len(sHold[h]))) \in Nat
      BY <3>1, TimesFacts
    <3>3. \A n \in Messages : Sky!Times(n, SubSeq(sHold[h], 1, k)) <= Sky!Times(n, sHold[h])
      BY <3>1, <3>2
    <3> QED BY <2>1, <3>1, <3>3
  <2>4. /\ sTopic' \in Seq(Messages) /\ sWrote' \in [Messages -> Nat] /\ SkyFlow'
        /\ \A n \in Messages : sWrote'[n] = sWrote[n] + Sky!Times(n, s)
    BY <2>3, WrittenEffect
  <2>5. ASSUME NEW n \in Messages
        PROVE  /\ sWrote[n] <= sWrote'[n]
               /\ Sky!Times(n, sHold[h]) = 0 => sWrote'[n] = sWrote[n]
               /\ sWrote[n] <= sFaults => sWrote'[n] <= sFaults'
    <3>1. Sky!Times(n, s) \in Nat /\ Sky!Times(n, sHold[h]) \in Nat
      BY <1>1, TimesFacts
    <3>2. Sky!Times(n, sHold[h]) <= 1
      BY DEF SkyInv, SkyOnce
    <3>3. sWrote'[n] = sWrote[n] + Sky!Times(n, s) /\ Sky!Times(n, s) <= Sky!Times(n, sHold[h])
      BY <2>3, <2>4
    <3> QED BY <1>1, <1>3, <3>1, <3>2, <3>3
  <2> QED BY <1>1, <1>3, <2>4, <2>5
<1> QED BY <1>2, <1>3 DEF Sky!WriteFails

\* Payloads that were written, or given up with an error, are accounted for.
LEMMA SkyGone ==
  ASSUME SkyInv, NEW h \in Who, sHold' = [sHold EXCEPT ![h] = <<>>],
         \/ Sky!WriteSucceeds(sHold[h]) /\ sLost' = sLost
         \/ Sky!WriteFails(sHold[h]) /\ sLost' = sLost \cup Sky!Range(sHold[h]),
         UNCHANGED <<sModel, sBatch, sQueue, sDrained, sGot, sDropped, sWriter>>,
         \A n \in Messages : sSend'[n] = "new" => sSend[n] = "new",
         \A n \in Messages : sSend'[n] = "flush" => sSend[n] = "flush" /\ n # h,
         \A n \in Messages : Sky!Accepted(n)' => Sky!Accepted(n) \/ Sky!Times(n, sHold[h]) > 0
  PROVE  /\ sTopic' \in Seq(Messages) /\ sWrote' \in [Messages -> Nat] /\ sFaults' \in Nat
         /\ sFaults <= sFaults' /\ SkyOnce' /\ SkyWritten' /\ SkyFlow'
<1>1. SkyOnce' /\ \A n \in Messages : Waits(n)' <=> Waits(n) /\ Sky!Times(n, sHold[h]) = 0
  BY SkyEmptied
<1>2. /\ sHold \in [Who -> Seq(Messages)] /\ sHold[h] \in Seq(Messages)
      /\ sFaults \in Nat /\ sWrote \in [Messages -> Nat]
  BY DEF SkyInv, SkyType
<1>3. \A n \in Messages : /\ Sky!Times(n, sHold[h]) \in Nat
                          /\ Sky!Times(n, sHold[h]) = 0 <=> n \notin Sky!Range(sHold[h])
  BY <1>2, TimesFacts
<1>4. /\ sTopic' \in Seq(Messages) /\ sWrote' \in [Messages -> Nat] /\ SkyFlow'
      /\ sFaults' \in Nat /\ sFaults <= sFaults'
      /\ \A n \in Messages :
           /\ sWrote[n] <= sWrote'[n]
           /\ Sky!Times(n, sHold[h]) = 0 => sWrote'[n] = sWrote[n]
           /\ sWrote[n] <= sFaults => sWrote'[n] <= 1 + sFaults'
           /\ Sky!Times(n, sHold[h]) > 0 => sWrote'[n] > 0 \/ n \in sLost'
      /\ sLost \subseteq sLost'
  <2>1. CASE Sky!WriteSucceeds(sHold[h]) /\ sLost' = sLost
    <3>1. /\ sTopic' \in Seq(Messages) /\ sWrote' \in [Messages -> Nat] /\ SkyFlow'
          /\ sFaults' = sFaults
          /\ \A n \in Messages : sWrote'[n] = sWrote[n] + Sky!Times(n, sHold[h])
      BY <2>1, SucceedsEffect
    <3>2. \A n \in Messages : Sky!Times(n, sHold[h]) <= 1
      BY DEF SkyInv, SkyOnce
    <3> QED BY <1>2, <1>3, <2>1, <3>1, <3>2
  <2>2. CASE Sky!WriteFails(sHold[h]) /\ sLost' = sLost \cup Sky!Range(sHold[h])
    <3>1. /\ sTopic' \in Seq(Messages) /\ sWrote' \in [Messages -> Nat] /\ SkyFlow'
          /\ sFaults' \in Nat /\ sFaults <= sFaults'
          /\ \A n \in Messages :
               /\ sWrote[n] <= sWrote'[n]
               /\ Sky!Times(n, sHold[h]) = 0 => sWrote'[n] = sWrote[n]
               /\ sWrote[n] <= sFaults => sWrote'[n] <= sFaults'
      BY <2>2, FailsEffect
    <3>2. \A n \in Messages : Sky!Times(n, sHold[h]) > 0 => n \in sLost'
      BY <1>3, <2>2
    <3>3. \A n \in Messages : sWrote[n] <= sFaults => sWrote'[n] <= 1 + sFaults'
      BY <3>1
    <3> QED BY <2>2, <3>1, <3>2, <3>3
  <2> QED BY <2>1, <2>2
<1>5. SkyWritten'
  <2> SUFFICES ASSUME NEW n \in Messages
               PROVE  /\ sWrote'[n] <= 1 + sFaults'
                      /\ Waits(n)' => sWrote'[n] <= sFaults'
                      /\ sSend'[n] = "new" => sWrote'[n] = 0
                      /\ sSend'[n] = "flush" =>
                           Sky!Times(n, sHold'[n]) > 0 \/ (sModel' = "octet" /\ Size[n] = 0)
                      /\ Sky!Accepted(n)' => Waits(n)' \/ sWrote'[n] > 0 \/ n \in sLost'
    BY DEF SkyWritten
  <2>1. /\ sWrote[n] <= 1 + sFaults
        /\ Waits(n) => sWrote[n] <= sFaults
        /\ sSend[n] = "new" => sWrote[n] = 0
        /\ sSend[n] = "flush" =>
             Sky!Times(n, sHold[n]) > 0 \/ (sModel = "octet" /\ Size[n] = 0)
        /\ Sky!Accepted(n) => Waits(n) \/ sWrote[n] > 0 \/ n \in sLost
    BY DEF SkyInv, SkyWritten
  <2>2. Sky!Times(n, sHold[h]) > 0 => Waits(n)
    BY DEF Waits
  <2>3. sWrote[n] \in Nat /\ sWrote'[n] \in Nat
    BY <1>2, <1>4
  <2>4. sSend'[n] = "flush" => sHold'[n] = sHold[n]
    BY <1>2, Holding
  <2>5. sSend[n] = "new" => Sky!Times(n, sHold[h]) = 0
    BY DEF SkyInv, SkyOnce
  <2>6. sWrote'[n] <= 1 + sFaults' /\ (Waits(n)' => sWrote'[n] <= sFaults')
    BY <1>1, <1>2, <1>3, <1>4, <2>1, <2>2, <2>3
  <2>7. Sky!Accepted(n)' => Waits(n)' \/ sWrote'[n] > 0 \/ n \in sLost'
    BY <1>1, <1>3, <1>4, <2>1, <2>3
  <2> QED BY <1>4, <2>1, <2>4, <2>5, <2>6, <2>7
<1> QED BY <1>1, <1>4, <1>5

\* A Send writes what it took, and returns.
LEMMA SkyFlushes ==
  ASSUME SkyInv, NEW m \in Messages, Sky!SendFlush(m)
  PROVE  SkyInv'
<1>1. /\ sSend[m] = "flush" /\ sSend' = [sSend EXCEPT ![m] = "returned"]
      /\ \/ sResult' = [sResult EXCEPT ![m] = "ok"]
         \/ sResult' = [sResult EXCEPT ![m] = "error"]
      /\ sHold' = [sHold EXCEPT ![m] = <<>>]
      /\ UNCHANGED <<sModel, sBatch, sBatchBytes, sClosed, sFlushTimer, sTimer, sClosing,
                     sWriter, sQueue, sPumpError, sReader, sLoop, sDrained, sGot, sDropped>>
  BY DEF Sky!SendFlush, Sky!Return, Sky!batching, Sky!native, Sky!receiving
<1>2. /\ sHold \in [Who -> Seq(Messages)] /\ sHold[m] \in Seq(Messages) /\ m \in Who
      /\ sSend \in [Messages -> {"new", "flush", "returned"}]
      /\ sResult \in [Messages -> {None, "ok", "error"}]
      /\ sFaults \in Nat
  BY Holding DEF SkyInv, SkyType
<1>3. /\ \A n \in Messages : sSend'[n] = "new" => sSend[n] = "new"
      /\ \A n \in Messages : sSend'[n] = "flush" => sSend[n] = "flush" /\ n # m
  BY <1>1, <1>2
<1>4. \A n \in Messages : Sky!Times(n, <<>>) = 0
  BY TimesFacts
<1>5. \A n \in Messages : Sky!Times(n, sHold[n]) \in Nat
  BY <1>2, TimesFacts, Holding
<1>6. \A n \in Messages : Sky!Accepted(n)' => Sky!Accepted(n) \/ Sky!Times(n, sHold[m]) > 0
  <2> SUFFICES ASSUME NEW n \in Messages, Sky!Accepted(n)', ~Sky!Accepted(n)
               PROVE  Sky!Times(n, sHold[m]) > 0
    OBVIOUS
  <2>1. n = m
    BY <1>1, <1>2 DEF Sky!Accepted
  <2>2. sModel = "octet" => Size[m] > 0
    BY <1>1, <2>1 DEF Sky!Accepted
  <2>3. Size[m] \in Nat
    BY SkyAssumption
  <2> QED BY <1>1, <2>1, <2>2, <2>3 DEF SkyInv, SkyWritten
<1>7. CASE sHold[m] = <<>>
  <2>1. UNCHANGED <<sTopic, sWrote, sFaults, sLost>>
    BY <1>7 DEF Sky!SendFlush
  <2>2. sHold' = sHold
    BY <1>1, <1>2, <1>7
  <2>3. SkyOnce' /\ \A n \in Messages : Waits(n)' <=> Waits(n)
    <3>1. SkyOnce' /\ \A n \in Messages : Waits(n)' <=> Waits(n) /\ Sky!Times(n, sHold[m]) = 0
      BY <1>1, <1>2, <1>3, SkyEmptied
    <3> QED BY <1>4, <1>7, <3>1
  <2>4. SkyFlow' /\ SkyBatch'
    BY <1>1, <2>1, SkySame
  <2>5. SkyType'
    BY <1>1, <1>2, <2>1, <2>2 DEF SkyInv, SkyType
  <2>6. SkyHolds'
    BY <1>1, <1>3, <1>7, <2>2, <1>2 DEF SkyInv, SkyHolds
  <2>7. \A n \in Messages : Sky!Accepted(n)' => Sky!Accepted(n)
    <3>1. \A n \in Messages : ~(Sky!Times(n, sHold[m]) > 0)
      BY <1>4, <1>7
    <3> QED BY <1>6, <3>1
  <2>8. SkyWritten'
    BY <1>1, <1>3, <2>1, <2>2, <2>3, <2>7 DEF SkyInv, SkyWritten
  <2> QED BY <2>3, <2>4, <2>5, <2>6, <2>8 DEF SkyInv
<1>8. CASE sHold[m] # <<>>
  <2>1. \/ Sky!WriteSucceeds(sHold[m]) /\ sLost' = sLost
        \/ Sky!WriteFails(sHold[m]) /\ sLost' = sLost \cup Sky!Range(sHold[m])
    BY <1>8 DEF Sky!SendFlush
  <2>2. /\ sTopic' \in Seq(Messages) /\ sWrote' \in [Messages -> Nat] /\ sFaults' \in Nat
        /\ sFaults <= sFaults' /\ SkyOnce' /\ SkyWritten' /\ SkyFlow'
    BY <1>1, <1>2, <1>3, <1>6, <2>1, SkyGone
  <2>3. SkyType'
    <3>1. /\ sHold' \in [Who -> Seq(Messages)]
          /\ sSend' \in [Messages -> {"new", "flush", "returned"}]
          /\ sResult' \in [Messages -> {None, "ok", "error"}]
      BY <1>1, <1>2
    <3> QED BY <1>1, <2>2, <3>1 DEF SkyInv, SkyType
  <2>4. SkyHolds'
    BY <1>1, <1>2, <1>3, Holding DEF SkyInv, SkyHolds
  <2>5. SkyBatch'
    BY <1>1, <1>2, <2>2 DEF SkyInv, SkyBatch, Sky!TimerArmed
  <2> QED BY <2>2, <2>3, <2>4, <2>5 DEF SkyInv
<1> QED BY <1>7, <1>8

\* So does Close,
LEMMA SkyCloseFlushes ==
  ASSUME SkyInv, Sky!CloseFlush
  PROVE  SkyInv'
<1>1. /\ sClosing = "flush" /\ sClosing' \in {"writer", "failed"}
      /\ sHold' = [sHold EXCEPT ![Closer] = <<>>]
      /\ \/ Sky!WriteSucceeds(sHold[Closer]) /\ sLost' = sLost
         \/ Sky!WriteFails(sHold[Closer]) /\ sLost' = sLost \cup Sky!Range(sHold[Closer])
      /\ UNCHANGED <<sModel, sSend, sResult, sBatch, sBatchBytes, sClosed, sFlushTimer, sTimer,
                     sWriter, sQueue, sPumpError, sReader, sLoop, sDrained, sGot, sDropped>>
  BY DEF Sky!CloseFlush, Sky!sending, Sky!batching, Sky!native, Sky!receiving
<1>2. sHold \in [Who -> Seq(Messages)] /\ Closer \in Who \ Messages /\ sFaults \in Nat
  BY Holding DEF SkyInv, SkyType
<1>3. \A n \in Messages : Sky!Accepted(n)' => Sky!Accepted(n)
  BY <1>1 DEF Sky!Accepted
<1>4. /\ sTopic' \in Seq(Messages) /\ sWrote' \in [Messages -> Nat] /\ sFaults' \in Nat
      /\ sFaults <= sFaults' /\ SkyOnce' /\ SkyWritten' /\ SkyFlow'
  BY <1>1, <1>2, <1>3, SkyGone
<1>5. SkyType'
  BY <1>1, <1>2, <1>4 DEF SkyInv, SkyType
<1>6. SkyHolds'
  BY <1>1, <1>2, Holding DEF SkyInv, SkyHolds
<1>7. SkyBatch'
  BY <1>1, <1>2, <1>4 DEF SkyInv, SkyBatch, Sky!TimerArmed
<1> QED BY <1>4, <1>5, <1>6, <1>7 DEF SkyInv

\* and a timer, which keeps them after an error.
LEMMA SkyTimerFlushes ==
  ASSUME SkyInv, NEW t \in Timers, Sky!TimerFlushes(t)
  PROVE  SkyInv'
<1>1. /\ sTimer[t] = "flush"
      /\ UNCHANGED <<sModel, sSend, sResult, sBatch, sBatchBytes, sClosed, sFlushTimer,
                     sClosing, sWriter, sQueue, sPumpError, sReader, sLoop, sDrained, sLost,
                     sGot, sDropped>>
  BY DEF Sky!TimerFlushes, Sky!sending, Sky!native, Sky!receiving
<1>2. /\ sHold \in [Who -> Seq(Messages)] /\ t \in Who \ Messages /\ t # Closer
      /\ sFaults \in Nat /\ sFlushTimer \in Timers \cup {None}
      /\ sTimer \in [Timers -> {"idle", "armed", "fired", "flush", "failed"}]
      /\ sWrote \in [Messages -> Nat]
  BY Holding DEF SkyInv, SkyType
<1>3. \A n \in Messages : Sky!Accepted(n)' <=> Sky!Accepted(n)
  BY <1>1 DEF Sky!Accepted
<1>4. CASE /\ Sky!WriteSucceeds(sHold[t])
           /\ sTimer' = [sTimer EXCEPT ![t] = "idle"]
           /\ sHold' = [sHold EXCEPT ![t] = <<>>]
  <2>1. /\ sTopic' \in Seq(Messages) /\ sWrote' \in [Messages -> Nat] /\ sFaults' \in Nat
        /\ sFaults <= sFaults' /\ SkyOnce' /\ SkyWritten' /\ SkyFlow'
    BY <1>1, <1>2, <1>3, <1>4, SkyGone
  <2>2. SkyType'
    BY <1>1, <1>2, <1>4, <2>1 DEF SkyInv, SkyType
  <2>3. SkyHolds'
    BY <1>1, <1>2, <1>4, Holding DEF SkyInv, SkyHolds
  <2>4. SkyBatch'
    BY <1>1, <1>2, <1>4, <2>1 DEF SkyInv, SkyBatch, Sky!TimerArmed
  <2> QED BY <2>1, <2>2, <2>3, <2>4 DEF SkyInv
<1>5. CASE /\ Sky!WriteFails(sHold[t])
           /\ sTimer' = [sTimer EXCEPT ![t] = "failed"]
           /\ UNCHANGED sHold
  <2>1. /\ sTopic' \in Seq(Messages) /\ sWrote' \in [Messages -> Nat] /\ SkyFlow'
        /\ sFaults' \in Nat /\ sFaults <= sFaults' /\ (sFaults' > 0 \/ sWriter = "nil")
        /\ \A n \in Messages :
             /\ sWrote[n] <= sWrote'[n]
             /\ Sky!Times(n, sHold[t]) = 0 => sWrote'[n] = sWrote[n]
             /\ sWrote[n] <= sFaults => sWrote'[n] <= sFaults'
    BY <1>1, <1>2, <1>5, FailsEffect
  <2>2. SkyType'
    BY <1>1, <1>2, <1>5, <2>1 DEF SkyInv, SkyType
  <2>3. SkyHolds'
    BY <1>1, <1>2, <1>5 DEF SkyInv, SkyHolds
  <2>4. SkyBatch'
    BY <1>1, <1>2, <1>5, <2>1 DEF SkyInv, SkyBatch, Sky!TimerArmed
  <2>5. SkyOnce'
    BY <1>1, <1>5, SkySame
  <2>6. SkyWritten'
    <3> SUFFICES ASSUME NEW n \in Messages
                 PROVE  /\ sWrote'[n] <= 1 + sFaults'
                        /\ Waits(n)' => sWrote'[n] <= sFaults'
                        /\ sSend'[n] = "new" => sWrote'[n] = 0
                        /\ sSend'[n] = "flush" =>
                             Sky!Times(n, sHold'[n]) > 0 \/ (sModel' = "octet" /\ Size[n] = 0)
                        /\ Sky!Accepted(n)' => Waits(n)' \/ sWrote'[n] > 0 \/ n \in sLost'
      BY DEF SkyWritten
    <3>1. /\ sWrote[n] <= 1 + sFaults
          /\ Waits(n) => sWrote[n] <= sFaults
          /\ sSend[n] = "new" => sWrote[n] = 0
          /\ sSend[n] = "flush" =>
               Sky!Times(n, sHold[n]) > 0 \/ (sModel = "octet" /\ Size[n] = 0)
          /\ Sky!Accepted(n) => Waits(n) \/ sWrote[n] > 0 \/ n \in sLost
      BY DEF SkyInv, SkyWritten
    <3>2. Waits(n)' <=> Waits(n)
      BY <1>1, <1>5 DEF Waits
    <3>3. sWrote[n] \in Nat /\ sWrote'[n] \in Nat /\ Sky!Times(n, sHold[t]) \in Nat
      BY <1>2, <2>1, TimesFacts
    <3>4. Sky!Times(n, sHold[t]) > 0 => Waits(n)
      BY <1>2 DEF Waits
    <3>5. sSend[n] = "new" => Sky!Times(n, sHold[t]) = 0
      BY <1>2 DEF SkyInv, SkyOnce
    <3>6. sWrote'[n] <= 1 + sFaults' /\ (Waits(n)' => sWrote'[n] <= sFaults')
      BY <1>2, <2>1, <3>1, <3>2, <3>3, <3>4
    <3> QED BY <1>1, <1>3, <1>5, <2>1, <3>1, <3>2, <3>3, <3>5, <3>6
  <2> QED BY <2>1, <2>2, <2>3, <2>4, <2>5, <2>6 DEF SkyInv
<1> QED BY <1>4, <1>5 DEF Sky!TimerFlushes

\* A timer that is due, and Close at its end.
LEMMA SkyRests ==
  ASSUME SkyInv, \/ \E t \in Timers : Sky!TimerFires(t)
                 \/ Sky!CloseWriter
  PROVE  SkyInv'
<1>1. CASE \E t \in Timers : Sky!TimerFires(t)
  <2>1. PICK t \in Timers : Sky!TimerFires(t)
    BY <1>1
  <2>2. /\ sTimer[t] = "armed" /\ sTimer' = [sTimer EXCEPT ![t] = "fired"]
        /\ UNCHANGED <<sModel, sSend, sResult, sBatch, sBatchBytes, sClosed, sFlushTimer, sHold,
                       sClosing, sWriter, sTopic, sQueue, sPumpError, sReader, sLoop, sDrained,
                       sFaults, sLost, sWrote, sGot, sDropped>>
    BY <2>1 DEF Sky!TimerFires, Sky!sending, Sky!native, Sky!receiving
  <2>3. SkyOnce' /\ SkyWritten' /\ SkyFlow'
    BY <2>2, SkySame
  <2>4. SkyType'
    BY <2>2 DEF SkyInv, SkyType
  <2>5. SkyHolds'
    BY <2>2 DEF SkyInv, SkyType, SkyHolds
  <2>6. SkyBatch'
    BY <2>2 DEF SkyInv, SkyType, SkyBatch, Sky!TimerArmed
  <2> QED BY <2>3, <2>4, <2>5, <2>6 DEF SkyInv
<1>2. CASE Sky!CloseWriter
  <2>1. /\ sClosing = "writer" /\ sClosing' = "returned" /\ sWriter' = "nil"
        /\ UNCHANGED <<sModel, sSend, sResult, sBatch, sBatchBytes, sClosed, sFlushTimer, sTimer,
                       sHold, sTopic, sQueue, sPumpError, sReader, sLoop, sDrained, sFaults,
                       sLost, sWrote, sGot, sDropped>>
    BY <1>2 DEF Sky!CloseWriter, Sky!sending, Sky!batching, Sky!native, Sky!receiving
  <2>2. SkyOnce' /\ SkyWritten' /\ SkyFlow'
    BY <2>1, SkySame
  <2>3. SkyType' /\ SkyHolds'
    BY <2>1 DEF SkyInv, SkyType, SkyHolds
  <2>4. SkyBatch'
    BY <2>1 DEF SkyInv, SkyBatch, Sky!TimerArmed
  <2> QED BY <2>2, <2>3, <2>4 DEF SkyInv
<1> QED BY <1>1, <1>2

\* The receiver moves what was written from DDS to its queue, to Start and on.
LEMMA SkyReceives ==
  ASSUME SkyInv, Sky!Pump \/ Sky!Begin \/ Sky!Wait \/ Sky!Drain \/ Sky!Emit \/ Sky!Stop
  PROVE  SkyInv'
<1>1. UNCHANGED <<sModel, sSend, sResult, sBatch, sBatchBytes, sClosed, sFlushTimer, sTimer,
                  sHold, sClosing, sWriter, sFaults, sLost, sWrote>>
  BY DEF Sky!Pump, Sky!Begin, Sky!Wait, Sky!Drain, Sky!Emit, Sky!Stop, Sky!sending,
         Sky!batching
<1>2. SkyBatch' /\ SkyOnce' /\ SkyWritten'
  BY <1>1, SkySame
<1>3. /\ sTopic \in Seq(Messages) /\ sQueue \in Seq(Messages) /\ sDrained \in Seq(Messages)
      /\ sWrote \in [Messages -> Nat] /\ sGot \in [Messages -> Nat]
      /\ sDropped \in [Messages -> Nat] /\ << >> \in Seq(Messages)
      /\ sLoop # "emit" => sDrained = <<>>
      /\ sLoop = "emit" => sDrained # <<>>
  BY DEF SkyInv, SkyType, SkyHolds
<1>4. \A n \in Messages :
        /\ Sky!Times(n, sTopic) \in Nat /\ Sky!Times(n, sQueue) \in Nat
        /\ Sky!Times(n, sDrained) \in Nat /\ Sky!Times(n, <<>>) = 0
        /\ sWrote[n] = sGot[n] + sDropped[n] + Sky!Times(n, sTopic) + Sky!Times(n, sQueue)
                         + Sky!Times(n, sDrained)
  BY <1>3, TimesFacts DEF SkyInv, SkyFlow
<1>5. SUFFICES /\ sTopic' \in Seq(Messages) /\ sQueue' \in Seq(Messages)
               /\ sDrained' \in Seq(Messages) /\ sGot' \in [Messages -> Nat]
               /\ sDropped' \in [Messages -> Nat]
               /\ sLoop' # "emit" => sDrained' = <<>>
               /\ sLoop' = "emit" => sDrained' # <<>>
               /\ \A n \in Messages :
                    sWrote[n] = sGot'[n] + sDropped'[n] + Sky!Times(n, sTopic')
                                  + Sky!Times(n, sQueue') + Sky!Times(n, sDrained')
  <2>1. SkyType'
    BY <1>1, <1>5 DEF SkyInv, SkyType
  <2>2. SkyHolds'
    BY <1>1, <1>5 DEF SkyInv, SkyHolds
  <2>3. SkyFlow'
    BY <1>1, <1>5 DEF SkyFlow
  <2> QED BY <1>2, <2>1, <2>2, <2>3 DEF SkyInv
<1>6. CASE Sky!Pump
  <2>1. /\ sTopic # <<>> /\ sTopic' = Tail(sTopic)
        /\ \/ sQueue' = Append(sQueue, Head(sTopic)) /\ sDropped' = sDropped
           \/ sQueue' = sQueue /\ sDropped' = [sDropped EXCEPT ![Head(sTopic)] = @ + 1]
        /\ UNCHANGED <<sLoop, sDrained, sGot>>
    BY <1>6 DEF Sky!Pump, Sky!receiving
  <2>2. PICK x \in Messages : x = Head(sTopic)
    BY <1>3, <2>1, TimesSplit
  <2>3. /\ sTopic' \in Seq(Messages)
        /\ \A n \in Messages : /\ Sky!Times(n, sTopic') \in Nat
                               /\ Sky!Times(n, sTopic) = (IF n = x THEN 1 ELSE 0) + Sky!Times(n, sTopic')
    BY <1>3, <2>1, <2>2, TimesSplit, TimesFacts
  <2>4. CASE sQueue' = Append(sQueue, x) /\ sDropped' = sDropped
    <3>1. \A n \in Messages :
            Sky!Times(n, sQueue') = Sky!Times(n, sQueue) + (IF n = x THEN 1 ELSE 0)
      BY <1>3, <2>4, TimesFacts
    <3>2. sQueue' \in Seq(Messages)
      BY <1>3, <2>4
    <3>3. ASSUME NEW n \in Messages
          PROVE  sWrote[n] = sGot'[n] + sDropped'[n] + Sky!Times(n, sTopic')
                               + Sky!Times(n, sQueue') + Sky!Times(n, sDrained')
      <4>1. PICK e \in {0, 1} : e = IF n = x THEN 1 ELSE 0
        OBVIOUS
      <4>2. /\ sWrote[n] = sGot[n] + sDropped[n] + Sky!Times(n, sTopic) + Sky!Times(n, sQueue)
                           + Sky!Times(n, sDrained)
            /\ sGot[n] \in Nat /\ sDropped[n] \in Nat /\ Sky!Times(n, sTopic) \in Nat
            /\ Sky!Times(n, sQueue) \in Nat /\ Sky!Times(n, sDrained) \in Nat
        BY <1>3, <1>4
      <4>3. /\ sGot'[n] = sGot[n] /\ sDropped'[n] = sDropped[n] /\ sDrained' = sDrained
            /\ Sky!Times(n, sTopic') \in Nat
            /\ Sky!Times(n, sTopic) = e + Sky!Times(n, sTopic')
            /\ Sky!Times(n, sQueue') = Sky!Times(n, sQueue) + e
        BY <2>1, <2>3, <2>4, <3>1, <4>1
      <4> QED BY <4>2, <4>3
    <3> QED BY <1>3, <2>1, <2>3, <2>4, <3>2, <3>3
  <2>5. CASE sQueue' = sQueue /\ sDropped' = [sDropped EXCEPT ![x] = @ + 1]
    <3>1. \A n \in Messages : sDropped'[n] = IF n = x THEN sDropped[n] + 1 ELSE sDropped[n]
      BY <1>3, <2>5
    <3>2. sDropped' \in [Messages -> Nat]
      BY <1>3, <2>5, SMTT(30)
    <3>3. ASSUME NEW n \in Messages
          PROVE  sWrote[n] = sGot'[n] + sDropped'[n] + Sky!Times(n, sTopic')
                               + Sky!Times(n, sQueue') + Sky!Times(n, sDrained')
      <4>1. PICK e \in {0, 1} : e = IF n = x THEN 1 ELSE 0
        OBVIOUS
      <4>2. /\ sWrote[n] = sGot[n] + sDropped[n] + Sky!Times(n, sTopic) + Sky!Times(n, sQueue)
                           + Sky!Times(n, sDrained)
            /\ sGot[n] \in Nat /\ sDropped[n] \in Nat /\ Sky!Times(n, sTopic) \in Nat
            /\ Sky!Times(n, sQueue) \in Nat /\ Sky!Times(n, sDrained) \in Nat
        BY <1>3, <1>4
      <4>3. /\ sGot'[n] = sGot[n] /\ sDropped'[n] = sDropped[n] + e /\ sDrained' = sDrained
            /\ Sky!Times(n, sTopic') \in Nat /\ sQueue' = sQueue
            /\ Sky!Times(n, sTopic) = e + Sky!Times(n, sTopic')
        BY <2>1, <2>3, <2>5, <3>1, <4>1, <4>2
      <4> QED BY <4>2, <4>3
    <3> QED BY <1>3, <2>1, <2>3, <2>5, <3>2, <3>3
  <2> QED BY <2>1, <2>2, <2>4, <2>5
<1>7. CASE Sky!Begin \/ Sky!Wait
  <2>1. /\ sLoop # "emit" /\ sLoop' # "emit"
        /\ UNCHANGED <<sTopic, sQueue, sDrained, sGot, sDropped>>
    BY <1>7 DEF Sky!Begin, Sky!Wait, Sky!Goes, Sky!native
  <2> QED BY <1>3, <1>4, <2>1
<1>8. CASE Sky!Drain
  <2>1. /\ sLoop = "drain" /\ UNCHANGED <<sTopic, sGot, sDropped>>
        /\ \/ sLoop' # "emit" /\ UNCHANGED <<sDrained, sQueue>>
           \/ /\ Sky!Fit > 0 /\ sLoop' = "emit"
              /\ sDrained' = SubSeq(sQueue, 1, Sky!Fit)
              /\ sQueue' = SubSeq(sQueue, Sky!Fit + 1, Len(sQueue))
    BY <1>8 DEF Sky!Drain, Sky!Goes
  <2>2. CASE sLoop' # "emit" /\ UNCHANGED <<sDrained, sQueue>>
    BY <1>3, <1>4, <2>1, <2>2
  <2>3. CASE /\ Sky!Fit > 0 /\ sLoop' = "emit"
             /\ sDrained' = SubSeq(sQueue, 1, Sky!Fit)
             /\ sQueue' = SubSeq(sQueue, Sky!Fit + 1, Len(sQueue))
    <3>1. PICK k \in 0..Len(sQueue) : k = Sky!Fit
      BY <1>3, FitIs
    <3>2. /\ sDrained' \in Seq(Messages) /\ sQueue' \in Seq(Messages) /\ Len(sDrained') = k
          /\ \A n \in Messages :
               Sky!Times(n, sQueue) = Sky!Times(n, sDrained') + Sky!Times(n, sQueue')
      BY <1>3, <2>3, <3>1, TimesSplit
    <3>3. \A n \in Messages : Sky!Times(n, sDrained') \in Nat /\ Sky!Times(n, sQueue') \in Nat
      BY <3>2, TimesFacts
    <3>4. sDrained' # <<>>
      BY <2>3, <3>1, <3>2
    <3>5. \A n \in Messages : Sky!Times(n, sDrained) = 0
      BY <1>3, <1>4, <2>1
    <3>6. ASSUME NEW n \in Messages
          PROVE  sWrote[n] = sGot'[n] + sDropped'[n] + Sky!Times(n, sTopic')
                               + Sky!Times(n, sQueue') + Sky!Times(n, sDrained')
      <4>2. /\ sWrote[n] = sGot[n] + sDropped[n] + Sky!Times(n, sTopic) + Sky!Times(n, sQueue)
                           + Sky!Times(n, sDrained)
            /\ sGot[n] \in Nat /\ sDropped[n] \in Nat /\ Sky!Times(n, sTopic) \in Nat
            /\ Sky!Times(n, sQueue) \in Nat /\ Sky!Times(n, sDrained) \in Nat
        BY <1>3, <1>4
      <4>3. /\ sGot' = sGot /\ sDropped' = sDropped /\ sTopic' = sTopic
            /\ Sky!Times(n, sDrained) = 0
            /\ Sky!Times(n, sDrained') \in Nat /\ Sky!Times(n, sQueue') \in Nat
            /\ Sky!Times(n, sQueue) = Sky!Times(n, sDrained') + Sky!Times(n, sQueue')
        BY <2>1, <3>2, <3>3, <3>5
      <4> QED BY <4>2, <4>3
    <3> QED BY <1>3, <2>1, <2>3, <3>2, <3>4, <3>6
  <2> QED BY <2>1, <2>2, <2>3
<1>9. CASE Sky!Emit
  <2>1. /\ sLoop = "emit" /\ sDrained' = Tail(sDrained)
        /\ \/ sGot' = [sGot EXCEPT ![Head(sDrained)] = @ + 1] /\ sDropped' = sDropped
           \/ sDropped' = [sDropped EXCEPT ![Head(sDrained)] = @ + 1] /\ sGot' = sGot
        /\ sLoop' = IF Len(sDrained) = 1 THEN "drain" ELSE "emit"
        /\ UNCHANGED <<sTopic, sQueue>>
    BY <1>9 DEF Sky!Emit, Sky!native
  <2>2. PICK x \in Messages : x = Head(sDrained)
    BY <1>3, <2>1, TimesSplit
  <2>3. /\ sDrained' \in Seq(Messages)
        /\ \A n \in Messages :
             /\ Sky!Times(n, sDrained') \in Nat
             /\ Sky!Times(n, sDrained) = (IF n = x THEN 1 ELSE 0) + Sky!Times(n, sDrained')
    BY <1>3, <2>1, <2>2, TimesSplit, TimesFacts
  <2>4. /\ sLoop' # "emit" => sDrained' = <<>>
        /\ sLoop' = "emit" => sDrained' # <<>>
    <3>1. Len(sDrained) \in Nat /\ Len(sDrained') = Len(sDrained) - 1
      BY <1>3, <2>1, HeadTailProperties
    <3>2. sDrained' = <<>> <=> Len(sDrained') = 0
      BY <2>3
    <3>3. sDrained' = <<>> <=> Len(sDrained) = 1
      BY <3>1, <3>2
    <3> QED BY <2>1, <3>3
  <2>5. \/ sGot' = [sGot EXCEPT ![x] = @ + 1] /\ sDropped' = sDropped
        \/ sDropped' = [sDropped EXCEPT ![x] = @ + 1] /\ sGot' = sGot
    BY <2>1, <2>2
  <2>6. /\ sGot' \in [Messages -> Nat] /\ sDropped' \in [Messages -> Nat]
        /\ \A n \in Messages :
             \/ /\ sGot'[n] = IF n = x THEN sGot[n] + 1 ELSE sGot[n]
                /\ sDropped'[n] = sDropped[n]
             \/ /\ sDropped'[n] = IF n = x THEN sDropped[n] + 1 ELSE sDropped[n]
                /\ sGot'[n] = sGot[n]
    <3>1. CASE sGot' = [sGot EXCEPT ![x] = @ + 1] /\ sDropped' = sDropped
      BY <1>3, <3>1
    <3>2. CASE sDropped' = [sDropped EXCEPT ![x] = @ + 1] /\ sGot' = sGot
      BY <1>3, <3>2, SMTT(30)
    <3> QED BY <2>5, <3>1, <3>2
  <2>7. ASSUME NEW n \in Messages
        PROVE  sWrote[n] = sGot'[n] + sDropped'[n] + Sky!Times(n, sTopic')
                             + Sky!Times(n, sQueue') + Sky!Times(n, sDrained')
    <3>1. PICK e \in {0, 1} : e = IF n = x THEN 1 ELSE 0
      OBVIOUS
    <3>2. /\ sWrote[n] = sGot[n] + sDropped[n] + Sky!Times(n, sTopic) + Sky!Times(n, sQueue)
                           + Sky!Times(n, sDrained)
          /\ sGot[n] \in Nat /\ sDropped[n] \in Nat /\ Sky!Times(n, sTopic) \in Nat
          /\ Sky!Times(n, sQueue) \in Nat /\ Sky!Times(n, sDrained) \in Nat
      BY <1>3, <1>4
    <3>3. /\ sTopic' = sTopic /\ sQueue' = sQueue
          /\ Sky!Times(n, sDrained') \in Nat
          /\ Sky!Times(n, sDrained) = e + Sky!Times(n, sDrained')
      BY <2>1, <2>3, <3>1
    <3>4. \/ sGot'[n] = sGot[n] + e /\ sDropped'[n] = sDropped[n]
          \/ sDropped'[n] = sDropped[n] + e /\ sGot'[n] = sGot[n]
      BY <2>6, <3>1, <3>2
    <3> QED BY <3>2, <3>3, <3>4
  <2> QED BY <1>3, <2>1, <2>3, <2>4, <2>6, <2>7
<1>10. CASE Sky!Stop
  <2>1. /\ sQueue' = <<>>
        /\ sDropped' = [m \in Messages |-> sDropped[m] + Sky!Times(m, sQueue)]
        /\ UNCHANGED <<sTopic, sLoop, sDrained, sGot>>
    BY <1>10 DEF Sky!Stop, Sky!receiving
  <2>2. \A n \in Messages : sDropped'[n] = sDropped[n] + Sky!Times(n, sQueue)
    BY <2>1
  <2>3. ASSUME NEW n \in Messages PROVE sDropped[n] + Sky!Times(n, sQueue) \in Nat
    <3>1. sDropped[n] \in Nat /\ Sky!Times(n, sQueue) \in Nat
      BY <1>3, <1>4
    <3> QED BY <3>1
  <2>4. sDropped' \in [Messages -> Nat]
    BY <2>1, <2>3
  <2>5. ASSUME NEW n \in Messages
        PROVE  sWrote[n] = sGot'[n] + sDropped'[n] + Sky!Times(n, sTopic')
                             + Sky!Times(n, sQueue') + Sky!Times(n, sDrained')
    <3>1. /\ sWrote[n] = sGot[n] + sDropped[n] + Sky!Times(n, sTopic) + Sky!Times(n, sQueue)
                           + Sky!Times(n, sDrained)
          /\ sGot[n] \in Nat /\ sDropped[n] \in Nat /\ Sky!Times(n, sTopic) \in Nat
          /\ Sky!Times(n, sQueue) \in Nat /\ Sky!Times(n, sDrained) \in Nat
      BY <1>3, <1>4
    <3>2. /\ sGot' = sGot /\ sTopic' = sTopic /\ sDrained' = sDrained
          /\ sDropped'[n] = sDropped[n] + Sky!Times(n, sQueue) /\ Sky!Times(n, sQueue') = 0
      BY <1>4, <2>1, <2>2
    <3> QED BY <3>1, <3>2
  <2> QED BY <1>3, <2>1, <2>4, <2>5
<1> QED BY <1>6, <1>7, <1>8, <1>9, <1>10

\* SkyInv is inductive.
LEMMA SkyStep == SkyInv /\ [Sky!Next]_skyVars => SkyInv'
<1> SUFFICES ASSUME SkyInv, [Sky!Next]_skyVars PROVE SkyInv'
  OBVIOUS
<1>1. CASE UNCHANGED skyVars
  <2>1. SkyHolds' /\ SkyBatch' /\ SkyOnce' /\ SkyWritten' /\ SkyFlow'
    BY <1>1, SkySame DEF skyVars
  <2>2. SkyType'
    BY <1>1 DEF skyVars, SkyInv, SkyType
  <2> QED BY <2>1, <2>2 DEF SkyInv
<1>2. ASSUME NEW m \in Messages, Sky!SendBegin(m) \/ Sky!SendFlush(m) PROVE SkyInv'
  BY <1>2, SkySends, SkyFlushes
<1>3. ASSUME NEW t \in Timers, Sky!TimerStep(t) PROVE SkyInv'
  BY <1>3, SkyRests, SkyTakes, SkyTimerFlushes, SkyRestores DEF Sky!TimerStep
<1>4. CASE Sky!CloseBegin \/ Sky!CloseStep
  BY <1>4, SkyCloses, SkyCloseFlushes, SkyRests DEF Sky!CloseStep
<1>5. CASE Sky!Pump \/ Sky!Begin \/ Sky!ReceiverStep \/ Sky!Stop
  BY <1>5, SkyReceives DEF Sky!ReceiverStep
<1> QED BY <1>1, <1>2, <1>3, <1>4, <1>5 DEF Sky!Next

\* The invariant holds of every SkyDDS topic.
LEMMA SkyCorrect == EndpointSpec => []SkyInv
<1>1. Build => SkyInv
  BY SkyInit DEF Build
<1>2. SkyInv /\ [EndpointNext]_allVars => SkyInv'
  <2>1. [EndpointNext]_allVars => [Sky!Next]_skyVars
    BY SkyMoves DEF allVars
  <2> QED BY <2>1, SkyStep
<1> QED BY <1>1, <1>2, PTL DEF EndpointSpec

\* LinkAccounted, for any payloads, batches, timers and faults: no message a Send accepted
\* is lost or doubled without a fault that a caller was told of, from the batch to the
\* emitted packet, and a waiting batch has a timer that will flush it (skydds.go:82-180).
THEOREM LinkIsAccounted == EndpointSpec => []LinkAccounted
<1>1. SkyInv => LinkAccounted
  <2> SUFFICES ASSUME SkyInv PROVE Sky!LinkAccounted
    BY DEF LinkAccounted
  <2>1. /\ Sky!TimerArmed /\ sBatchBytes = Sky!Bytes(sBatch)
        /\ sClosed /\ sBatch # <<>> => sFaults > 0 \/ sWriter = "nil"
    BY DEF SkyInv, SkyBatch
  <2>2. ASSUME NEW m \in Messages
        PROVE  /\ Sky!Times(m, sBatch) + Sky!Cardinality(Sky!Holders(m)) <= 1
               /\ \A h \in Sky!Holders(m) : Sky!Times(m, sHold[h]) = 1
               /\ Sky!Accepted(m) => \/ m \in Sky!Range(sBatch) \/ Sky!Holders(m) # {}
                                     \/ sWrote[m] > 0 \/ m \in sLost
               /\ sWrote[m] <= 1 + sFaults
               /\ sWrote[m] = sGot[m] + sDropped[m] + Sky!Times(m, sTopic \o sQueue \o sDrained)
    <3>1. /\ sBatch \in Seq(Messages) /\ sHold \in [Who -> Seq(Messages)]
          /\ sTopic \in Seq(Messages) /\ sQueue \in Seq(Messages) /\ sDrained \in Seq(Messages)
          /\ sWrote[m] \in Nat /\ sGot[m] \in Nat /\ sDropped[m] \in Nat
      BY DEF SkyInv, SkyType
    <3>2. /\ Sky!Times(m, sBatch) \in Nat /\ (Sky!Times(m, sBatch) = 0 <=> m \notin Sky!Range(sBatch))
          /\ \A h \in Who : /\ Sky!Times(m, sHold[h]) \in Nat
                            /\ Sky!Times(m, sHold[h]) = 0 <=> m \notin Sky!Range(sHold[h])
      BY <3>1, TimesFacts
    <3>3. Sky!Holders(m) = {h \in Who : Sky!Times(m, sHold[h]) # 0}
      BY <3>1, <3>2 DEF Sky!Holders
    <3>4. /\ Sky!Times(m, sBatch) <= 1
          /\ \A h \in Who : Sky!Times(m, sHold[h]) <= 1
          /\ \A h \in Who : Sky!Times(m, sBatch) = 0 \/ Sky!Times(m, sHold[h]) = 0
          /\ \A h, g \in Who :
               h = g \/ Sky!Times(m, sHold[h]) = 0 \/ Sky!Times(m, sHold[g]) = 0
      BY DEF SkyInv, SkyOnce
    <3>5. Sky!Times(m, sBatch) + Sky!Cardinality(Sky!Holders(m)) <= 1
      <4>1. CASE Sky!Holders(m) = {}
        <5>1. Sky!Cardinality(Sky!Holders(m)) = 0
          BY <4>1, SkyCardinality, FS_EmptySet
        <5> QED BY <3>2, <3>4, <5>1
      <4>2. CASE Sky!Holders(m) # {}
        <5>1. PICK h \in Who : h \in Sky!Holders(m)
          BY <3>3, <4>2
        <5>2. Sky!Holders(m) = {h}
          BY <3>3, <3>4, <5>1
        <5>3. Sky!Cardinality(Sky!Holders(m)) = 1
          BY <5>2, SkyCardinality, FS_Singleton
        <5>4. Sky!Times(m, sBatch) = 0
          BY <3>3, <3>4, <5>1
        <5> QED BY <5>3, <5>4
      <4> QED BY <4>1, <4>2
    <3>6. \A h \in Sky!Holders(m) : Sky!Times(m, sHold[h]) = 1
      BY <3>2, <3>3, <3>4
    <3>7. /\ sWrote[m] <= 1 + sFaults
          /\ Sky!Accepted(m) => Waits(m) \/ sWrote[m] > 0 \/ m \in sLost
      BY DEF SkyInv, SkyWritten
    <3>8. Waits(m) => m \in Sky!Range(sBatch) \/ Sky!Holders(m) # {}
      BY <3>2, <3>3 DEF Waits
    <3>9. sWrote[m] = sGot[m] + sDropped[m] + Sky!Times(m, sTopic \o sQueue \o sDrained)
      <4>1. sTopic \o sQueue \in Seq(Messages)
        BY <3>1, ConcatProperties
      <4>2. /\ Sky!Times(m, sTopic \o sQueue) = Sky!Times(m, sTopic) + Sky!Times(m, sQueue)
            /\ Sky!Times(m, (sTopic \o sQueue) \o sDrained) =
                 Sky!Times(m, sTopic \o sQueue) + Sky!Times(m, sDrained)
            /\ Sky!Times(m, sTopic) \in Nat /\ Sky!Times(m, sQueue) \in Nat
            /\ Sky!Times(m, sDrained) \in Nat
        <5>1. Sky!Times(m, sTopic \o sQueue) = Sky!Times(m, sTopic) + Sky!Times(m, sQueue)
          BY <3>1, TimesConcat, Zenon
        <5>2. Sky!Times(m, (sTopic \o sQueue) \o sDrained) =
                Sky!Times(m, sTopic \o sQueue) + Sky!Times(m, sDrained)
          BY <3>1, <4>1, TimesConcat, Zenon
        <5>3. /\ Sky!Times(m, sTopic) \in Nat /\ Sky!Times(m, sQueue) \in Nat
              /\ Sky!Times(m, sDrained) \in Nat
          BY <3>1, TimesType, Zenon
        <5> QED BY <5>1, <5>2, <5>3, Zenon
      <4>3. sWrote[m] = sGot[m] + sDropped[m] + Sky!Times(m, sTopic) + Sky!Times(m, sQueue)
                          + Sky!Times(m, sDrained)
        BY DEF SkyInv, SkyFlow
      <4>4. PICK a, b, c, some, all \in Nat :
              /\ a = Sky!Times(m, sTopic) /\ b = Sky!Times(m, sQueue)
              /\ c = Sky!Times(m, sDrained) /\ some = Sky!Times(m, sTopic \o sQueue)
              /\ all = Sky!Times(m, (sTopic \o sQueue) \o sDrained)
        <5>1. (sTopic \o sQueue) \o sDrained \in Seq(Messages)
          BY <3>1, <4>1, ConcatProperties
        <5> QED BY <4>1, <4>2, <5>1, TimesType
      <4>5. some = a + b /\ all = some + c
        BY <4>2, <4>4
      <4>6. sWrote[m] = sGot[m] + sDropped[m] + a + b + c
        BY <4>3, <4>4
      <4>7. PICK g, d \in Nat : g = sGot[m] /\ d = sDropped[m]
        BY <3>1
      <4>8. g + d + a + b + c = g + d + all
        BY <4>5
      <4> QED BY <4>4, <4>6, <4>7, <4>8
    <3> QED BY <3>5, <3>6, <3>7, <3>8, <3>9
  <2> QED BY <2>1, <2>2 DEF Sky!LinkAccounted
<1> QED BY <1>1, SkyCorrect, PTL

=============================================================================
