----------------------------- MODULE UdpSockets -----------------------------
(***************************************************************************)
(* The UDP senders (src/sender/udp_unicast.go, udp_multicast.go): a socket *)
(* per shard, opened by the constructor, loaded without a lock by Send,    *)
(* opened again under the shard's lock by a Send that finds none, and      *)
(* closed shard by shard by Close.                                         *)
(*                                                                         *)
(* One packet stands for one call of Send, each by a goroutine of its own. *)
(* A section under a shard's lock is one step. Sockets are external: to    *)
(* open one or to set its multicast interface may fail, and a write fails  *)
(* on one that was closed.                                                 *)
(*                                                                         *)
(* "Mistake:" marks a definition that is not part of the model but the one *)
(* after it with a programming error a property has to detect.             *)
(***************************************************************************)
EXTENDS Integers, Functions

CONSTANTS
  Packets,
  Concurrency,  \* sockets, a power of two (config.validate)
  NumSockets,   \* bound on the sockets ever opened
  None

Shards == 0..(Concurrency - 1)
Sockets == 1..NumSockets

VARIABLES
  build,        \* whether the constructor has returned
  at,           \* the shard the constructor or Close is at
  conns,        \* the socket of each shard
  fresh,        \* the next socket to be opened
  open,         \* sockets that are open
  nextIdx,
  send, result, \* where each Send is, and what it returned
  shard, conn,  \* the shard it chose and the socket it loaded
  closing,      \* where Close is
  overlap       \* history: a Send ran during or after Close

sockets == <<conns, fresh, open>>
sending == <<nextIdx, send, result, shard, conn>>
vars == <<build, at, sockets, sending, closing, overlap>>

Init ==
  /\ build = "begun" /\ at = 0
  /\ conns = [i \in Shards |-> None] /\ fresh = 1 /\ open = {}
  /\ nextIdx = 0
  /\ send = [p \in Packets |-> "new"] /\ result = [p \in Packets |-> None]
  /\ shard = [p \in Packets |-> None] /\ conn = [p \in Packets |-> None]
  /\ closing = "idle" /\ overlap = FALSE
-----------------------------------------------------------------------------
(* Sockets.                                                                *)

\* Mistake: whether another Send opened one meanwhile is not looked at.
MissingBefore(i) == TRUE

Missing(i) == conns[i] = None

\* ensureConnLocked: a socket is opened and stored; a multicast socket whose
\* interface is unknown is closed again.
Opens(i) ==
  /\ fresh \in Sockets
  /\ conns' = [conns EXCEPT ![i] = fresh]
  /\ open' = open \cup {fresh} /\ fresh' = fresh + 1

OpenFails == UNCHANGED sockets

Closed(i) ==
  /\ open' = open \ {conns[i]}
  /\ conns' = [conns EXCEPT ![i] = None]
  /\ UNCHANGED fresh
-----------------------------------------------------------------------------
(* The constructor.                                                        *)

\* After an error Close is called; the sender is not returned.
BuildFails ==
  /\ build' = "failed"
  /\ conns' = [i \in Shards |-> None] /\ open' = open \ Range(conns)
  /\ UNCHANGED fresh

Build ==
  /\ build = "begun"
  /\ \/ /\ Opens(at)
        /\ \/ at < Concurrency - 1 /\ at' = at + 1 /\ UNCHANGED build
           \/ at = Concurrency - 1 /\ at' = 0 /\ build' = "built"
     \/ BuildFails /\ UNCHANGED at
  /\ UNCHANGED <<sending, closing, overlap>>
-----------------------------------------------------------------------------
(* Send.                                                                   *)

nextShardIndex == IF Concurrency = 1 THEN 0 ELSE (nextIdx + 1) % Concurrency

Return(p, r) ==
  /\ send' = [send EXCEPT ![p] = "returned"]
  /\ result' = [result EXCEPT ![p] = r]
  /\ conn' = [conn EXCEPT ![p] = None]

Late == overlap' = (closing # "idle")

SendBegin(p) ==
  /\ build = "built" /\ send[p] = "new"
  /\ nextIdx' = nextShardIndex
  /\ shard' = [shard EXCEPT ![p] = nextShardIndex]
  /\ send' = [send EXCEPT ![p] = "load"]
  /\ Late
  /\ UNCHANGED <<build, at, sockets, result, conn, closing>>

SendLoad(p) ==
  /\ send[p] = "load"
  /\ conn' = [conn EXCEPT ![p] = conns[shard[p]]]
  /\ send' = [send EXCEPT ![p] = IF conns[shard[p]] = None THEN "get" ELSE "write"]
  /\ Late
  /\ UNCHANGED <<build, at, sockets, nextIdx, result, shard, closing>>

getConn(p) ==
  LET i == shard[p] IN
  /\ send[p] = "get"
  /\ \/ /\ ~Missing(i) /\ UNCHANGED sockets
        /\ conn' = [conn EXCEPT ![p] = conns[i]]
        /\ send' = [send EXCEPT ![p] = "write"] /\ UNCHANGED result
     \/ /\ Missing(i) /\ Opens(i)
        /\ conn' = [conn EXCEPT ![p] = fresh]
        /\ send' = [send EXCEPT ![p] = "write"] /\ UNCHANGED result
     \/ Missing(i) /\ OpenFails /\ Return(p, "error")
  /\ Late
  /\ UNCHANGED <<build, at, nextIdx, shard, closing>>

SendWrite(p) ==
  /\ send[p] = "write"
  /\ \/ conn[p] \in open /\ Return(p, "ok")
     \/ Return(p, "error")
  /\ Late
  /\ UNCHANGED <<build, at, sockets, nextIdx, shard, closing>>

SendStep(p) == SendLoad(p) \/ getConn(p) \/ SendWrite(p)
-----------------------------------------------------------------------------
CloseBegin ==
  /\ build = "built" /\ closing = "idle"
  /\ closing' = "begun"
  /\ overlap' = (\E p \in Packets : send[p] \notin {"new", "returned"})
  /\ UNCHANGED <<build, at, sockets, sending>>

CloseShard ==
  /\ closing = "begun"
  /\ Closed(at)
  /\ \/ at < Concurrency - 1 /\ at' = at + 1 /\ UNCHANGED closing
     \/ at = Concurrency - 1 /\ at' = 0 /\ closing' = "returned"
  /\ UNCHANGED <<build, sending, overlap>>
-----------------------------------------------------------------------------
Next ==
  \/ Build
  \/ \E p \in Packets : SendBegin(p) \/ SendStep(p)
  \/ CloseBegin \/ CloseShard

Spec == Init /\ [][Next]_vars
-----------------------------------------------------------------------------
(* Properties.                                                             *)

\* Every open socket is the one of a shard, and of one shard only, so that Close
\* can find it, however Sends that miss a socket race each other and Close; a
\* constructor that failed leaves none open; and a Close that no Send overlaps
\* or follows leaves none open (udp_unicast.go:52-57, 92-118). A Send that does
\* opens the socket again, and nobody closes that one.
SocketsAccounted ==
  /\ open = Range(conns) \ {None}
  /\ \A i, j \in Shards : conns[i] = conns[j] /\ i # j => conns[i] = None
  /\ build = "failed" => open = {}
  /\ closing = "returned" /\ ~overlap => open = {}

=============================================================================
