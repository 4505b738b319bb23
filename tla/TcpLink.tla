------------------------------ MODULE TcpLink ------------------------------
(***************************************************************************)
(* Packets over TCP: the sender with its pool of connections and of frame  *)
(* buffers (src/sender/gnet_tcp.go), the u16be framing, and the receiver   *)
(* that cuts a connection's bytes into packets again (framing.go,          *)
(* gnet_tcp.go of src/receiver).                                           *)
(*                                                                         *)
(* A byte is a digit below Base, so the two digits of a frame's length     *)
(* reach Base^2 - 1 (65535 in the code) and payloads may look like         *)
(* lengths. The event loops are external (gnet): AsyncWrite queues a task  *)
(* that is run later, in order, and on a connection that was closed calls  *)
(* back without writing; Close queues one of low priority, which the       *)
(* writes may overtake; a stopped client runs no task. TCP delivers a     *)
(* connection's bytes in order, in pieces of any size, until it breaks.    *)
(* One packet stands for one call of Send, each by a goroutine of its own. *)
(*                                                                         *)
(* "Mistake:" marks a definition that is not part of the model but the one *)
(* after it with a programming error a property has to detect.             *)
(***************************************************************************)
EXTENDS Integers, Sequences, FiniteSets, Functions

CONSTANTS
  Packets,
  Payload,      \* the bytes of each packet
  Base,
  Concurrency,  \* connections of the sender
  NumConns,     \* bound on the connections ever dialled
  Framings,     \* whether "frame" is u16be
  MaxBreaks,    \* bound on the connections that break
  None

Bytes == 0..(Base - 1)
Conns == 1..NumConns
Bufs == 1..Cardinality(Packets)

VARIABLES
  framed,
  send, result,      \* where each Send is, and what it returned
  picked,            \* the connection it uses
  conns, rr,         \* the sender's connections, in order, and its turn
  cli,               \* the gnet client: open or nil
  conn,              \* each connection, seen from the sender
  tasks,             \* the writes its event loop has to do
  asked,             \* connections whose close is queued
  pool, buffer,      \* framePool, and the contents of the buffers
  closing,           \* where Close is
  wire,              \* bytes under way
  rest,              \* connState.buf
  broken,            \* connections that broke
  sent, got          \* history: packets written to a connection, what was cut from it

sending == <<send, result, picked>>
pooling == <<conns, rr, cli>>
buffers == <<pool, buffer>>
history == <<sent, got>>
vars == <<framed, sending, pooling, conn, tasks, asked, buffers, closing, wire, rest, broken, history>>

Init ==
  /\ framed \in Framings
  /\ send = [p \in Packets |-> "new"] /\ result = [p \in Packets |-> None]
  /\ picked = [p \in Packets |-> None]
  /\ conns = [k \in 1..Concurrency |-> k] /\ rr = 0 /\ cli = "open"
  /\ conn = [c \in Conns |-> IF c <= Concurrency THEN "open" ELSE "none"]
  /\ tasks = [c \in Conns |-> <<>>]
  /\ pool = Bufs /\ buffer = [b \in Bufs |-> <<>>]
  /\ closing = "idle"
  /\ wire = [c \in Conns |-> <<>>] /\ rest = [c \in Conns |-> <<>>]
  /\ asked = {} /\ broken = {}
  /\ sent = [c \in Conns |-> <<>>] /\ got = [c \in Conns |-> <<>>]
-----------------------------------------------------------------------------
(* Frames.                                                                 *)

MaxFrame == Base * Base - 1

Frame(payload) == <<Len(payload) \div Base, Len(payload) % Base>> \o payload

\* A turn of the loop of U16BEFramer.Feed: the frames so far, which are slices of the buffer
\* (first and last index of each payload), and the index of what is left.
FeedOne(buf, fed) ==
  LET left == Len(buf) + 1 - fed.remain
      n == buf[fed.remain] * Base + buf[fed.remain + 1]
  IN  IF left < 2 \/ left < 2 + n THEN fed
      ELSE [frames |-> Append(fed.frames, <<fed.remain + 2, fed.remain + 1 + n>>),
            remain |-> fed.remain + 2 + n]

\* The whole loop: no turn but the last takes less than two bytes.
Feed(buf) ==
  LET feed[k \in 0..Len(buf)] ==
        IF k = 0 THEN [frames |-> <<>>, remain |-> 1] ELSE FeedOne(buf, feed[k - 1])
  IN  feed[Len(buf)]
-----------------------------------------------------------------------------
(* Send.                                                                   *)

Return(p, r) ==
  /\ send' = [send EXCEPT ![p] = "returned"]
  /\ result' = [result EXCEPT ![p] = r]

\* pickConn on a pool that is not empty; a pool of one does not turn.
pickConn(p) ==
  /\ picked' = [picked EXCEPT ![p] = conns[1 + (rr % Len(conns))]]
  /\ rr' = IF Len(conns) = 1 THEN rr ELSE (rr + 1) % Len(conns)
  /\ send' = [send EXCEPT ![p] = "write"]
  /\ UNCHANGED <<result, conns, cli>>

SendBegin(p) ==
  /\ send[p] = "new"
  /\ \/ conns # <<>> /\ pickConn(p)
     \/ /\ conns = <<>> /\ send' = [send EXCEPT ![p] = "dial"]
        /\ UNCHANGED <<result, picked, pooling>>
  /\ UNCHANGED <<framed, conn, tasks, asked, buffers, closing, wire, rest, broken, history>>

\* ensureClientAndDial, under cliMu: a new client if there is none, and as many
\* connections as the remote accepts.
SendDial(p) ==
  /\ send[p] = "dial"
  /\ LET dialled == Cardinality({c \in Conns : conn[c] # "none"})
     IN  \E n \in 0..Concurrency :
           /\ dialled + n <= NumConns
           /\ conns' = [k \in 1..n |-> dialled + k]
           /\ conn' = [c \in Conns |-> IF c \in Range(conns') THEN "open" ELSE conn[c]]
  /\ cli' = "open"
  /\ send' = [send EXCEPT ![p] = "again"]
  /\ UNCHANGED <<framed, result, picked, rr, tasks, asked, buffers, closing, wire, rest,
                 broken, history>>

SendAgain(p) ==
  /\ send[p] = "again"
  /\ \/ conns # <<>> /\ pickConn(p)
     \/ conns = <<>> /\ Return(p, "error") /\ UNCHANGED <<picked, pooling>>
  /\ UNCHANGED <<framed, conn, tasks, asked, buffers, closing, wire, rest, broken, history>>

\* Mistake: the buffer goes back to the pool when AsyncWrite returns.
KeptUntilReturn(b) == pool

KeptForCallback(b) == pool \ {b}

FreeBuffer == CHOOSE b \in pool : TRUE

\* AsyncWrite of the payload or of a pooled buffer with its frame. On a client
\* that was stopped it may fail: the buffer is released, the connection closed.
SendWrite(p) ==
  LET c == picked[p]
      b == IF framed THEN FreeBuffer ELSE None
  IN
  /\ send[p] = "write"
  /\ \/ /\ framed /\ Len(Payload[p]) > MaxFrame
        /\ Return(p, "error") /\ UNCHANGED <<tasks, buffers>>
     \/ /\ framed => Len(Payload[p]) <= MaxFrame
        /\ \/ /\ tasks' = [tasks EXCEPT ![c] = Append(@, [p |-> p, b |-> b])]
              /\ \/ /\ framed /\ pool' = KeptForCallback(b)
                    /\ buffer' = [buffer EXCEPT ![b] = Frame(Payload[p])]
                 \/ ~framed /\ UNCHANGED buffers
              /\ Return(p, "ok")
           \/ conn[c] = "stopped" /\ Return(p, "error") /\ UNCHANGED <<tasks, buffers>>
  /\ picked' = [picked EXCEPT ![p] = None]
  /\ UNCHANGED <<framed, pooling, conn, asked, closing, wire, rest, broken, history>>

SendStep(p) == SendDial(p) \/ SendAgain(p) \/ SendWrite(p)
-----------------------------------------------------------------------------
(* The event loops of the client.                                          *)

\* A payload written without a frame is read from the packet, which the task
\* has released when Send returned: its bytes may have been overwritten by then.
\* No property is about them, and one stands for all.
Data(t) == IF framed THEN buffer[t.b] ELSE <<0>>

releaseFrameBuf(b) ==
  IF framed THEN pool' = pool \cup {b} /\ buffer' = [buffer EXCEPT ![b] = <<>>]
  ELSE UNCHANGED buffers

\* asyncWrite and its callback.
RunWrite(c) ==
  LET t == Head(tasks[c]) IN
  /\ tasks[c] # <<>> /\ conn[c] # "stopped"
  /\ tasks' = [tasks EXCEPT ![c] = Tail(@)]
  /\ releaseFrameBuf(t.b)
  /\ \/ /\ conn[c] = "open"
        /\ wire' = [wire EXCEPT ![c] = @ \o Data(t)]
        /\ sent' = [sent EXCEPT ![c] = Append(@, t.p)]
     \/ conn[c] # "open" /\ UNCHANGED <<wire, sent>>
  /\ UNCHANGED <<framed, sending, pooling, conn, asked, closing, rest, broken, got>>

RunClose(c) ==
  /\ c \in asked /\ conn[c] = "open"
  /\ conn' = [conn EXCEPT ![c] = "shut"]
  /\ UNCHANGED <<framed, sending, pooling, tasks, asked, buffers, closing, wire, rest, broken,
                 history>>

\* Neither side sees the bytes again; the sender keeps the connection.
Break(c) ==
  /\ conn[c] \in {"open", "shut"} /\ c \notin broken /\ Cardinality(broken) < MaxBreaks
  /\ broken' = broken \cup {c}
  /\ conn' = [conn EXCEPT ![c] = "shut"]
  /\ wire' = [wire EXCEPT ![c] = <<>>]
  /\ UNCHANGED <<framed, sending, pooling, tasks, asked, buffers, closing, rest, history>>
-----------------------------------------------------------------------------
(* Close.                                                                  *)

CloseConns ==
  /\ closing = "idle"
  /\ closing' = "store"
  /\ asked' = asked \cup Range(conns)
  /\ UNCHANGED <<framed, sending, pooling, conn, tasks, buffers, wire, rest, broken, history>>

CloseStore ==
  /\ closing = "store"
  /\ closing' = "client"
  /\ conns' = <<>>
  /\ UNCHANGED <<framed, sending, rr, cli, conn, tasks, asked, buffers, wire, rest, broken,
                 history>>

\* Under cliMu; the tasks that are left are not run.
CloseClient ==
  /\ closing = "client"
  /\ closing' = "returned"
  /\ cli' = "nil"
  /\ conn' = [c \in Conns |-> IF conn[c] = "none" THEN "none" ELSE "stopped"]
  /\ UNCHANGED <<framed, sending, conns, rr, tasks, asked, buffers, wire, rest, broken, history>>
-----------------------------------------------------------------------------
(* The receiver.                                                           *)

\* OnTraffic with the first k bytes that are under way. Without a framer they are
\* one packet. With one, what is left is moved to the front of the connection's
\* buffer before the frames, which are slices of it, are copied into packets:
\* more than the two bytes of a length overwrite the first payload.
OnTraffic(c, k) ==
  LET buf == rest[c] \o SubSeq(wire[c], 1, k)
      fed == Feed(buf)
      remain == SubSeq(buf, fed.remain, Len(buf))
      moved == [i \in DOMAIN buf |-> IF i <= Len(remain) THEN remain[i] ELSE buf[i]]
  IN
  /\ wire' = [wire EXCEPT ![c] = SubSeq(@, k + 1, Len(@))]
  /\ \/ /\ framed /\ rest' = [rest EXCEPT ![c] = remain]
        /\ got' = [got EXCEPT ![c] = @ \o [f \in DOMAIN fed.frames |->
             [payload |-> SubSeq(moved, fed.frames[f][1], fed.frames[f][2]),
              over |-> fed.frames[f][1] <= Len(remain)]]]
     \/ ~framed /\ UNCHANGED <<rest, got>>
  /\ UNCHANGED <<framed, sending, pooling, conn, tasks, asked, buffers, closing, broken, sent>>

Receive(c) == \E k \in 1..Len(wire[c]) : OnTraffic(c, k)
-----------------------------------------------------------------------------
Next ==
  \/ \E p \in Packets : SendBegin(p) \/ SendStep(p)
  \/ \E c \in Conns : RunWrite(c) \/ RunClose(c) \/ Break(c) \/ Receive(c)
  \/ CloseConns \/ CloseStore \/ CloseClient

Spec == Init /\ [][Next]_vars

\* Goroutines and event loops go on, and TCP transports what was written; each of
\* these steps brings a packet nearer to its end.
Fairness == WF_vars(\/ \E p \in Packets : SendStep(p)
                    \/ \E c \in Conns : RunWrite(c) \/ Receive(c))
-----------------------------------------------------------------------------
(* Properties.                                                             *)

Payloads(ps) == [k \in DOMAIN ps |-> Payload[ps[k]]]
Concat(ss) ==
  LET all[k \in 0..Len(ss)] == IF k = 0 THEN <<>> ELSE all[k - 1] \o ss[k]
  IN  all[Len(ss)]
Writes == {w \in Conns \X (1..Cardinality(Packets)) : w[2] <= Len(tasks[w[1]])}
BufferOf(w) == tasks[w[1]][w[2]].b

Cut(c) == [k \in DOMAIN got[c] |-> got[c][k].payload]

\* However the bytes are cut up, whoever shares the connections and the frame
\* buffers, and whatever the payloads look like: the receiver cuts from each
\* connection one payload for each that was written to it, in order and of its
\* length, and what it has not yet cut is the frames of the others; a payload has
\* its own bytes, unless the read ended so far into the next frame that they were
\* overwritten;
\* and no frame buffer is in the pool, or given to a second Send, before the write
\* that uses it was run (gnet_tcp.go:67-68, framing.go:12-13).
FramesIntact ==
  framed =>
    /\ \A w1, w2 \in Writes :
         BufferOf(w1) \notin pool /\ (BufferOf(w1) = BufferOf(w2) => w1 = w2)
    /\ \A c \in Conns :
         LET written == Payloads(sent[c])
             left == SubSeq(written, Len(got[c]) + 1, Len(written))
         IN  /\ Len(got[c]) <= Len(written)
             /\ \A k \in DOMAIN got[c] :
                  /\ Len(got[c][k].payload) = Len(written[k])
                  /\ got[c][k].over \/ got[c][k].payload = written[k]
             /\ c \notin broken =>
                  rest[c] \o wire[c] = Concat([k \in DOMAIN left |-> Frame(left[k])])

\* frame="u16be" means that the stream is cut into frames by their lengths
\* (docs/configuration.md:189), which the sender puts in front of each payload
\* (:410): every payload that is cut is the one that was sent.
PayloadsCut ==
  framed => \A c \in Conns :
    /\ Len(Cut(c)) <= Len(sent[c])
    /\ \A k \in DOMAIN Cut(c) : Cut(c)[k] = Payload[sent[c][k]]

Undelivered ==
  {p \in Packets : framed /\ result[p] = "ok" /\
     \A c \in Conns : \A k \in DOMAIN got[c] : sent[c][k] # p}

\* Every packet Send accepted is delivered without waiting for the next one, as
\* long as no connection breaks and the sender is not closed.
Settled == Undelivered = {} \/ broken # {} \/ closing # "idle"

=============================================================================
