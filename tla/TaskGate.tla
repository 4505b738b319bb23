------------------------------ MODULE TaskGate ------------------------------
(***************************************************************************)
(* What a task promises to the runtime that owns it, without execution     *)
(* models, queues or counters: a gate that is opened once and shut once.   *)
(* While it is open packets are let in; each packet let in is delivered at *)
(* most once to each sender and then leaves; when the gate is shut for     *)
(* good, nothing is inside and nothing is delivered any more.              *)
(***************************************************************************)
CONSTANTS Packets, Senders

VARIABLES
  door,       \* "unopened", "open", "closing", "shut"
  place,      \* place[p]: "outside", "inside", "gone"
  delivered   \* delivered[p]: the senders that were given p

gvars == <<door, place, delivered>>

GateInit ==
  /\ door = "unopened"
  /\ place = [p \in Packets |-> "outside"]
  /\ delivered = [p \in Packets |-> {}]

Open == door = "unopened" /\ door' = "open" /\ UNCHANGED <<place, delivered>>

Enter(p) ==
  /\ door = "open" /\ place[p] = "outside"
  /\ place' = [place EXCEPT ![p] = "inside"]
  /\ UNCHANGED <<door, delivered>>

TurnAway(p) ==
  /\ door \in {"closing", "shut"} /\ place[p] = "outside"
  /\ place' = [place EXCEPT ![p] = "gone"]
  /\ UNCHANGED <<door, delivered>>

Deliver(p, s) ==
  /\ place[p] = "inside" /\ s \notin delivered[p]
  /\ delivered' = [delivered EXCEPT ![p] = @ \cup {s}]
  /\ UNCHANGED <<door, place>>

Leave(p) ==
  /\ place[p] = "inside"
  /\ place' = [place EXCEPT ![p] = "gone"]
  /\ UNCHANGED <<door, delivered>>

Close == door = "open" /\ door' = "closing" /\ UNCHANGED <<place, delivered>>

Shut ==
  /\ door = "closing"
  /\ \A p \in Packets : place[p] # "inside"
  /\ door' = "shut"
  /\ UNCHANGED <<place, delivered>>

GateNext ==
  \/ Open \/ Close \/ Shut
  \/ \E p \in Packets :
       \/ Enter(p) \/ TurnAway(p) \/ Leave(p)
       \/ \E s \in Senders : Deliver(p, s)

GateSpec == GateInit /\ [][GateNext]_gvars

=============================================================================
