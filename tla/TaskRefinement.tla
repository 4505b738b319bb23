--------------------------- MODULE TaskRefinement ---------------------------
(***************************************************************************)
(* Task implements TaskGate: a packet is inside from inflight.Add(1) to    *)
(* inflight.Done(), and the gate is shut when StopGraceful's Wait returns. *)
(***************************************************************************)
EXTENDS Task

Door ==
  CASE stop = "built" -> "unopened"
    [] stop = "serving" -> "open"
    [] stop = "draining" -> "closing"
    [] OTHER -> "shut"

Place ==
  [p \in Packets |->
     IF stage[p] \in Inflight THEN "inside"
     ELSE IF stage[p] \in {"new", "offered"} THEN "outside" ELSE "gone"]

Gate == INSTANCE TaskGate WITH door <- Door, place <- Place, delivered <- sent

\* A task is a gate: no packet gets in after StopGraceful refused new ones, no
\* sender is given the same packet twice, and no Send happens after the wait of
\* StopGraceful returned.
ImplementsGate == Gate!GateSpec

=============================================================================
