---------------------------- MODULE MCTrafficHub ----------------------------
(* TrafficHub: instances are interchangeable. *)
EXTENDS TrafficHub, TLC

CONSTANTS r, t, u1, u2, u3, s1, s2

Symmetry == Permutations({u1, u2, u3}) \cup Permutations({s1, s2})

=============================================================================
