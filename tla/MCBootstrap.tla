----------------------------- MODULE MCBootstrap -----------------------------
(* Bootstrap on small sets of contents; "broken" does not load. *)
EXTENDS Bootstrap, TLC

AllContents == {"a", "b", "c", "broken"}
Loading == {"a", "b", "c"}
AllFaults == {"update", "schedule", "fingerprint"}
NoFaults == {}

==============================================================================
