------------------------------- MODULE MCTask -------------------------------
(***************************************************************************)
(* Task on small instances. Each run names the execution models it starts  *)
(* from; "" and "unknown" are the configured values resolveExecutionModel  *)
(* maps to the pool.                                                       *)
(***************************************************************************)
EXTENDS TaskRefinement, TLC

AllModels == {"", "unknown", "fastpath", "pool", "channel"}

=============================================================================
