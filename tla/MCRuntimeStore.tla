--------------------------- MODULE MCRuntimeStore ---------------------------
(***************************************************************************)
(* RuntimeStore on a family of configurations around a base configuration: *)
(* two tasks on two senders, one receiver, one key besides the default.    *)
(***************************************************************************)
EXTENDS RuntimeStore, TLC

Sel(key, set, default) == [matches |-> (key :> set), default |-> default]

Base == [
  senders   |-> ("sa" :> 1 @@ "sb" :> 1),
  pipelines |-> ("p" :> <<"match", "route">>),
  tasks     |-> ("t1" :> [ver |-> 1, senders |-> {"sa"}, pipelines |-> {"p"}] @@
                 "t2" :> [ver |-> 1, senders |-> {"sb"}, pipelines |-> {}]),
  taskSets  |-> ("one" :> {"t1"} @@ "both" :> {"t1", "t2"}),
  selectors |-> ("main" :> Sel("k", "both", "one")),
  receivers |-> ("r" :> [ver |-> 1, selector |-> "main"])]

\* A sender changes: the task that uses it has to be rebuilt.
SenderChanged == [Base EXCEPT !.senders["sa"] = 2]

\* Keys are routed differently, nothing else changes ...
Rerouted == [Base EXCEPT !.selectors["main"] = Sel("k", "one", "both")]

\* ... and the same with a new sender no task uses.
ReroutedSpare ==
  [Rerouted EXCEPT !.senders = "sa" :> 1 @@ "sb" :> 1 @@ "sc" :> 1]

\* The pipeline, the receiver, the routes and the set of senders change.
Overhauled == [ReroutedSpare EXCEPT !.pipelines["p"] = <<"match", "rewrite">>, !.receivers["r"].ver = 2]

\* t1 is gone, t2 moves to its sender and gives up its own; another receiver,
\* without a default.
Moved ==
  [Base EXCEPT !.senders = "sa" :> 1,
               !.tasks = "t2" :> [ver |-> 1, senders |-> {"sa"}, pipelines |-> {}],
               !.taskSets = "both" :> {"t2"},
               !.selectors["main"] = Sel("k", "both", None),
               !.receivers = "q" :> [ver |-> 1, selector |-> "main"]]

AllConfigs == {Base, SenderChanged, Overhauled, Moved}
RouteConfigs == {Base, Rerouted, ReroutedSpare}

=============================================================================
