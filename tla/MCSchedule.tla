----------------------------- MODULE MCSchedule -----------------------------
(* A local group, a leader_only group with an elector and one without. *)
EXTENDS Schedule, TLC

JobsOfGroups == "local" :> {"sweep"} @@ "leader" :> {"send"} @@ "orphan" :> {"lost"}
AllJobs == {"sweep", "send", "lost"}

=============================================================================
