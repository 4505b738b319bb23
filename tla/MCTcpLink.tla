----------------------------- MODULE MCTcpLink -----------------------------
(* TcpLink: two packets, the bytes of one of which look like a length. *)
EXTENDS TcpLink, TLC

TwoPackets == {"one", "two"}
Contents == "one" :> <<1>> @@ "two" :> <<0, 1>>

=============================================================================
