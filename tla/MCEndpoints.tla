---------------------------- MODULE MCEndpoints ----------------------------
(* Endpoints: kinds, values of the configured options, payloads. *)
EXTENDS Endpoints, TLC

AllTypes == {"kafka sender", "dds_skydds", "tcp_gnet", "udp sender", "file receiver",
             "stream receiver"}
BothModes == {"sync", "async"}
BothBackpressures == {"block", "error"}
BothModels == {"octet", "batch_octet"}
Both == {TRUE, FALSE}
BothKinds == {"sftp", "oss"}
FourKinds == {"kafka", "interval", "rate", "gnet"}

\* "large" is too long for a batch, "huge" for a frame; "two" has the bytes of a
\* length.
ThreeMessages == {"empty", "two", "large"}
ThreeFrames == {"one", "two", "huge"}
Sizes == "empty" :> 0 @@ "two" :> 2 @@ "large" :> 4
Contents == "one" :> <<1>> @@ "two" :> <<0, 1>> @@ "huge" :> <<1, 1, 1, 1>>

=============================================================================
