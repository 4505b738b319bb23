---------------------------- MODULE MCKafkaAsync ----------------------------
(* KafkaAsync: values of the configured options. *)
EXTENDS KafkaAsync, TLC

AsyncOnly == {"async"}
BothBackpressures == {"block", "error"}

=============================================================================
