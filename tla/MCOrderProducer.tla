-------------------------- MODULE MCOrderProducer --------------------------
(* Instance of OrderProducer for TLC: three orders with a copy each, room   *)
(* for two messages and one message that fails.                             *)
EXTENDS OrderProducer
=============================================================================
