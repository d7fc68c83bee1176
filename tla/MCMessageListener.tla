------------------------- MODULE MCMessageListener -------------------------
(* MessageListener with a small set of messages, for TLC. *)
EXTENDS MessageListener

CONSTANTS m1, m2, m3
=============================================================================
