------------------------- MODULE MCBroadcastBroker -------------------------
(* Model checking of BroadcastBroker.                                       *)
EXTENDS BroadcastBroker
=============================================================================
