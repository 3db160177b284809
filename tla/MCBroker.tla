------------------------------ MODULE MCBroker ------------------------------
(* Model checking of Broker.                                                 *)
EXTENDS Broker
=============================================================================
