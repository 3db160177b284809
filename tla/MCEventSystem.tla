--------------------------- MODULE MCEventSystem ---------------------------
(* Model checking of EventSystem.                                           *)
EXTENDS EventSystem
=============================================================================
