----------------------------- MODULE MCGateway -----------------------------
(* Model checking of Gateway: a gateway whose calls may all fail, with two   *)
(* instances of one module, and one whose broker does what it is asked, with *)
(* modules under names of their own.                                         *)
EXTENDS Gateway

CONSTANTS a1, a2, b

\* Two instances of a module under the name "a", one under the name "b".
TwoNames == a1 :> "a" @@ a2 :> "a" @@ b :> "b"

\* Every handle has a name of its own: itself.
OwnNames == [h \in Handles |-> h]

MCSetups == {[nameOf |-> TwoNames, mayFail |-> Calls],
             [nameOf |-> OwnNames, mayFail |-> {"malloc", "VECTOR_push_back"}]}

Symmetry == Permutations({a1, a2})
=============================================================================
