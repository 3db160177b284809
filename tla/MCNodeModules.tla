--------------------------- MODULE MCNodeModules ---------------------------
(* Model checking of NodeModules.                                            *)
EXTENDS NodeModules, TLC

CONSTANTS m1, m2

All == {"create", "receive", "destroy", "start"}

\* A complete module, one without start, one that lacks destroy, one whose
\* create fails.
SomeScripts ==
  { [functions |-> All, create |-> "true"],
    [functions |-> All \ {"start"}, create |-> "true"],
    [functions |-> All \ {"destroy"}, create |-> "true"],
    [functions |-> All, create |-> "no boolean"] }
GoodScript == [functions |-> All, create |-> "true"]

\* Properties only, content only, both.
SomePosts ==
  { [fields |-> {"properties"}, properties |-> {"text", "number"}, bytes |-> FALSE],
    [fields |-> {"content"}, properties |-> {}, bytes |-> TRUE],
    [fields |-> {"properties", "content"}, properties |-> {"blank"}, bytes |-> TRUE] }

\* The scripts of the other modules do not influence the first: they are good.
MCInit == Init /\ \A m \in Modules \ {m1} : script[m] = GoodScript

MCSpec == MCInit /\ [][Next]_vars /\ Fairness
=============================================================================
