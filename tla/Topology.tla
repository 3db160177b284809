------------------------------ MODULE Topology ------------------------------
(***************************************************************************)
(* What a gateway promises about its graph (doc/getting_started.md,        *)
(* "Each link defines a message route and direction"): a call adds or      *)
(* removes one module or one link, or it changes nothing; and at any time  *)
(* the broker routes messages along the links, and nowhere else.           *)
(***************************************************************************)
CONSTANTS
  Handles,   \* modules
  All        \* the link source "*"

VARIABLES
  nodes,     \* modules of the gateway
  edges,     \* its links, [source, sink]
  routes     \* pairs <<source, sink>> along which messages travel

topologyVars == <<nodes, edges, routes>>

Edges(N) == [source : N \cup {All}, sink : N]

\* A link from "*" stands for one from every other module.
RoutesOf(N, E) ==
  {<<e.source, e.sink>> : e \in {f \in E : f.source # All}}
  \cup {r \in N \X N : r[1] # r[2] /\ [source |-> All, sink |-> r[2]] \in E}

Init == nodes = {} /\ edges = {} /\ routes = {}

AddNode(h) == nodes' = nodes \cup {h} /\ UNCHANGED edges

\* A module leaves with all the links that name it.
RemoveNode(h) ==
  /\ nodes' = nodes \ {h}
  /\ edges' = {e \in edges : h \notin {e.source, e.sink}}

AddEdge(e) == edges' = edges \cup {e} /\ UNCHANGED nodes

RemoveEdge(e) == edges' = edges \ {e} /\ UNCHANGED nodes

Next ==
  /\ \/ \E h \in Handles : AddNode(h) \/ RemoveNode(h)
     \/ \E e \in Edges(nodes) : AddEdge(e) \/ RemoveEdge(e)
  /\ routes' = RoutesOf(nodes', edges')

Spec == Init /\ [][Next]_topologyVars
=============================================================================
