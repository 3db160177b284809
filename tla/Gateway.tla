------------------------------ MODULE Gateway ------------------------------
(***************************************************************************)
(* core/src/gateway_ll.c: the gateway, its vectors of modules and links,   *)
(* and what it asks of the broker, of the module loader and of the event   *)
(* system.                                                                 *)
(*                                                                         *)
(* The calls of the gateway API are made by one thread, so each is one     *)
(* action; Gateway_LL_Create and the destruction that follows a failure in *)
(* it or Gateway_LL_Destroy are taken apart into the modules and links     *)
(* they go through.  The callback thread of the event system runs beside   *)
(* that thread.  One callback is registered for                            *)
(* GATEWAY_MODULE_LIST_CHANGED once the gateway exists.                    *)
(***************************************************************************)
EXTENDS Integers, Sequences, FiniteSets, SequencesExt

CONSTANTS
  Handles,      \* module handles: one per instance of a module
  Setups,       \* gateways that are looked at: names of the modules, calls that may fail
  All,          \* GATEWAY_ALL, the link source "*"
  NoList,       \* NULL from Gateway_LL_GetModuleList
  MaxModules,   \* bound: modules of the gateway
  MaxLinks,     \* bound: links of the gateway
  MaxPending    \* bound: module lists waiting for the callback thread

Calls == {"malloc", "ModuleLoader_Load", "Module_Create", "EventSystem_Init",
          "VECTOR_push_back", "Broker_AddModule", "Broker_RemoveModule",
          "Broker_AddLink"}

ASSUME NameAssumption == All \notin Handles
ASSUME SetupAssumption ==
  \A c \in Setups : DOMAIN c.nameOf = Handles /\ c.mayFail \subseteq Calls
ASSUME BoundAssumption == {MaxModules, MaxLinks, MaxPending} \subseteq Nat

VARIABLES
  setup,      \* the gateway that is looked at
  phase,      \* of the life of the gateway
  modules,    \* GATEWAY_HANDLE_DATA.modules, in the order of the vector
  links,      \* GATEWAY_HANDLE_DATA.links, in the order of the vector
  live,       \* modules created and not yet destroyed
  attached,   \* modules attached to the broker
  subs,       \* subs[sink][source]: subscriptions held by the broker
  refs,       \* reference count of the broker
  errored,    \* is_errored of the event system
  lists,      \* module lists the callback thread has not handled yet
  seen        \* the list the callback was last called with

brokerVars == <<attached, subs, refs>>
eventVars == <<errored, lists, seen>>
vars == <<setup, phase, modules, links, live, brokerVars, eventVars>>

Link == [source : Handles \cup {All}, sink : Handles]
NoSubs == [s \in Handles |-> 0]
Members == ToSet(modules)

NameOf == setup.nameOf     \* the name under which the gateway knows each module
MayFail == setup.mayFail   \* calls that may report an error
BrokerCalls == {"Broker_AddModule", "Broker_RemoveModule", "Broker_AddLink"}
BrokerWorks == BrokerCalls \cap MayFail = {}

Names == {NameOf[h] : h \in Members}

\* The elements of s that are not in R, in their order.
Without(s, R) ==
  LET kept[i \in 0..Len(s)] == IF i = 0 THEN <<>>
                               ELSE IF s[i] \in R THEN kept[i - 1]
                               ELSE Append(kept[i - 1], s[i])
  IN  kept[Len(s)]

Init ==
  /\ setup \in Setups
  /\ phase = "none"
  /\ modules = <<>> /\ links = <<>> /\ live = {}
  /\ attached = {} /\ subs = [t \in Handles |-> NoSubs] /\ refs = 0
  /\ errored = FALSE /\ lists = <<>> /\ seen = NoList

-----------------------------------------------------------------------------
(* What the gateway tells the broker *)

Subscribed(S, P) ==
  [t \in Handles |-> [s \in Handles |-> S[t][s] + (IF <<s, t>> \in P THEN 1 ELSE 0)]]

\* Broker_RemoveLink fails when there is nothing to unsubscribe from; the
\* gateway logs its errors and goes on.
Unsubscribed(S, P) ==
  [t \in Handles |-> [s \in Handles |->
     S[t][s] - (IF <<s, t>> \in P /\ S[t][s] > 0 THEN 1 ELSE 0)]]

\* Mutant: a new module is not linked to the sinks of "*".
AnySinks_forgotten(h, n) == {}

\* The links add_module_to_any_source and remove_module_from_any_source make of
\* the first n links, for module h.
AnySinks(h, n) == {<<h, links[i].sink>> : i \in {j \in 1..n : links[j].source = All}}

\* The links from the first n modules that "*" stands for.
AnySources(t, n) == {<<modules[i], t>> : i \in {j \in 1..n : modules[j] # t}}

\* The links the broker has for one of the gateway's.
BrokerLinks(l) ==
  IF l.source = All THEN AnySources(l.sink, Len(modules)) ELSE {<<l.source, l.sink>>}

-----------------------------------------------------------------------------
(* Reporting GATEWAY_MODULE_LIST_CHANGED *)

\* One entry per module: the modules it has links from, or All.  The vector of
\* sources is destroyed when a link from "*" is met, and a later link from a
\* module then finds no vector to be pushed on.
Gateway_LL_GetModuleList(ms, ls) ==
  IF \E i, j \in DOMAIN ls : /\ i < j /\ ls[i].sink = ls[j].sink
                             /\ ls[i].source = All /\ ls[j].source # All
  THEN NoList
  ELSE [h \in ToSet(ms) |-> IF [source |-> All, sink |-> h] \in ToSet(ls) THEN {All}
                            ELSE {l.source : l \in {k \in ToSet(ls) : k.sink = h}}]

\* Without a list the event system gives up for good.
EventSystem_ReportEvent(ms, ls) ==
  LET list == Gateway_LL_GetModuleList(ms, ls) IN
  /\ \/ /\ ~errored /\ list # NoList
        /\ lists' = Append(lists, list)
        /\ UNCHANGED errored
     \/ /\ errored \/ list = NoList
        /\ errored' = TRUE
        /\ UNCHANGED lists
  /\ UNCHANGED seen

\* The callback thread calls back with the oldest list, then destroys it.
CallbackThread ==
  /\ phase \in {"up", "draining"}
  /\ lists # <<>>
  /\ seen' = Head(lists)
  /\ lists' = Tail(lists)
  /\ UNCHANGED <<phase, modules, links, live, brokerVars, errored>>

-----------------------------------------------------------------------------
(* Modules *)

\* Handles are pointers: an instance is made anew for every module added.
CanAdd(h) ==
  /\ h \notin live \cup attached
  /\ Len(modules) < MaxModules
  /\ NameOf[h] \notin Names

gateway_addmodule_internal(h) ==
  /\ CanAdd(h)
  /\ modules' = Append(modules, h)
  /\ live' = live \cup {h}
  /\ attached' = attached \cup {h}
  /\ subs' = Subscribed([subs EXCEPT ![h] = NoSubs], AnySinks(h, Len(links)))
  /\ refs' = refs + 1
  /\ UNCHANGED links

\* Mutant: the reference is kept when the links from "*" fail.
gateway_addmodule_undone_referenced(h) ==
  /\ CanAdd(h)
  /\ {"malloc", "VECTOR_push_back"} \cap MayFail # {}
  /\ refs' = refs + 1
  /\ UNCHANGED <<modules, links, live, attached, subs>>

\* A failure after Broker_AddModule: what was done is undone, as far as the
\* broker lets it, and the module is destroyed in any case.
gateway_addmodule_undone(h) ==
  /\ CanAdd(h)
  /\ \/ /\ {"malloc", "VECTOR_push_back"} \cap MayFail # {}
        /\ UNCHANGED subs
     \/ /\ "Broker_AddLink" \in MayFail
        /\ \E n \in 1..Len(links) :
             /\ links[n].source = All
             /\ subs' = Unsubscribed(Subscribed(subs, AnySinks(h, n - 1)),
                                     AnySinks(h, Len(links)))
  /\ \/ UNCHANGED attached
     \/ "Broker_RemoveModule" \in MayFail /\ attached' = attached \cup {h}
  /\ UNCHANGED <<modules, links, live, refs>>

\* Mutant: only the links into the removed module go.
Naming_sinks_only(h, l) == h = l.sink

Naming(h, l) == h \in {l.source, l.sink}

\* The "*" links of others, then the links that name h, then the module.
gateway_removemodule_internal(h) ==
  LET mine == {l \in ToSet(links) : Naming(h, l)}
      fromAny == UNION {BrokerLinks(l) : l \in {k \in mine : k.source = All}}
      regular == UNION {BrokerLinks(l) : l \in {k \in mine : k.source # All}}
      left == Unsubscribed(Unsubscribed(Unsubscribed(
                subs, AnySinks(h, Len(links))), fromAny), regular)
  IN
  /\ \/ subs' = [left EXCEPT ![h] = NoSubs] /\ attached' = attached \ {h}
     \/ "Broker_RemoveModule" \in MayFail /\ subs' = left /\ UNCHANGED attached
  /\ links' = Without(links, mine)
  /\ modules' = Without(modules, {h})
  /\ live' = live \ {h}
  /\ refs' = refs - 1

-----------------------------------------------------------------------------
(* Links *)

CanLink(l) ==
  /\ Len(links) < MaxLinks
  /\ l \notin ToSet(links)
  /\ l.sink \in Members /\ l.source \in Members \cup {All}

gateway_addlink_internal(l) ==
  /\ CanLink(l)
  /\ links' = Append(links, l)
  /\ subs' = Subscribed(subs, BrokerLinks(l))
  /\ UNCHANGED <<modules, live, attached, refs>>

\* A failure.  Of a link from "*" every module is unsubscribed again, the ones
\* this call had not come to included; another link leaves nothing behind.
gateway_addlink_undone(l) ==
  /\ CanLink(l)
  /\ \/ /\ {"VECTOR_push_back", "Broker_AddLink"} \cap MayFail # {}
        /\ UNCHANGED subs
     \/ /\ "Broker_AddLink" \in MayFail /\ l.source = All
        /\ \E n \in 1..Len(modules) :
             /\ modules[n] # l.sink
             /\ subs' = Unsubscribed(Subscribed(subs, AnySources(l.sink, n - 1)),
                                     BrokerLinks(l))
  /\ UNCHANGED <<modules, links, live, attached, refs>>

gateway_removelink_internal(l) ==
  /\ l \in ToSet(links)
  /\ subs' = Unsubscribed(subs, BrokerLinks(l))
  /\ links' = Without(links, {l})
  /\ UNCHANGED <<modules, live, attached, refs>>

-----------------------------------------------------------------------------
(* Gateway_LL_Create and Gateway_LL_Destroy *)

Gateway_LL_Create ==
  /\ phase = "none"
  /\ phase' = "creating"
  /\ refs' = 1                            \* Broker_Create
  /\ attached' = {} /\ subs' = [t \in Handles |-> NoSubs]
  /\ UNCHANGED <<modules, links, live, eventVars>>

\* The modules of the properties, then their links; no events yet.  The first
\* failure ends in the destruction of what there is.
CreateEntry ==
  /\ phase = "creating"
  /\ \/ \E h \in Handles : links = <<>> /\ gateway_addmodule_internal(h)
     \/ \E l \in Link : gateway_addlink_internal(l)
  /\ UNCHANGED <<phase, eventVars>>

CreateFails ==
  /\ phase = "creating"
  /\ phase' = "destroying"
  /\ \/ UNCHANGED <<modules, links, live, brokerVars>>
     \/ \E h \in Handles : links = <<>> /\ gateway_addmodule_undone(h)
     \/ \E l \in Link : gateway_addlink_undone(l)
  /\ UNCHANGED eventVars

\* EventSystem_Init; the events reported now find no callback.
CreateReturns ==
  /\ phase = "creating"
  /\ phase' = "up"
  /\ errored' = FALSE /\ lists' = <<>>
  /\ seen' = Gateway_LL_GetModuleList(modules, links)
  /\ UNCHANGED <<modules, links, live, brokerVars>>

Gateway_LL_Destroy ==
  /\ phase = "up"
  /\ phase' = "draining"
  /\ UNCHANGED <<modules, links, live, brokerVars, eventVars>>

\* EventSystem_Destroy waits for the callback thread.
EventSystem_Destroy ==
  /\ phase = "draining" /\ lists = <<>>
  /\ phase' = "destroying"
  /\ errored' = FALSE /\ seen' = NoList
  /\ UNCHANGED <<modules, links, live, brokerVars, lists>>

\* gateway_destroy_internal: links from the front, then modules, then the broker.
DestroyNext ==
  /\ phase = "destroying"
  /\ \/ links # <<>> /\ gateway_removelink_internal(Head(links)) /\ UNCHANGED phase
     \/ links = <<>> /\ modules # <<>> /\ gateway_removemodule_internal(Head(modules))
        /\ UNCHANGED phase
     \/ /\ links = <<>> /\ modules = <<>>
        /\ phase' = "none"
        /\ refs' = refs - 1
        /\ UNCHANGED <<modules, links, live, attached, subs>>
  /\ UNCHANGED eventVars

-----------------------------------------------------------------------------
(* The calls on a gateway that is up *)

Gateway_LL_AddModule(h) ==
  \/ gateway_addmodule_internal(h) /\ EventSystem_ReportEvent(modules', links)
  \/ gateway_addmodule_undone(h) /\ UNCHANGED eventVars

\* By handle, and by name in Gateway_LL_RemoveModuleByName.
Gateway_LL_RemoveModule(h) ==
  /\ h \in Members
  /\ gateway_removemodule_internal(h)
  /\ EventSystem_ReportEvent(modules', links')

Gateway_LL_AddLink(l) ==
  \/ gateway_addlink_internal(l) /\ EventSystem_ReportEvent(modules, links')
  \/ gateway_addlink_undone(l) /\ UNCHANGED eventVars

\* Mutant: the change is not reported.
Gateway_LL_RemoveLink_silent(l) ==
  gateway_removelink_internal(l) /\ UNCHANGED eventVars

Gateway_LL_RemoveLink(l) ==
  gateway_removelink_internal(l) /\ EventSystem_ReportEvent(modules, links')

UpNext ==
  /\ phase = "up" /\ Len(lists) < MaxPending
  /\ \/ \E h \in Handles : Gateway_LL_AddModule(h) \/ Gateway_LL_RemoveModule(h)
     \/ \E l \in Link : Gateway_LL_AddLink(l) \/ Gateway_LL_RemoveLink(l)
  /\ UNCHANGED phase

Next ==
  /\ \/ Gateway_LL_Create \/ CreateEntry \/ CreateFails \/ CreateReturns
     \/ UpNext \/ CallbackThread
     \/ Gateway_LL_Destroy \/ EventSystem_Destroy \/ DestroyNext
  /\ UNCHANGED setup

Spec == Init /\ [][Next]_vars

-----------------------------------------------------------------------------
ModuleLists == UNION {[N -> SUBSET (N \cup {All})] : N \in SUBSET Handles}

TypeOK ==
  /\ setup \in Setups
  /\ phase \in {"none", "creating", "up", "draining", "destroying"}
  /\ modules \in Seq(Handles)
  /\ links \in Seq(Link)
  /\ live \subseteq Handles
  /\ attached \subseteq Handles
  /\ subs \in [Handles -> [Handles -> Nat]]
  /\ refs \in Nat
  /\ errored \in BOOLEAN
  /\ lists \in Seq(ModuleLists)
  /\ seen \in ModuleLists \cup {NoList}

\* The modules are those attached to the broker and not destroyed, under
\* different names; the links are between them; the broker is referenced once
\* by the gateway and once by each module.
ModulesAreHeld ==
  /\ Members = live
  /\ Cardinality(Names) = Len(modules)
  /\ \A l \in ToSet(links) : l.sink \in live /\ l.source \in live \cup {All}
  /\ refs = IF phase = "none" THEN 0 ELSE 1 + Len(modules)

\* The types, and the vectors, the modules alive and the reference count of the
\* broker agree whatever fails: gateway_ll.c gives back what it took, once.
GatewayInv == TypeOK /\ ModulesAreHeld

\* A sink is subscribed to a source once for each link that says so: the links
\* from "*" and the links from modules come and go without disturbing each
\* other.
SubscriptionsMatchLinks ==
  phase # "none" =>
    \A s, t \in Handles :
      subs[t][s] = Cardinality({l \in ToSet(links) : <<s, t>> \in BrokerLinks(l)})

\* When the broker does what it is asked, a sink is subscribed once for each link
\* that says so, also after calls of the gateway that failed for other reasons.
SubscriptionsAreExact == BrokerWorks => SubscriptionsMatchLinks

\* As long as the event system works, the callback's last list shows the graph
\* as it is, or a newer list is on its way to it.
ObserverIsUpToDate ==
  phase = "up" /\ ~errored /\ seen # NoList =>
    Last(<<seen>> \o lists) = Gateway_LL_GetModuleList(modules, links)

-----------------------------------------------------------------------------
(* The graph of a gateway *)

\* The pairs that are to be routed, and those that the broker routes.
Wanted == UNION {BrokerLinks(l) : l \in ToSet(links)}
Routed == {r \in Handles \X Handles : phase # "none" /\ subs[r[2]][r[1]] > 0}

\* A broker that does not do what it is asked routes what it will.
Graph == INSTANCE Topology WITH
  nodes <- Members, edges <- ToSet(links), routes <- IF BrokerWorks THEN Routed ELSE Wanted

\* Each call, also one that fails half way, changes the graph by one module or
\* link or not at all, and the routes of a broker that works with it.
TopologySpec == Graph!Spec
=============================================================================
