--------------------------- MODULE ModuleDelivery ---------------------------
(***************************************************************************)
(* What a message broker of the gateway promises to the modules attached   *)
(* to it, whatever the transport: delivery is lossy, in the order of       *)
(* publication, serial for a module, and over before the module is         *)
(* detached.  core/inc/broker.h and the design goals of                    *)
(* core/devdoc/broker_hld.md state it; broker.c and broadcast_broker.c are *)
(* two implementations.                                                    *)
(*                                                                         *)
(* Messages are numbered in the order in which the broker accepts them.    *)
(***************************************************************************)
EXTENDS Naturals, Sequences

CONSTANT Modules        \* the modules that are ever attached

VARIABLES
  attached,             \* modules the broker knows
  published,            \* number of messages accepted so far
  pending,              \* pending[m]: messages that may still reach m
  received,             \* received[m]: messages handed to m, in order
  busy                  \* modules whose Module_Receive is running

vars == <<attached, published, pending, received, busy>>

Init ==
  /\ attached = {}
  /\ published = 0
  /\ pending = [m \in Modules |-> {}]
  /\ received = [m \in Modules |-> <<>>]
  /\ busy = {}

Attach(m) ==
  /\ m \notin attached
  /\ attached' = attached \cup {m}
  /\ pending' = [pending EXCEPT ![m] = {}]
  /\ UNCHANGED <<published, received, busy>>

\* A message is offered to some of the attached modules: the broker is lossy.
Publish ==
  /\ published' = published + 1
  /\ \E takers \in SUBSET attached :
       pending' = [m \in Modules |-> IF m \in takers
                                     THEN pending[m] \cup {published + 1}
                                     ELSE pending[m]]
  /\ UNCHANGED <<attached, received, busy>>

\* Messages that will not be delivered: no link, no memory, socket closed.
Discard(m) ==
  /\ \E rest \in SUBSET pending[m] : pending' = [pending EXCEPT ![m] = rest]
  /\ UNCHANGED <<attached, published, received, busy>>

\* Module_Receive is entered with n: never twice at once, and what is older
\* than n is not delivered any more.
Begin(m) ==
  /\ m \in attached \ busy
  /\ \E n \in pending[m] :
       /\ received' = [received EXCEPT ![m] = Append(@, n)]
       /\ pending' = [pending EXCEPT ![m] = {k \in pending[m] : k > n}]
  /\ busy' = busy \cup {m}
  /\ UNCHANGED <<attached, published>>

End(m) ==
  /\ m \in busy
  /\ busy' = busy \ {m}
  /\ UNCHANGED <<attached, published, pending, received>>

\* A module leaves only when nothing is running in it.
Detach(m) ==
  /\ m \in attached \ busy
  /\ attached' = attached \ {m}
  /\ pending' = [pending EXCEPT ![m] = {}]
  /\ UNCHANGED <<published, received, busy>>

Next ==
  \/ Publish
  \/ \E m \in Modules : \/ Attach(m) \/ Detach(m)
                        \/ Discard(m) \/ Begin(m) \/ End(m)

Spec == Init /\ [][Next]_vars

-----------------------------------------------------------------------------
\* Every module sees the messages it receives in the one order of publication,
\* so two modules never disagree about the order of two messages
\* (Broker_Publish holds modules_lock while it distributes a message).
InPublicationOrder ==
  \A m \in Modules : \A i, j \in 1..Len(received[m]) :
    i < j => received[m][i] < received[m][j]

\* Module_Receive runs in attached modules only: Broker_RemoveModule returns
\* after the last call of it has returned.
BusyIsAttached == busy \subseteq attached
=============================================================================
