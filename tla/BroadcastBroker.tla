--------------------------- MODULE BroadcastBroker ---------------------------
(***************************************************************************)
(* core/src/broadcast_broker.c: the broker that hands every message to     *)
(* every module but its source.                                            *)
(*                                                                         *)
(* A module has a queue mq, a condition variable and a worker thread that  *)
(* runs module_publish_worker.  mq_lock is never held while something is   *)
(* waited for, so a section under it is one action; modules_lock is held   *)
(* by Broker_Publish from module to module and by Broker_RemoveModule      *)
(* while it joins the worker, and is explicit.  Links mean nothing here:   *)
(* Broker_AddLink and Broker_RemoveLink return BROKER_OK.                  *)
(***************************************************************************)
EXTENDS Naturals, Sequences, FiniteSets

CONSTANTS
  Modules,        \* module handles; m also names the worker thread of m
  Clients,        \* other threads that call the broker
  Republishers,   \* modules that call Broker_Publish inside Module_Receive
  MayFail,        \* platform calls that may report an error
  MaxPublish,     \* bound: messages published
  MaxAdd,         \* bound: successful calls of Broker_AddModule
  None

PlatformCalls == {"Lock", "Unlock", "VECTOR_push_back", "Condition_Post", "Condition_Wait",
                  "ThreadAPI_Join"}

ASSUME ThreadAssumption ==
  /\ Modules \cap Clients = {} /\ None \notin Modules \cup Clients
  /\ Republishers \subseteq Modules
  /\ MayFail \subseteq PlatformCalls
ASSUME BoundAssumption == MaxPublish \in Nat /\ MaxAdd \in Nat
ASSUME FiniteAssumption == IsFiniteSet(Modules)

VARIABLES
  modules,        \* attached modules, in list order
  modules_lock,   \* thread that holds modules_lock
  client,         \* client[c]: where c is
  target,         \* the module being removed
  rest,           \* modules that Broker_Publish still has to visit
  source,         \* source of the message that is being published
  mq,             \* mq[m]: messages that wait for m
  quit_worker,    \* quit_worker[m]
  worker,         \* worker[m]: where the worker thread of m is
  references,     \* references[n]: reference count of message n
  published,      \* number of messages given to Broker_Publish
  received,       \* received[m]: messages handed to Module_Receive of m
  adds            \* modules added so far (bounds the model)

publishVars == <<rest, source>>
historyVars == <<published, received, adds>>
vars == <<modules, modules_lock, client, target, publishVars, mq, quit_worker, worker,
          references, historyVars>>

Threads == Modules \cup Clients
Attached == {modules[i] : i \in DOMAIN modules}

\* Condition_Post wakes the worker if it is in Condition_Wait, and is forgotten
\* otherwise.
Post(m, w) == IF w[m] = "wait" THEN [w EXCEPT ![m] = "lock"] ELSE w

Init ==
  /\ modules = <<>>
  /\ modules_lock = None
  /\ client = [c \in Clients |-> "idle"]
  /\ target = None
  /\ rest = <<>>
  /\ source = None
  /\ mq = [m \in Modules |-> <<>>]
  /\ quit_worker = [m \in Modules |-> FALSE]
  /\ worker = [m \in Modules |-> "none"]
  /\ references = [n \in 1..MaxPublish |-> 0]
  /\ published = 0
  /\ received = [m \in Modules |-> <<>>]
  /\ adds = 0

-----------------------------------------------------------------------------
(* Client threads *)

CanLock(c) == client[c] = "idle" /\ modules_lock = None

init_module(m) ==
  /\ mq' = [mq EXCEPT ![m] = <<>>]
  /\ quit_worker' = [quit_worker EXCEPT ![m] = FALSE]

start_module(m) == worker' = [worker EXCEPT ![m] = "start"]

\* A handle is attached at most once at a time: Module_Create returns a new one.
\* An error of the platform leaves the broker as it was.
Broker_AddModule(c, m) ==
  /\ CanLock(c)
  /\ m \notin Attached /\ worker[m] = "none"
  /\ adds < MaxAdd
  /\ modules' = Append(modules, m)
  /\ init_module(m)
  /\ start_module(m)
  /\ adds' = adds + 1
  /\ UNCHANGED <<modules_lock, client, target, publishVars, references, published, received>>

\* modules_lock is taken for message published + 1, of which the publisher has a
\* reference of its own.
BeginPublish(p, src) ==
  /\ modules_lock = None
  /\ published < MaxPublish
  /\ modules_lock' = p
  /\ published' = published + 1
  /\ rest' = modules
  /\ source' = src
  /\ references' = [references EXCEPT ![published + 1] = 1]
  /\ UNCHANGED <<modules, target, mq, quit_worker, received, adds>>

Broker_Publish(c, src) ==
  /\ client[c] = "idle"
  /\ BeginPublish(c, src)
  /\ client' = [client EXCEPT ![c] = "publish"]
  /\ UNCHANGED worker

Publishing(p) ==
  /\ modules_lock = p
  /\ p \in Clients => client[p] = "publish"
  /\ p \in Modules => worker[p] = "Broker_Publish"

\* Mutant: mq_cond is not posted.
OfferToNext_silent(p) ==
  LET m == Head(rest) IN
  /\ Publishing(p) /\ rest # <<>>
  /\ rest' = Tail(rest)
  /\ \/ /\ m # source
        /\ mq' = [mq EXCEPT ![m] = Append(@, published)]
        /\ references' = [references EXCEPT ![published] = @ + 1]
     \/ m = source /\ UNCHANGED <<mq, references>>
  /\ UNCHANGED <<modules, modules_lock, client, target, source, quit_worker, worker,
                 historyVars>>

\* One round of the loop: the source is left out, the others get a clone and are
\* woken; a module that cannot get one misses the message.
OfferToNext(p) ==
  LET m == Head(rest) IN
  /\ Publishing(p) /\ rest # <<>>
  /\ rest' = Tail(rest)
  /\ \/ /\ m # source
        /\ mq' = [mq EXCEPT ![m] = Append(@, published)]
        /\ references' = [references EXCEPT ![published] = @ + 1]
        /\ \/ worker' = Post(m, worker)
           \/ "Condition_Post" \in MayFail /\ UNCHANGED worker
     \/ /\ m = source \/ {"Lock", "VECTOR_push_back"} \cap MayFail # {}
        /\ UNCHANGED <<mq, references, worker>>
  /\ UNCHANGED <<modules, modules_lock, client, target, source, quit_worker, historyVars>>

\* modules_lock is released, and the publisher destroys its message.
EndPublish(p) ==
  /\ Publishing(p) /\ rest = <<>>
  /\ modules_lock' = None
  /\ references' = [references EXCEPT ![published] = @ - 1]
  /\ source' = None
  /\ \/ /\ p \in Clients
        /\ client' = [client EXCEPT ![p] = "idle"]
        /\ UNCHANGED worker
     \/ /\ p \in Modules
        /\ worker' = [worker EXCEPT ![p] = "Module_Receive"]
        /\ UNCHANGED client
  /\ UNCHANGED <<modules, target, rest, mq, quit_worker, historyVars>>

\* Mutant: the worker that is told to quit is not woken.
Broker_RemoveModule_silent(c, m) ==
  /\ CanLock(c)
  /\ m \in Attached
  /\ modules_lock' = c
  /\ client' = [client EXCEPT ![c] = "join"]
  /\ target' = m
  /\ quit_worker' = [quit_worker EXCEPT ![m] = TRUE]
  /\ UNCHANGED <<modules, publishVars, mq, worker, references, historyVars>>

\* Broker_RemoveModule finds the module; stop_module sets quit_worker and posts
\* mq_cond, and does only the former when it cannot take mq_lock.
Broker_RemoveModule(c, m) ==
  /\ CanLock(c)
  /\ m \in Attached
  /\ modules_lock' = c
  /\ client' = [client EXCEPT ![c] = "join"]
  /\ target' = m
  /\ quit_worker' = [quit_worker EXCEPT ![m] = TRUE]
  /\ \/ worker' = Post(m, worker)
     \/ {"Lock", "Condition_Post"} \cap MayFail # {} /\ UNCHANGED worker
  /\ UNCHANGED <<modules, publishVars, mq, references, historyVars>>

\* The list without the item of module m.
Without(s, m) ==
  LET i == CHOOSE k \in DOMAIN s : s[k] = m
  IN  [j \in 1..(Len(s) - 1) |-> IF j < i THEN s[j] ELSE s[j + 1]]

\* Mutants: the entry is freed without waiting for the worker; the messages left
\* in the queue are not destroyed.
JoinWorker_detached(c) ==
  /\ client[c] = "join"
  /\ mq' = [mq EXCEPT ![target] = <<>>]
  /\ modules' = Without(modules, target)
  /\ modules_lock' = None
  /\ client' = [client EXCEPT ![c] = "idle"]
  /\ target' = None
  /\ UNCHANGED <<publishVars, quit_worker, worker, references, historyVars>>
JoinWorker_leaks(c) ==
  /\ client[c] = "join"
  /\ worker[target] = "exited" /\ worker' = [worker EXCEPT ![target] = "none"]
  /\ mq' = [mq EXCEPT ![target] = <<>>]
  /\ modules' = Without(modules, target)
  /\ modules_lock' = None
  /\ client' = [client EXCEPT ![c] = "idle"]
  /\ target' = None
  /\ UNCHANGED <<publishVars, quit_worker, references, historyVars>>

\* The worker is joined, what is left in its queue is destroyed, and the entry is
\* freed: also when ThreadAPI_Join reports an error.
JoinWorker(c) ==
  LET m == target IN
  /\ client[c] = "join"
  /\ \/ worker[m] = "exited" /\ worker' = [worker EXCEPT ![m] = "none"]
     \/ "ThreadAPI_Join" \in MayFail /\ UNCHANGED worker
  /\ references' = [n \in 1..MaxPublish |->
       references[n] - Cardinality({i \in DOMAIN mq[m] : mq[m][i] = n})]
  /\ mq' = [mq EXCEPT ![m] = <<>>]
  /\ modules' = Without(modules, m)
  /\ modules_lock' = None
  /\ client' = [client EXCEPT ![c] = "idle"]
  /\ target' = None
  /\ UNCHANGED <<publishVars, quit_worker, historyVars>>

\* Broker_AddLink and Broker_RemoveLink return BROKER_OK and do nothing, as a call with a bad
\* argument or for a module that is not attached does.
Broker_AddLink(c) == client[c] = "idle" /\ UNCHANGED vars

ClientNext(c) ==
  \/ \E m \in Modules : Broker_AddModule(c, m) \/ Broker_RemoveModule(c, m)
  \/ \E s \in Modules : Broker_Publish(c, s)
  \/ OfferToNext(c) \/ EndPublish(c)
  \/ JoinWorker(c)
  \/ Broker_AddLink(c)

-----------------------------------------------------------------------------
(* module_publish_worker of module m *)

\* The first Lock.
WorkerStart(m) ==
  /\ worker[m] = "start"
  /\ \/ worker' = [worker EXCEPT ![m] = "lock"]
     \/ "Lock" \in MayFail /\ worker' = [worker EXCEPT ![m] = "exited"]
  /\ UNCHANGED <<modules, modules_lock, client, target, publishVars, mq, quit_worker,
                 references, historyVars>>

\* Both loops test quit_worker first.
WorkerQuits(m) ==
  /\ worker[m] = "lock" /\ quit_worker[m]
  /\ worker' = [worker EXCEPT ![m] = "exited"]
  /\ UNCHANGED <<modules, modules_lock, client, target, publishVars, mq, quit_worker,
                 references, historyVars>>

\* Mutant: the worker waits without looking at its queue.
WorkerWaits_unchecked(m) ==
  /\ worker[m] = "lock" /\ ~quit_worker[m]
  /\ worker' = [worker EXCEPT ![m] = "wait"]
  /\ UNCHANGED <<modules, modules_lock, client, target, publishVars, mq, quit_worker,
                 references, historyVars>>

WorkerWaits(m) ==
  /\ worker[m] = "lock" /\ ~quit_worker[m] /\ mq[m] = <<>>
  /\ \/ worker' = [worker EXCEPT ![m] = "wait"]
     \/ "Condition_Wait" \in MayFail /\ worker' = [worker EXCEPT ![m] = "exited"]
  /\ UNCHANGED <<modules, modules_lock, client, target, publishVars, mq, quit_worker,
                 references, historyVars>>

\* A wait may end without a post.
SpuriousWakeup(m) ==
  /\ worker[m] = "wait"
  /\ worker' = [worker EXCEPT ![m] = "lock"]
  /\ UNCHANGED <<modules, modules_lock, client, target, publishVars, mq, quit_worker,
                 references, historyVars>>

\* Mutant: the newest message leaves the queue.
WorkerDelivers_newest(m) ==
  LET k == Len(mq[m]) IN
  /\ worker[m] = "lock" /\ ~quit_worker[m] /\ mq[m] # <<>>
  /\ mq' = [mq EXCEPT ![m] = SubSeq(@, 1, k - 1)]
  /\ received' = [received EXCEPT ![m] = Append(@, mq[m][k])]
  /\ worker' = [worker EXCEPT ![m] = "Module_Receive"]
  /\ UNCHANGED <<modules, modules_lock, client, target, publishVars, quit_worker, references,
                 published, adds>>

\* The oldest message leaves the queue and is handed to the module without
\* mq_lock; if the lock cannot be released the message is destroyed instead.
WorkerDelivers(m) ==
  LET n == Head(mq[m]) IN
  /\ worker[m] = "lock" /\ ~quit_worker[m] /\ mq[m] # <<>>
  /\ mq' = [mq EXCEPT ![m] = Tail(@)]
  /\ \/ /\ received' = [received EXCEPT ![m] = Append(@, n)]
        /\ worker' = [worker EXCEPT ![m] = "Module_Receive"]
        /\ UNCHANGED references
     \/ /\ "Unlock" \in MayFail
        /\ references' = [references EXCEPT ![n] = @ - 1]
        /\ UNCHANGED <<received, worker>>
  /\ UNCHANGED <<modules, modules_lock, client, target, publishVars, quit_worker, published,
                 adds>>

\* Inside Module_Receive: the module may call Broker_Publish, with itself as the
\* source, and waits there for modules_lock.
ReceivePublishes(m) ==
  /\ worker[m] = "Module_Receive" /\ m \in Republishers
  /\ published < MaxPublish
  /\ worker' = [worker EXCEPT ![m] = "Broker_Publish"]
  /\ UNCHANGED <<modules, modules_lock, client, target, publishVars, mq, quit_worker,
                 references, historyVars>>

WorkerPublish(m) ==
  /\ worker[m] = "Broker_Publish"
  /\ BeginPublish(m, m)
  /\ UNCHANGED <<client, worker>>

PublishFails(m) ==
  /\ worker[m] = "Broker_Publish" /\ modules_lock = None
  /\ published = MaxPublish \/ "Lock" \in MayFail
  /\ worker' = [worker EXCEPT ![m] = "Module_Receive"]
  /\ UNCHANGED <<modules, modules_lock, client, target, publishVars, mq, quit_worker,
                 references, historyVars>>

\* Module_Receive returns, the message is destroyed, mq_lock taken again.
ReceiveReturns(m) ==
  /\ worker[m] = "Module_Receive"
  /\ worker' = [worker EXCEPT ![m] = "lock"]
  /\ references' = [references EXCEPT ![received[m][Len(received[m])]] = @ - 1]
  /\ UNCHANGED <<modules, modules_lock, client, target, publishVars, mq, quit_worker,
                 historyVars>>

WorkerNext(m) ==
  \/ WorkerStart(m) \/ WorkerQuits(m) \/ WorkerWaits(m) \/ WorkerDelivers(m)
  \/ ReceivePublishes(m) \/ WorkerPublish(m) \/ PublishFails(m) \/ OfferToNext(m)
  \/ EndPublish(m) \/ ReceiveReturns(m)

-----------------------------------------------------------------------------
Next ==
  \/ \E c \in Clients : ClientNext(c)
  \/ \E m \in Modules : WorkerNext(m) \/ SpuriousWakeup(m)

Spec == Init /\ [][Next]_vars

\* Worker threads are scheduled and Module_Receive returns; a client that has
\* entered a function runs on.  No spurious wakeup is counted on.
Fairness ==
  /\ \A m \in Modules : WF_vars(WorkerNext(m))
  /\ \A c \in Clients : WF_vars(OfferToNext(c) \/ EndPublish(c) \/ JoinWorker(c))

FairSpec == Spec /\ Fairness

-----------------------------------------------------------------------------
TypeOK ==
  /\ modules \in Seq(Modules)
  /\ modules_lock \in Threads \cup {None}
  /\ client \in [Clients -> {"idle", "publish", "join"}]
  /\ {target, source} \subseteq Modules \cup {None}
  /\ rest \in Seq(Modules)
  /\ mq \in [Modules -> Seq(Nat)]
  /\ quit_worker \in [Modules -> BOOLEAN]
  /\ worker \in [Modules -> {"none", "start", "lock", "wait", "Module_Receive",
                             "Broker_Publish", "exited"}]
  /\ references \in [1..MaxPublish -> Nat]
  /\ published \in Nat /\ adds \in Nat
  /\ received \in [Modules -> Seq(Nat)]

\* The list, the queue and the module outlive the worker that uses them:
\* Broker_RemoveModule unlinks and frees them after the thread has ended.
WorkerIsAttached ==
  \A m \in Modules : worker[m] \notin {"none", "exited"} => m \in Attached

\* A worker sleeps only while there is nothing to do: no message and no request
\* to quit can slip in between its test and its wait.
NoLostWakeup ==
  \A m \in Modules : worker[m] = "wait" => mq[m] = <<>> /\ ~quit_worker[m]

Busy == {m \in Modules : worker[m] \in {"Module_Receive", "Broker_Publish"}}
Queued(m) == {mq[m][i] : i \in DOMAIN mq[m]}

\* Who has a reference of message n: its publisher, the modules in whose queue it
\* is and those that are receiving it.
Publisher(n) == IF n = published /\ \E p \in Threads : Publishing(p) THEN {None} ELSE {}
Holders(n) ==
  Publisher(n) \cup {m \in Modules : n \in Queued(m)}
              \cup {m \in Busy : received[m] # <<>> /\ received[m][Len(received[m])] = n}

\* A message is alive as long as somebody has it, and freed with the last: every
\* clone is destroyed once, also those that are never delivered.
ReferencesAreHeld ==
  \A n \in 1..MaxPublish : references[n] = Cardinality(Holders(n))

\* Broker_RemoveModule returns, however full the queue of the module is.
RemoveReturns == \A c \in Clients : client[c] = "join" ~> client[c] = "idle"

\* A message in the queue of a module is handed to it unless the module is being
\* removed.
QueuedMessageArrives ==
  \A m \in Modules, n \in 1..MaxPublish :
    n \in Queued(m) ~> \/ \E i \in DOMAIN received[m] : received[m][i] = n
                       \/ m \notin Attached

\* A published message may still reach the modules that Broker_Publish has not
\* visited yet.
Pending(m) == Queued(m) \cup (IF \E i \in DOMAIN rest : rest[i] = m THEN {published} ELSE {})

Delivery == INSTANCE ModuleDelivery WITH
  attached <- Attached, pending <- [m \in Modules |-> Pending(m)], busy <- Busy

\* Modules receive messages in the order of publication, whatever fails.
InPublicationOrder == Delivery!InPublicationOrder

\* The broadcast broker implements ModuleDelivery too: serial, ordered delivery
\* that ends before Broker_RemoveModule returns.
DeliverySpec == Delivery!Spec

-----------------------------------------------------------------------------
(* The inductive invariant behind WorkerIsAttached *)

\* Whoever is in Broker_Publish or Broker_RemoveModule holds modules_lock, and
\* the module that is removed is still in the list.
LockHolder ==
  \A c \in Clients : /\ client[c] # "idle" => modules_lock = c
                     /\ client[c] = "join" => target \in Attached

AttachedOnce == \A i, j \in DOMAIN modules : modules[i] = modules[j] => i = j

\* A module that is not in the list has no worker.
WorkersOfModules == \A m \in Modules : m \notin Attached => worker[m] = "none"

ListInv == LockHolder /\ AttachedOnce /\ WorkersOfModules
=============================================================================
