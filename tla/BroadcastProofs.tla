--------------------------- MODULE BroadcastProofs ---------------------------
(***************************************************************************)
(* Theorems about BroadcastBroker (core/src/broadcast_broker.c) for every  *)
(* number of modules, clients and messages.                                *)
(***************************************************************************)
EXTENDS BroadcastBroker, Integers, FiniteSetTheorems, TLAPS

\* The entry of a module is freed even when its thread could not be joined.
JoinWorks == "ThreadAPI_Join" \notin MayFail

\* Signals reach the worker that waits for them.
PostWorks == {"Lock", "Condition_Post"} \cap MayFail = {}

\* The types of what decides where the threads are.
Control ==
  /\ modules \in Seq(Modules) /\ rest \in Seq(Modules)
  /\ modules_lock \in Threads \cup {None}
  /\ client \in [Clients -> {"idle", "publish", "join"}]
  /\ target \in Modules \cup {None}
  /\ mq \in [Modules -> Seq(Nat)]
  /\ quit_worker \in [Modules -> BOOLEAN]
  /\ worker \in [Modules -> {"none", "start", "lock", "wait", "Module_Receive",
                             "Broker_Publish", "exited"}]
  /\ published \in Nat

USE DEF publishVars, historyVars, vars

-----------------------------------------------------------------------------
(* The list of modules *)

Items(s) == {s[i] : i \in DOMAIN s}
Once(s) == \A i, j \in DOMAIN s : s[i] = s[j] => i = j

LEMMA AttachedItems ==
  /\ Attached = Items(modules) /\ (AttachedOnce <=> Once(modules))
  /\ Attached' = Items(modules') /\ (AttachedOnce' <=> Once(modules'))
  BY DEF Attached, AttachedOnce, Items, Once

\* A module that is added is one more attached module.
LEMMA AppendAttaches ==
  ASSUME NEW s \in Seq(Modules), NEW m \in Modules, m \notin Items(s), Once(s)
  PROVE  /\ Append(s, m) \in Seq(Modules)
         /\ Items(Append(s, m)) = Items(s) \cup {m}
         /\ Once(Append(s, m))
<1> USE DEF Items, Once
<1> DEFINE t == Append(s, m)
<1>1. /\ t \in Seq(Modules)
      /\ DOMAIN t = DOMAIN s \cup {Len(s) + 1}
      /\ \A i \in DOMAIN s : t[i] = s[i] /\ i # Len(s) + 1
      /\ t[Len(s) + 1] = m
  OBVIOUS
<1> HIDE DEF t
<1>2. {t[i] : i \in DOMAIN t} = {s[i] : i \in DOMAIN s} \cup {m}
  BY <1>1
<1>3. \A i, j \in DOMAIN t : t[i] = t[j] => i = j
  BY <1>1
<1> QED BY <1>1, <1>2, <1>3 DEF t

\* Unlinking one item takes its module, and nothing else, out of the list.
LEMMA WithoutDetaches ==
  ASSUME NEW s \in Seq(Modules), NEW m \in Items(s), Once(s)
  PROVE  /\ Without(s, m) \in Seq(Modules)
         /\ Items(Without(s, m)) = Items(s) \ {m}
         /\ Once(Without(s, m))
<1> USE DEF Items, Once
<1> DEFINE k == CHOOSE i \in DOMAIN s : s[i] = m
           t == Without(s, m)
<1>1. k \in DOMAIN s /\ s[k] = m
  OBVIOUS
<1>2. t = [j \in 1..(Len(s) - 1) |-> IF j < k THEN s[j] ELSE s[j + 1]]
  BY DEF Without
<1> HIDE DEF k, t
<1>3. Len(s) \in Nat /\ DOMAIN s = 1..Len(s) /\ k \in 1..Len(s)
      /\ \A i \in 1..Len(s) : s[i] \in Modules
  BY <1>1
<1>4. /\ DOMAIN t = 1..(Len(s) - 1)
      /\ \A j \in DOMAIN t : /\ j < k => t[j] = s[j] /\ j \in 1..Len(s)
                             /\ ~(j < k) => t[j] = s[j + 1] /\ j + 1 \in 1..Len(s)
  BY <1>2, <1>3
<1>5. t \in Seq(Modules)
  <2>1. t \in [1..(Len(s) - 1) -> Modules]
    BY <1>2, <1>3, <1>4
  <2>2. Len(s) - 1 \in Nat
    BY <1>3
  <2> QED BY <2>1, <2>2
<1>6. \A i, j \in DOMAIN t : t[i] = t[j] => i = j
  BY <1>3, <1>4
<1>7. \A j \in DOMAIN t : t[j] \in {s[i] : i \in DOMAIN s} /\ t[j] # m
  BY <1>1, <1>3, <1>4
<1>8. ASSUME NEW i \in DOMAIN s, s[i] # m
      PROVE  \E j \in DOMAIN t : t[j] = s[i]
  <2>1. CASE i < k
    BY <1>3, <1>4, <2>1
  <2>2. CASE k < i
    <3>1. i - 1 \in DOMAIN t /\ ~(i - 1 < k) /\ (i - 1) + 1 = i
      BY <1>3, <1>4, <2>2
    <3>2. t[i - 1] = s[i]
      BY <1>4, <3>1
    <3> QED BY <3>1, <3>2
  <2> QED BY <1>1, <1>3, <1>8, <2>1, <2>2
<1>9. {t[j] : j \in DOMAIN t} = {s[i] : i \in DOMAIN s} \ {m}
  BY <1>7, <1>8
<1> QED BY <1>5, <1>6, <1>9 DEF t

LEMMA PostKeeps ==
  ASSUME Control, NEW m \in Modules
  PROVE  /\ Post(m, worker) \in [Modules -> {"none", "start", "lock", "wait",
                                  "Module_Receive", "Broker_Publish", "exited"}]
         /\ \A k \in Modules : /\ Post(m, worker)[k] = "none" <=> worker[k] = "none"
                               /\ Post(m, worker)[k] = "wait" => worker[k] = "wait" /\ k # m
  BY DEF Post, Control

-----------------------------------------------------------------------------
(* The list, its lock and the workers *)

\* What holds whether or not threads can be joined, and what follows if they can.
Guarded == LockHolder /\ AttachedOnce /\ (JoinWorks => WorkersOfModules)

LEMMA ListInit == Init => Control /\ Guarded
  BY DEF Init, Control, Guarded, LockHolder, AttachedOnce, WorkersOfModules, Attached

\* An action that leaves the list, its lock and the clients alone, and starts
\* no worker, keeps the invariant.
LEMMA ListKept ==
  ASSUME Guarded, UNCHANGED <<modules, modules_lock, client, target>>,
         \A m \in Modules : worker[m] = "none" => worker'[m] = "none"
  PROVE  Guarded'
  BY DEF Guarded, LockHolder, AttachedOnce, WorkersOfModules, Attached

LEMMA ListBegin ==
  ASSUME Control, Guarded, NEW p \in Threads, NEW s \in Modules, BeginPublish(p, s)
  PROVE  /\ modules_lock' = p /\ modules_lock = None
         /\ UNCHANGED <<modules, target, mq, quit_worker>>
         /\ rest' \in Seq(Modules) /\ published' \in Nat
         /\ \A c \in Clients : client[c] = "idle"
<1>1. \A c \in Clients : client[c] = "idle"
  BY ThreadAssumption DEF BeginPublish, Guarded, LockHolder
<1> QED BY <1>1 DEF BeginPublish, Control

LEMMA ListOffer ==
  ASSUME Control, Guarded, NEW p \in Threads, OfferToNext(p)
  PROVE  Control' /\ Guarded'
<1>1. Head(rest) \in Modules /\ Tail(rest) \in Seq(Modules)
  BY DEF Control, OfferToNext
<1>2. UNCHANGED <<modules, modules_lock, client, target, quit_worker, published>>
      /\ rest' = Tail(rest)
  BY DEF OfferToNext
<1>3. mq' \in [Modules -> Seq(Nat)]
  <2>1. Append(mq[Head(rest)], published) \in Seq(Nat)
    BY <1>1 DEF Control
  <2> QED BY <1>1, <2>1 DEF OfferToNext, Control
<1>4. \/ worker' = worker
      \/ worker' = Post(Head(rest), worker)
  BY DEF OfferToNext
<1>5. /\ worker' \in [Modules -> {"none", "start", "lock", "wait", "Module_Receive",
                                  "Broker_Publish", "exited"}]
      /\ \A m \in Modules : worker[m] = "none" => worker'[m] = "none"
  BY <1>1, <1>4, PostKeeps DEF Control
<1>6. Control'
  BY <1>1, <1>2, <1>3, <1>5 DEF Control
<1> QED BY <1>2, <1>5, <1>6, ListKept

LEMMA ListEnd ==
  ASSUME Control, Guarded, NEW p \in Threads, EndPublish(p)
  PROVE  Control' /\ Guarded'
<1>1. /\ modules_lock = p /\ modules_lock' = None
      /\ UNCHANGED <<modules, target, rest, mq, quit_worker, published>>
  BY DEF EndPublish, Publishing
<1>2. CASE p \in Clients
  <2>1. client' = [client EXCEPT ![p] = "idle"] /\ worker' = worker
    BY <1>2, ThreadAssumption DEF EndPublish
  <2>2. \A c \in Clients : client'[c] = "idle"
    BY <1>1, <2>1 DEF Guarded, LockHolder, Control
  <2>3. Control'
    BY <1>1, <2>1 DEF Control
  <2> QED BY <1>1, <2>1, <2>2, <2>3
          DEF Guarded, LockHolder, AttachedOnce, WorkersOfModules, Attached
<1>3. CASE p \in Modules
  <2>1. client' = client /\ worker' = [worker EXCEPT ![p] = "Module_Receive"]
        /\ worker[p] = "Broker_Publish"
    BY <1>3, ThreadAssumption DEF EndPublish, Publishing
  <2>2. \A c \in Clients : client[c] = "idle"
    BY <1>1, <1>3, ThreadAssumption DEF Guarded, LockHolder
  <2>3. Control'
    BY <1>1, <2>1 DEF Control
  <2>4. \A m \in Modules : worker[m] = "none" => worker'[m] = "none"
    BY <2>1 DEF Control
  <2> QED BY <1>1, <2>1, <2>2, <2>3, <2>4
          DEF Guarded, LockHolder, AttachedOnce, WorkersOfModules, Attached
<1> QED BY <1>2, <1>3 DEF Threads

LEMMA ListClient ==
  ASSUME Control, Guarded, NEW c \in Clients, ClientNext(c)
  PROVE  Control' /\ Guarded'
<1>0. c \in Threads /\ c # None
  BY ThreadAssumption DEF Threads
<1>1. ASSUME NEW m \in Modules, Broker_AddModule(c, m) PROVE Control' /\ Guarded'
  <2>1. /\ client[c] = "idle" /\ modules_lock = None /\ m \notin Attached
        /\ modules' = Append(modules, m)
        /\ mq' = [mq EXCEPT ![m] = <<>>]
        /\ quit_worker' = [quit_worker EXCEPT ![m] = FALSE]
        /\ worker' = [worker EXCEPT ![m] = "start"]
        /\ UNCHANGED <<modules_lock, client, target, rest, published>>
    BY <1>1 DEF Broker_AddModule, CanLock, init_module, start_module
  <2>2. modules' \in Seq(Modules) /\ Attached' = Attached \cup {m} /\ AttachedOnce'
    <3>1. modules \in Seq(Modules) /\ AttachedOnce
      BY DEF Control, Guarded
    <3> QED BY <2>1, <3>1, AttachedItems, AppendAttaches
  <2>3. Control'
    <3>1. <<>> \in Seq(Nat)
      OBVIOUS
    <3> QED BY <2>1, <2>2, <3>1 DEF Control
  <2>4. LockHolder'
    BY <2>1, <2>2 DEF Guarded, LockHolder
  <2>5. JoinWorks => WorkersOfModules'
    BY <2>1, <2>2 DEF Guarded, WorkersOfModules, Control
  <2> QED BY <2>2, <2>3, <2>4, <2>5 DEF Guarded
<1>2. ASSUME NEW m \in Modules, Broker_RemoveModule(c, m) PROVE Control' /\ Guarded'
  <2>1. /\ client[c] = "idle" /\ modules_lock = None /\ m \in Attached
        /\ modules_lock' = c /\ client' = [client EXCEPT ![c] = "join"] /\ target' = m
        /\ quit_worker' = [quit_worker EXCEPT ![m] = TRUE]
        /\ worker' = worker \/ worker' = Post(m, worker)
        /\ UNCHANGED <<modules, rest, mq, published>>
    BY <1>2 DEF Broker_RemoveModule, CanLock
  <2>2. Attached' = Attached
    BY <2>1 DEF Attached
  <2>3. /\ worker' \in [Modules -> {"none", "start", "lock", "wait", "Module_Receive",
                                    "Broker_Publish", "exited"}]
        /\ \A k \in Modules : worker[k] = "none" => worker'[k] = "none"
    BY <2>1, PostKeeps DEF Control
  <2>4. Control'
    BY <1>0, <2>1, <2>3 DEF Control
  <2>5. LockHolder'
    <3>1. \A d \in Clients : client[d] = "idle"
      BY <2>1, ThreadAssumption DEF Guarded, LockHolder
    <3> QED BY <2>1, <2>2, <3>1 DEF LockHolder, Control
  <2>6. AttachedOnce' /\ (JoinWorks => WorkersOfModules')
    BY <2>1, <2>2, <2>3 DEF Guarded, AttachedOnce, WorkersOfModules
  <2> QED BY <2>4, <2>5, <2>6 DEF Guarded
<1>3. ASSUME NEW s \in Modules, Broker_Publish(c, s) PROVE Control' /\ Guarded'
  <2>1. BeginPublish(c, s) /\ client' = [client EXCEPT ![c] = "publish"]
        /\ worker' = worker
    BY <1>3 DEF Broker_Publish
  <2>2. /\ modules_lock' = c /\ modules_lock = None
        /\ UNCHANGED <<modules, target, mq, quit_worker>>
        /\ rest' \in Seq(Modules) /\ published' \in Nat
        /\ \A d \in Clients : client[d] = "idle"
    BY <1>0, <2>1, ListBegin
  <2>3. Control'
    BY <1>0, <2>1, <2>2 DEF Control
  <2> QED BY <2>1, <2>2, <2>3
          DEF Guarded, LockHolder, AttachedOnce, WorkersOfModules, Attached, Control
<1>4. CASE OfferToNext(c)
  BY <1>0, <1>4, ListOffer
<1>5. CASE EndPublish(c)
  BY <1>0, <1>5, ListEnd
<1>6. CASE JoinWorker(c)
  <2>1. /\ client[c] = "join" /\ modules_lock = c /\ target \in Attached
        /\ \/ worker[target] = "exited" /\ worker' = [worker EXCEPT ![target] = "none"]
           \/ ~JoinWorks /\ worker' = worker
        /\ mq' = [mq EXCEPT ![target] = <<>>]
        /\ modules' = Without(modules, target)
        /\ modules_lock' = None /\ client' = [client EXCEPT ![c] = "idle"]
        /\ target' = None
        /\ UNCHANGED <<rest, quit_worker, published>>
    BY <1>6 DEF JoinWorker, JoinWorks, Guarded, LockHolder
  <2>2. modules' \in Seq(Modules) /\ Attached' = Attached \ {target} /\ AttachedOnce'
    <3>1. modules \in Seq(Modules) /\ AttachedOnce
      BY DEF Control, Guarded
    <3> QED BY <2>1, <3>1, AttachedItems, WithoutDetaches
  <2>3. Control'
    <3>1. <<>> \in Seq(Nat)
      OBVIOUS
    <3> QED BY <2>1, <2>2, <3>1 DEF Control
  <2>4. LockHolder'
    BY <2>1 DEF Guarded, LockHolder, Control
  <2>5. JoinWorks => WorkersOfModules'
    BY <2>1, <2>2 DEF Guarded, WorkersOfModules, Control
  <2> QED BY <2>2, <2>3, <2>4, <2>5 DEF Guarded
<1>7. CASE Broker_AddLink(c)
  BY <1>7 DEF Broker_AddLink, Control, Guarded, LockHolder, AttachedOnce,
              WorkersOfModules, Attached
<1> QED BY <1>1, <1>2, <1>3, <1>4, <1>5, <1>6, <1>7 DEF ClientNext

LEMMA ListWorker ==
  ASSUME Control, Guarded, NEW m \in Modules, WorkerNext(m) \/ SpuriousWakeup(m)
  PROVE  Control' /\ Guarded'
<1>0. m \in Threads
  BY DEF Threads
<1>1. CASE \/ WorkerStart(m) \/ WorkerQuits(m) \/ WorkerWaits(m) \/ ReceivePublishes(m)
           \/ PublishFails(m) \/ ReceiveReturns(m) \/ SpuriousWakeup(m)
  <2>1. /\ UNCHANGED <<modules, modules_lock, client, target, rest, mq, quit_worker,
                       published>>
        /\ worker[m] # "none"
        /\ \E w \in {"lock", "wait", "Module_Receive", "Broker_Publish", "exited"} :
             worker' = [worker EXCEPT ![m] = w]
    BY <1>1 DEF WorkerStart, WorkerQuits, WorkerWaits, ReceivePublishes, PublishFails,
                ReceiveReturns, SpuriousWakeup
  <2>2. Control' /\ \A k \in Modules : worker[k] = "none" => worker'[k] = "none"
    BY <2>1 DEF Control
  <2> QED BY <2>1, <2>2, ListKept
<1>2. CASE WorkerDelivers(m)
  <2>1. /\ UNCHANGED <<modules, modules_lock, client, target, rest, quit_worker,
                       published>>
        /\ mq[m] # <<>> /\ mq' = [mq EXCEPT ![m] = Tail(@)]
        /\ worker[m] = "lock"
        /\ worker' = worker \/ worker' = [worker EXCEPT ![m] = "Module_Receive"]
    BY <1>2 DEF WorkerDelivers
  <2>2. Tail(mq[m]) \in Seq(Nat)
    BY <2>1 DEF Control
  <2>3. Control' /\ \A k \in Modules : worker[k] = "none" => worker'[k] = "none"
    BY <2>1, <2>2 DEF Control
  <2> QED BY <2>1, <2>3, ListKept
<1>3. CASE WorkerPublish(m)
  <2>1. BeginPublish(m, m) /\ UNCHANGED <<client, worker>>
    BY <1>3 DEF WorkerPublish
  <2>2. /\ modules_lock' = m /\ modules_lock = None
        /\ UNCHANGED <<modules, target, mq, quit_worker>>
        /\ rest' \in Seq(Modules) /\ published' \in Nat
        /\ \A d \in Clients : client[d] = "idle"
    BY <1>0, <2>1, ListBegin
  <2>3. Control'
    BY <1>0, <2>1, <2>2 DEF Control
  <2> QED BY <2>1, <2>2, <2>3
          DEF Guarded, LockHolder, AttachedOnce, WorkersOfModules, Attached
<1>4. CASE OfferToNext(m)
  BY <1>0, <1>4, ListOffer
<1>5. CASE EndPublish(m)
  BY <1>0, <1>5, ListEnd
<1> QED BY <1>1, <1>2, <1>3, <1>4, <1>5 DEF WorkerNext

\* The list, its lock and the workers stay consistent, whatever fails.
LEMMA GuardedAlways == Spec => [](Control /\ Guarded)
<1>1. Control /\ Guarded /\ [Next]_vars => (Control /\ Guarded)'
  <2>1. ASSUME Control, Guarded, UNCHANGED vars PROVE Control' /\ Guarded'
    BY <2>1 DEF Control, Guarded, JoinWorks, LockHolder, AttachedOnce, WorkersOfModules, Attached
  <2> QED BY <2>1, ListClient, ListWorker DEF Next
<1> QED BY <1>1, ListInit, PTL DEF Spec

\* A removal holds modules_lock and its module stays in the list until the
\* worker has ended; the list holds a module once.
THEOREM Invariance == ASSUME JoinWorks PROVE Spec => []ListInv
<1>1. Guarded => ListInv
  BY DEF Guarded, ListInv
<1> QED BY <1>1, GuardedAlways, PTL

\* The worker of a module never runs in an entry that was freed.
THEOREM WorkerSafety == ASSUME JoinWorks PROVE Spec => []WorkerIsAttached
<1>1. ListInv => WorkerIsAttached
  BY DEF ListInv, WorkersOfModules, WorkerIsAttached
<1> QED BY <1>1, Invariance, PTL

-----------------------------------------------------------------------------
(* Signals *)

\* No worker goes to sleep on a message or on a request to quit: whoever makes
\* one of them wakes it under the same lock.
THEOREM WorkersAreWoken == ASSUME PostWorks PROVE Spec => []NoLostWakeup
<1>1. Init => NoLostWakeup
  BY DEF Init, NoLostWakeup
<1>2. Control /\ NoLostWakeup /\ [Next]_vars => NoLostWakeup'
  <2> SUFFICES ASSUME Control, NoLostWakeup, [Next]_vars, NEW k \in Modules,
                      worker'[k] = "wait"
               PROVE  mq'[k] = <<>> /\ ~quit_worker'[k]
    BY DEF NoLostWakeup
  <2>1. ASSUME NEW p \in Threads, OfferToNext(p)
        PROVE  mq'[k] = <<>> /\ ~quit_worker'[k]
    <3>1. Head(rest) \in Modules
      BY <2>1 DEF OfferToNext, Control
    <3>2. quit_worker' = quit_worker
          /\ \/ mq' = mq /\ worker' = worker
             \/ /\ worker' = Post(Head(rest), worker)
                /\ mq' = [mq EXCEPT ![Head(rest)] = Append(@, published)]
             \/ "Condition_Post" \in MayFail
             \/ mq' = mq /\ worker' = worker
      BY <2>1 DEF OfferToNext
    <3>3. CASE mq' = mq /\ worker' = worker
      BY <3>2, <3>3 DEF NoLostWakeup
    <3>4. CASE /\ worker' = Post(Head(rest), worker)
               /\ mq' = [mq EXCEPT ![Head(rest)] = Append(@, published)]
      BY <3>1, <3>2, <3>4, PostKeeps DEF NoLostWakeup, Control
    <3> QED BY <3>2, <3>3, <3>4 DEF PostWorks
  <2>2. ASSUME NEW p \in Threads, EndPublish(p)
        PROVE  mq'[k] = <<>> /\ ~quit_worker'[k]
    BY <2>2 DEF EndPublish, Publishing, NoLostWakeup, Control, Threads
  <2>3. ASSUME NEW c \in Clients, NEW m \in Modules, Broker_AddModule(c, m)
        PROVE  mq'[k] = <<>> /\ ~quit_worker'[k]
    BY <2>3 DEF Broker_AddModule, init_module, start_module, NoLostWakeup, Control
  <2>4. ASSUME NEW c \in Clients, NEW m \in Modules, Broker_RemoveModule(c, m)
        PROVE  mq'[k] = <<>> /\ ~quit_worker'[k]
    <3>1. /\ worker' = Post(m, worker) /\ mq' = mq
          /\ quit_worker' = [quit_worker EXCEPT ![m] = TRUE]
      BY <2>4 DEF Broker_RemoveModule, PostWorks
    <3> QED BY <3>1, PostKeeps DEF NoLostWakeup, Control
  <2>5. ASSUME NEW c \in Clients, NEW m \in Modules, Broker_Publish(c, m)
        PROVE  mq'[k] = <<>> /\ ~quit_worker'[k]
    BY <2>5 DEF Broker_Publish, BeginPublish, NoLostWakeup
  <2>6. ASSUME NEW c \in Clients, JoinWorker(c)
        PROVE  mq'[k] = <<>> /\ ~quit_worker'[k]
    BY <2>6 DEF JoinWorker, NoLostWakeup, Control
  <2>7. ASSUME NEW c \in Clients, Broker_AddLink(c)
        PROVE  mq'[k] = <<>> /\ ~quit_worker'[k]
    BY <2>7 DEF Broker_AddLink, NoLostWakeup
  <2>8. ASSUME NEW m \in Modules, WorkerWaits(m)
        PROVE  mq'[k] = <<>> /\ ~quit_worker'[k]
    BY <2>8 DEF WorkerWaits, NoLostWakeup, Control
  <2>9. ASSUME NEW m \in Modules,
               \/ WorkerStart(m) \/ WorkerQuits(m) \/ ReceivePublishes(m)
               \/ WorkerPublish(m) \/ PublishFails(m) \/ ReceiveReturns(m)
               \/ SpuriousWakeup(m)
        PROVE  mq'[k] = <<>> /\ ~quit_worker'[k]
    BY <2>9 DEF WorkerStart, WorkerQuits, ReceivePublishes, WorkerPublish, BeginPublish,
                PublishFails, ReceiveReturns, SpuriousWakeup, NoLostWakeup, Control
  <2>10. ASSUME NEW m \in Modules, WorkerDelivers(m)
         PROVE  mq'[k] = <<>> /\ ~quit_worker'[k]
    BY <2>10 DEF WorkerDelivers, NoLostWakeup, Control
  <2>11. CASE UNCHANGED vars
    BY <2>11 DEF NoLostWakeup
  <2> QED BY <2>1, <2>2, <2>3, <2>4, <2>5, <2>6, <2>7, <2>8, <2>9, <2>10, <2>11
          DEF Next, ClientNext, WorkerNext, Threads
<1> QED BY <1>1, <1>2, GuardedAlways, PTL DEF Spec

-----------------------------------------------------------------------------
(* Order of delivery *)

\* What a module received and what waits in its queue rise together, up to top.
Rising(r, q, top) ==
  /\ \A i \in DOMAIN r : r[i] <= top
  /\ \A i \in DOMAIN q : q[i] <= top
  /\ \A i, j \in DOMAIN r : i < j => r[i] < r[j]
  /\ \A i, j \in DOMAIN q : i < j => q[i] < q[j]
  /\ \A i \in DOMAIN r, j \in DOMAIN q : r[i] < q[j]

LEMMA RisingKept ==
  ASSUME NEW r \in Seq(Nat), NEW q \in Seq(Nat), NEW top \in Int, NEW up \in Int,
         top <= up, Rising(r, q, top)
  PROVE  Rising(r, q, up) /\ Rising(r, <<>>, up)
  BY DEF Rising

LEMMA RisingAppend ==
  ASSUME NEW r \in Seq(Nat), NEW q \in Seq(Nat), NEW top \in Int, NEW n \in Nat,
         top < n, Rising(r, q, top)
  PROVE  Rising(r, Append(q, n), n)
<1> DEFINE t == Append(q, n)
<1>1. /\ DOMAIN t = DOMAIN q \cup {Len(q) + 1}
      /\ \A i \in DOMAIN q : t[i] = q[i] /\ i < Len(q) + 1 /\ q[i] \in Nat /\ i \in Nat
      /\ t[Len(q) + 1] = n /\ Len(q) \in Nat
      /\ \A i \in DOMAIN r : r[i] \in Nat
  OBVIOUS
<1> HIDE DEF t
<1>2. /\ \A i \in DOMAIN r : r[i] < n
      /\ \A i \in DOMAIN q : q[i] < n
  BY <1>1 DEF Rising
<1>3. \A i, j \in DOMAIN t : i < j => t[i] < t[j]
  <2> SUFFICES ASSUME NEW i \in DOMAIN t, NEW j \in DOMAIN t, i < j PROVE t[i] < t[j]
    OBVIOUS
  <2>1. CASE j \in DOMAIN q
    BY <1>1, <2>1 DEF Rising
  <2>2. CASE j = Len(q) + 1
    BY <1>1, <1>2, <2>2
  <2> QED BY <1>1, <2>1, <2>2
<1>4. \A i \in DOMAIN t : t[i] <= n
  BY <1>1, <1>2
<1>5. \A i \in DOMAIN r, j \in DOMAIN t : r[i] < t[j]
  BY <1>1, <1>2 DEF Rising
<1> QED BY <1>1, <1>2, <1>3, <1>4, <1>5 DEF Rising, t

\* The oldest message leaves the queue, to be received or to be destroyed.
LEMMA RisingHead ==
  ASSUME NEW r \in Seq(Nat), NEW q \in Seq(Nat), NEW top \in Int, q # <<>>,
         Rising(r, q, top)
  PROVE  Rising(r, Tail(q), top) /\ Rising(Append(r, Head(q)), Tail(q), top)
<1> DEFINE t == Tail(q)
           s == Append(r, Head(q))
<1>1. /\ Head(q) = q[1] /\ 1 \in DOMAIN q
      /\ \A i \in DOMAIN t : t[i] = q[i + 1] /\ i + 1 \in DOMAIN q /\ 1 < i + 1 /\ i \in Nat
      /\ \A i \in DOMAIN q : q[i] \in Nat
  OBVIOUS
<1>2. /\ DOMAIN s = DOMAIN r \cup {Len(r) + 1}
      /\ \A i \in DOMAIN r : s[i] = r[i] /\ i < Len(r) + 1 /\ r[i] \in Nat /\ i \in Nat
      /\ s[Len(r) + 1] = q[1] /\ Len(r) \in Nat
  BY <1>1
<1> HIDE DEF t, s
<1>3. /\ \A i \in DOMAIN t : t[i] <= top /\ q[1] < t[i]
      /\ \A i, j \in DOMAIN t : i < j => t[i] < t[j]
      /\ \A i \in DOMAIN r, j \in DOMAIN t : r[i] < t[j]
  BY <1>1 DEF Rising
<1>4. /\ \A i \in DOMAIN s : s[i] <= top
      /\ \A i \in DOMAIN s, j \in DOMAIN t : s[i] < t[j]
  BY <1>1, <1>2, <1>3 DEF Rising
<1>5. \A i, j \in DOMAIN s : i < j => s[i] < s[j]
  <2> SUFFICES ASSUME NEW i \in DOMAIN s, NEW j \in DOMAIN s, i < j PROVE s[i] < s[j]
    OBVIOUS
  <2>1. CASE j \in DOMAIN r
    BY <1>2, <2>1 DEF Rising
  <2>2. CASE j = Len(r) + 1
    BY <1>1, <1>2, <2>2 DEF Rising
  <2> QED BY <1>2, <2>1, <2>2
<1>6. Rising(r, t, top) /\ Rising(s, t, top)
  BY <1>3, <1>4, <1>5 DEF Rising
<1> QED BY <1>6 DEF s, t

\* The message that Broker_Publish distributes has yet to come to the modules in
\* rest.
Limit(k) == IF k \in Items(rest) THEN published - 1 ELSE published

InOrder == \A k \in Modules : Rising(received[k], mq[k], Limit(k))

\* The loop of Broker_Publish has something left only under modules_lock, and
\* then nobody is removing a module.
LoopIsLocked ==
  rest # <<>> => modules_lock # None /\ \A c \in Clients : client[c] # "join"

Stream ==
  /\ received \in [Modules -> Seq(Nat)]
  /\ Once(rest) /\ LoopIsLocked /\ InOrder

LEMMA FirstOfOnce ==
  ASSUME NEW s \in Seq(Modules), Once(s), s # <<>>
  PROVE  /\ Head(s) \in Items(s) /\ Head(s) \in Modules
         /\ Items(Tail(s)) = Items(s) \ {Head(s)} /\ Once(Tail(s))
<1>1. /\ Head(s) = s[1] /\ 1 \in DOMAIN s
      /\ \A i \in DOMAIN Tail(s) : Tail(s)[i] = s[i + 1] /\ i + 1 \in DOMAIN s /\ i + 1 # 1
                                   /\ i \in Nat
      /\ \A i \in DOMAIN s : i # 1 => i - 1 \in DOMAIN Tail(s) /\ (i - 1) + 1 = i
  OBVIOUS
<1>2. Head(s) \in Items(s) /\ Head(s) \in Modules
  BY <1>1 DEF Items
<1>3. Once(Tail(s))
  BY <1>1 DEF Once
<1>4. ASSUME NEW x \in Items(Tail(s)) PROVE x \in Items(s) /\ x # Head(s)
  BY <1>1 DEF Items, Once
<1>5. ASSUME NEW x \in Items(s), x # Head(s) PROVE x \in Items(Tail(s))
  <2>1. PICK i \in DOMAIN s : x = s[i]
    BY DEF Items
  <2>2. i - 1 \in DOMAIN Tail(s) /\ Tail(s)[i - 1] = x
    BY <1>1, <1>5, <2>1
  <2> QED BY <2>2 DEF Items
<1> QED BY <1>2, <1>3, <1>4, <1>5

LEMMA StreamTypes ==
  ASSUME Control, Stream, NEW k \in Modules
  PROVE  /\ received[k] \in Seq(Nat) /\ mq[k] \in Seq(Nat)
         /\ published \in Nat /\ Limit(k) \in Int
         /\ Rising(received[k], mq[k], Limit(k))
  BY DEF Control, Stream, InOrder, Limit

\* An action that leaves the messages alone.
LEMMA StreamKept ==
  ASSUME Control, Stream, UNCHANGED <<mq, rest, published, received>>,
         rest # <<>> => /\ modules_lock' = modules_lock
                        /\ \A c \in Clients : client'[c] = client[c]
  PROVE  Stream'
  BY DEF Stream, InOrder, Limit, LoopIsLocked, Items, Once

\* A queue is emptied when its module comes or goes.
LEMMA StreamEmptied ==
  ASSUME Control, Stream, NEW m \in Modules, mq' = [mq EXCEPT ![m] = <<>>],
         UNCHANGED <<rest, published, received>>, rest = <<>>
  PROVE  Stream'
<1>1. \A k \in Modules : Limit(k)' = Limit(k) /\ mq'[k] \in {mq[k], <<>>}
  BY DEF Limit, Items, Control
<1>2. InOrder'
  <2> SUFFICES ASSUME NEW k \in Modules PROVE Rising(received[k], mq'[k], Limit(k))
    BY <1>1 DEF InOrder
  <2> QED BY <1>1, StreamTypes, RisingKept
<1> QED BY <1>2 DEF Stream, LoopIsLocked, Once

LEMMA StreamBegin ==
  ASSUME Control, Guarded, Stream, NEW p \in Threads, NEW s \in Modules,
         BeginPublish(p, s),
         \A c \in Clients : client[c] = "idle" => client'[c] # "join"
  PROVE  Stream'
<1>1. /\ rest' = modules /\ published' = published + 1 /\ UNCHANGED <<mq, received>>
      /\ modules_lock = None /\ modules_lock' = p /\ p # None
  BY ThreadAssumption DEF BeginPublish, Threads
<1>2. rest = <<>> /\ Items(rest) = {}
  BY <1>1 DEF Stream, LoopIsLocked, Items
<1>3. \A k \in Modules : /\ Limit(k) = published
                         /\ Limit(k)' \in Int /\ Limit(k) <= Limit(k)'
  BY <1>1, <1>2 DEF Limit, Control
<1>4. InOrder'
  <2> SUFFICES ASSUME NEW k \in Modules PROVE Rising(received[k], mq[k], Limit(k)')
    BY <1>1 DEF InOrder
  <2> QED BY <1>3, StreamTypes, RisingKept
<1>5. Once(rest')
  BY <1>1, AttachedItems DEF Guarded
<1>6. LoopIsLocked'
  BY <1>1, ListBegin DEF LoopIsLocked
<1> QED BY <1>1, <1>4, <1>5, <1>6 DEF Stream

LEMMA StreamOffer ==
  ASSUME Control, Stream, NEW p \in Threads, OfferToNext(p)
  PROVE  Stream'
<1> DEFINE h == Head(rest)
<1>1. /\ rest # <<>> /\ rest' = Tail(rest) /\ rest \in Seq(Modules)
      /\ UNCHANGED <<published, received, modules_lock, client>>
      /\ mq' = mq \/ mq' = [mq EXCEPT ![h] = Append(@, published)]
  BY DEF OfferToNext, Control
<1>2. /\ h \in Items(rest) /\ h \in Modules
      /\ Items(rest)' = Items(rest) \ {h} /\ Once(rest')
  BY <1>1, FirstOfOnce DEF Stream
<1> HIDE DEF h
<1>3. InOrder'
  <2> SUFFICES ASSUME NEW k \in Modules PROVE Rising(received[k], mq'[k], Limit(k)')
    BY <1>1 DEF InOrder
  <2>0. published \in Nat
    BY DEF Control
  <2>1. CASE k # h
    <3>1. mq'[k] = mq[k] /\ Limit(k)' = Limit(k)
      BY <1>1, <1>2, <2>1 DEF Limit, Control
    <3> QED BY <3>1, StreamTypes
  <2>2. CASE k = h
    <3>1. Limit(k) = published - 1 /\ Limit(k)' = published
          /\ Limit(k) < published /\ Limit(k) <= published /\ published \in Int
      BY <1>1, <1>2, <2>0, <2>2 DEF Limit
    <3>2. mq'[k] = mq[k] \/ mq'[k] = Append(mq[k], published)
      BY <1>1, <1>2, <2>2 DEF Control
    <3>3. Rising(received[k], mq[k], published)
      BY <3>1, StreamTypes, RisingKept
    <3>4. Rising(received[k], Append(mq[k], published), published)
      BY <2>0, <3>1, StreamTypes, RisingAppend
    <3> QED BY <3>1, <3>2, <3>3, <3>4
  <2> QED BY <2>1, <2>2
<1>4. LoopIsLocked'
  BY <1>1 DEF Stream, LoopIsLocked
<1> QED BY <1>1, <1>2, <1>3, <1>4 DEF Stream

LEMMA StreamClient ==
  ASSUME Control, Guarded, Stream, NEW c \in Clients, ClientNext(c)
  PROVE  Stream'
<1>0. c \in Threads
  BY DEF Threads
<1>1. ASSUME NEW m \in Modules, Broker_AddModule(c, m) PROVE Stream'
  <2>1. /\ mq' = [mq EXCEPT ![m] = <<>>] /\ UNCHANGED <<rest, published, received>>
        /\ modules_lock = None
    BY <1>1 DEF Broker_AddModule, CanLock, init_module
  <2> QED BY <2>1, StreamEmptied DEF Stream, LoopIsLocked
<1>2. ASSUME NEW m \in Modules, Broker_RemoveModule(c, m) PROVE Stream'
  <2>1. UNCHANGED <<mq, rest, published, received>> /\ modules_lock = None
    BY <1>2 DEF Broker_RemoveModule, CanLock
  <2> QED BY <2>1, StreamKept DEF Stream, LoopIsLocked
<1>3. ASSUME NEW s \in Modules, Broker_Publish(c, s) PROVE Stream'
  <2>1. BeginPublish(c, s) /\ client' = [client EXCEPT ![c] = "publish"]
    BY <1>3 DEF Broker_Publish
  <2> QED BY <1>0, <2>1, StreamBegin DEF Control
<1>4. CASE OfferToNext(c)
  BY <1>0, <1>4, StreamOffer
<1>5. CASE EndPublish(c)
  BY <1>5, StreamKept DEF EndPublish
<1>6. CASE JoinWorker(c)
  <2>1. /\ mq' = [mq EXCEPT ![target] = <<>>] /\ UNCHANGED <<rest, published, received>>
        /\ client[c] = "join"
    BY <1>6 DEF JoinWorker
  <2>2. rest = <<>> /\ target \in Modules
    BY <2>1 DEF Stream, LoopIsLocked, Guarded, LockHolder, Attached, Control
  <2> QED BY <2>1, <2>2, StreamEmptied
<1>7. CASE Broker_AddLink(c)
  BY <1>7, StreamKept DEF Broker_AddLink
<1> QED BY <1>1, <1>2, <1>3, <1>4, <1>5, <1>6, <1>7 DEF ClientNext

LEMMA StreamWorker ==
  ASSUME Control, Guarded, Stream, NEW m \in Modules, WorkerNext(m) \/ SpuriousWakeup(m)
  PROVE  Stream'
<1>0. m \in Threads
  BY DEF Threads
<1>1. CASE \/ WorkerStart(m) \/ WorkerQuits(m) \/ WorkerWaits(m) \/ ReceivePublishes(m)
           \/ PublishFails(m) \/ ReceiveReturns(m) \/ SpuriousWakeup(m)
  BY <1>1, StreamKept DEF WorkerStart, WorkerQuits, WorkerWaits, ReceivePublishes,
                          PublishFails, ReceiveReturns, SpuriousWakeup
<1>2. CASE WorkerDelivers(m)
  <2>1. /\ mq[m] # <<>> /\ mq' = [mq EXCEPT ![m] = Tail(mq[m])]
        /\ UNCHANGED <<modules_lock, client, rest, published>>
        /\ \/ received' = received
           \/ received' = [received EXCEPT ![m] = Append(received[m], Head(mq[m]))]
    BY <1>2 DEF WorkerDelivers
  <2>2. received' \in [Modules -> Seq(Nat)]
    <3>1. Append(received[m], Head(mq[m])) \in Seq(Nat)
      BY <2>1, StreamTypes
    <3> QED BY <2>1, <3>1 DEF Stream
  <2>3. InOrder'
    <3> SUFFICES ASSUME NEW k \in Modules PROVE Rising(received'[k], mq'[k], Limit(k))
      BY <2>1 DEF InOrder, Limit, Items
    <3>1. CASE k # m
      BY <2>1, <3>1, StreamTypes DEF Stream, Control
    <3>2. CASE k = m
      <4>1. mq'[k] = Tail(mq[k])
            /\ received'[k] \in {received[k], Append(received[k], Head(mq[k]))}
        BY <2>1, <3>2 DEF Stream, Control
      <4>2. /\ received[k] \in Seq(Nat) /\ mq[k] \in Seq(Nat) /\ Limit(k) \in Int
            /\ mq[k] # <<>>
        BY <2>1, <3>2, StreamTypes
      <4>3. Rising(received[k], mq[k], Limit(k))
        BY DEF Stream, InOrder
      <4>4. /\ Rising(received[k], Tail(mq[k]), Limit(k))
            /\ Rising(Append(received[k], Head(mq[k])), Tail(mq[k]), Limit(k))
        BY <4>2, <4>3, RisingHead
      <4> QED BY <4>1, <4>4
    <3> QED BY <3>1, <3>2
  <2> QED BY <2>1, <2>2, <2>3 DEF Stream, Once, LoopIsLocked
<1>3. CASE WorkerPublish(m)
  BY <1>0, <1>3, StreamBegin DEF WorkerPublish
<1>4. CASE OfferToNext(m)
  BY <1>0, <1>4, StreamOffer
<1>5. CASE EndPublish(m)
  BY <1>5, StreamKept DEF EndPublish
<1> QED BY <1>1, <1>2, <1>3, <1>4, <1>5 DEF WorkerNext

LEMMA StreamAlways == Spec => []Stream
<1>1. Init => Stream
  BY DEF Init, Stream, InOrder, Rising, LoopIsLocked, Once
<1>2. Control /\ Guarded /\ Stream /\ [Next]_vars => Stream'
  <2>1. ASSUME Control, Stream, UNCHANGED vars PROVE Stream'
    BY <2>1, StreamKept
  <2> QED BY <2>1, StreamClient, StreamWorker DEF Next
<1> QED BY <1>1, <1>2, GuardedAlways, PTL DEF Spec

\* Modules receive messages in the order of publication, whatever platform
\* calls fail: a clone that is missed leaves a gap and nothing else.
THEOREM DeliveryInOrder == Spec => []InPublicationOrder
<1>1. Stream => InPublicationOrder
  <2> SUFFICES ASSUME Stream, NEW k \in Modules,
                      NEW i \in 1..Len(received[k]), NEW j \in 1..Len(received[k]),
                      i < j
               PROVE  received[k][i] < received[k][j]
    BY DEF InPublicationOrder, Delivery!InPublicationOrder
  <2>1. DOMAIN received[k] = 1..Len(received[k])
    BY DEF Stream
  <2> QED BY <2>1 DEF Stream, InOrder, Rising
<1> QED BY <1>1, StreamAlways, PTL

-----------------------------------------------------------------------------
(* Refinement of ModuleDelivery *)

LEMMA PendingItems ==
  ASSUME NEW k \in Modules
  PROVE  /\ Pending(k) = Queued(k) \cup (IF k \in Items(rest) THEN {published} ELSE {})
         /\ Pending(k)' = Queued(k)' \cup
                           (IF k \in Items(rest') THEN {published'} ELSE {})
<1>1. /\ (\E i \in DOMAIN rest : rest[i] = k) <=> k \in Items(rest)
      /\ (\E i \in DOMAIN rest' : rest'[i] = k) <=> k \in Items(rest')
  BY DEF Items
<1> QED BY <1>1 DEF Pending

\* Reading the first message takes what is not newer out of the queue.
LEMMA QueuedOfTail ==
  ASSUME NEW r \in Seq(Nat), NEW q \in Seq(Nat), NEW top \in Int, q # <<>>,
         Rising(r, q, top)
  PROVE  /\ Head(q) \in Items(q) /\ Head(q) <= top /\ Head(q) \in Nat
         /\ Items(Tail(q)) = {n \in Items(q) : n > Head(q)}
<1> DEFINE t == Tail(q)
<1>1. /\ Head(q) = q[1] /\ 1 \in DOMAIN q
      /\ \A i \in DOMAIN t : t[i] = q[i + 1] /\ i + 1 \in DOMAIN q /\ 1 < i + 1
      /\ \A i \in DOMAIN q : i # 1 => i - 1 \in DOMAIN t /\ (i - 1) + 1 = i
      /\ \A i \in DOMAIN q : q[i] \in Nat
  OBVIOUS
<1> HIDE DEF t
<1>2. ASSUME NEW x \in Items(t) PROVE x \in Items(q) /\ x > Head(q)
  BY <1>1 DEF Items, Rising
<1>3. ASSUME NEW x \in Items(q), x > Head(q) PROVE x \in Items(t)
  <2>1. PICK i \in DOMAIN q : x = q[i]
    BY DEF Items
  <2>2. i # 1
    BY <1>1, <1>3, <2>1
  <2>3. i - 1 \in DOMAIN t /\ t[i - 1] = x
    BY <1>1, <2>1, <2>2
  <2> QED BY <2>3 DEF Items
<1>4. Items(t) = {n \in Items(q) : n > Head(q)}
  BY <1>2, <1>3
<1>5. Head(q) \in Items(q) /\ Head(q) <= top /\ Head(q) \in Nat
  BY <1>1 DEF Items, Rising
<1> QED BY <1>4, <1>5 DEF t

LEMMA QueuedOfAppend ==
  ASSUME NEW q \in Seq(Nat), NEW n \in Nat
  PROVE  Items(Append(q, n)) = Items(q) \cup {n}
<1> DEFINE t == Append(q, n)
<1>1. /\ DOMAIN t = DOMAIN q \cup {Len(q) + 1}
      /\ \A i \in DOMAIN q : t[i] = q[i]
      /\ t[Len(q) + 1] = n
  OBVIOUS
<1> HIDE DEF t
<1>2. Items(t) = Items(q) \cup {n}
  BY <1>1 DEF Items
<1> QED BY <1>2 DEF t

LEMMA QueuedItems ==
  ASSUME NEW k \in Modules
  PROVE  Queued(k) = Items(mq[k]) /\ Queued(k)' = Items(mq'[k])
  BY DEF Queued, Items

LEMMA DeliverStutter ==
  ASSUME UNCHANGED <<modules, published, received>>, Busy' = Busy,
         \A k \in Modules : Pending(k)' = Pending(k)
  PROVE  UNCHANGED Delivery!vars
  BY DEF Delivery!vars, Attached

\* A module loses messages that were meant for it.
LEMMA DeliverDiscard ==
  ASSUME UNCHANGED <<modules, published, received>>, Busy' = Busy, NEW m \in Modules,
         Pending(m)' \subseteq Pending(m),
         \A k \in Modules \ {m} : Pending(k)' = Pending(k)
  PROVE  Delivery!Next
<1> DEFINE P == [k \in Modules |-> Pending(k)]
<1>1. P' = [P EXCEPT ![m] = Pending(m)'] /\ P[m] = Pending(m)
  OBVIOUS
<1>2. Attached' = Attached
  BY DEF Attached
<1>3. Delivery!Discard(m)
  BY <1>1, <1>2 DEF Delivery!Discard
<1> QED BY <1>3 DEF Delivery!Next

LEMMA DeliverBegin ==
  ASSUME Control, Stream, NEW p \in Threads, NEW s \in Modules, BeginPublish(p, s),
         worker' = worker
  PROVE  Delivery!Publish
<1>1. /\ rest' = modules /\ published' = published + 1
      /\ UNCHANGED <<modules, mq, received>> /\ modules_lock = None
  BY DEF BeginPublish
<1>2. rest = <<>> /\ Items(rest) = {}
  BY <1>1 DEF Stream, LoopIsLocked, Items
<1>3. Items(rest') = Attached /\ Attached' = Attached
  BY <1>1, AttachedItems
<1>4. \A k \in Modules : Queued(k)' = Queued(k)
  BY <1>1 DEF Queued
<1>5. \A k \in Modules :
        Pending(k)' = IF k \in Attached THEN Pending(k) \cup {published + 1} ELSE Pending(k)
  BY <1>1, <1>2, <1>3, <1>4, PendingItems
<1>6. Busy' = Busy
  BY DEF Busy
<1> QED BY <1>1, <1>3, <1>5, <1>6 DEF Delivery!Publish

LEMMA DeliverOffer ==
  ASSUME Control, Stream, NEW p \in Threads, OfferToNext(p)
  PROVE  Delivery!Next \/ UNCHANGED Delivery!vars
<1>0. PICK h \in Modules : h = Head(rest) /\ rest # <<>>
  BY FirstOfOnce DEF OfferToNext, Stream, Control
<1>1. /\ rest # <<>> /\ rest' = Tail(rest) /\ rest \in Seq(Modules)
      /\ UNCHANGED <<modules, published, received>> /\ published \in Nat
      /\ worker' = worker \/ worker' = Post(h, worker)
      /\ mq' = mq \/ mq' = [mq EXCEPT ![h] = Append(@, published)]
  BY <1>0 DEF OfferToNext, Control
<1>2. h \in Items(rest) /\ Items(rest') = Items(rest) \ {h}
  BY <1>0, <1>1, FirstOfOnce DEF Stream
<1>3. Busy' = Busy
  BY <1>1, <1>2 DEF Busy, Post, Control
<1>4. \A k \in Modules \ {h} : Pending(k)' = Pending(k)
  <2> SUFFICES ASSUME NEW k \in Modules, k # h PROVE Pending(k)' = Pending(k)
    OBVIOUS
  <2>1. Queued(k)' = Queued(k)
    BY <1>1 DEF Queued, Control
  <2>2. k \in Items(rest') <=> k \in Items(rest)
    BY <1>2
  <2> QED BY <1>1, <2>1, <2>2, PendingItems
<1>5. Pending(h) = Queued(h) \cup {published} /\ Pending(h)' = Queued(h)'
  BY <1>2, PendingItems
<1>6. CASE mq' = mq
  <2>1. Queued(h)' = Queued(h)
    BY <1>6 DEF Queued
  <2> QED BY <1>1, <1>2, <1>3, <1>4, <1>5, <2>1, DeliverDiscard
<1>7. CASE mq' = [mq EXCEPT ![h] = Append(@, published)]
  <2>1. Queued(h)' = Queued(h) \cup {published}
    BY <1>1, <1>2, <1>7, QueuedItems, QueuedOfAppend DEF Control
  <2> QED BY <1>1, <1>3, <1>4, <1>5, <2>1, DeliverStutter
<1> QED BY <1>1, <1>6, <1>7

LEMMA DeliverEnd ==
  ASSUME Control, Stream, NEW p \in Threads, EndPublish(p)
  PROVE  UNCHANGED Delivery!vars
<1>1. UNCHANGED <<modules, rest, mq, published, received>>
  BY DEF EndPublish
<1>2. \/ worker' = worker
      \/ /\ p \in Modules /\ worker[p] = "Broker_Publish"
         /\ worker' = [worker EXCEPT ![p] = "Module_Receive"]
  BY DEF EndPublish, Publishing
<1>3. Busy' = Busy
  BY <1>2 DEF Busy, Control
<1> QED BY <1>1, <1>3, DeliverStutter DEF Pending, Queued

LEMMA DeliverOfClient ==
  ASSUME JoinWorks, Control, Guarded, Stream, NEW c \in Clients, ClientNext(c)
  PROVE  Delivery!Next \/ UNCHANGED Delivery!vars
<1>0. c \in Threads
  BY DEF Threads
<1> DEFINE P == [k \in Modules |-> Pending(k)]
<1>1. ASSUME NEW m \in Modules, Broker_AddModule(c, m) PROVE Delivery!Attach(m)
  <2>1. /\ m \notin Attached /\ modules_lock = None /\ worker[m] = "none"
        /\ modules' = Append(modules, m) /\ mq' = [mq EXCEPT ![m] = <<>>]
        /\ worker' = [worker EXCEPT ![m] = "start"]
        /\ UNCHANGED <<rest, published, received>>
    BY <1>1 DEF Broker_AddModule, CanLock, init_module, start_module
  <2>2. Items(rest) = {} /\ Items(rest') = {}
    BY <2>1 DEF Stream, LoopIsLocked, Items
  <2>3. Attached' = Attached \cup {m}
    <3>1. modules \in Seq(Modules) /\ AttachedOnce
      BY DEF Control, Guarded
    <3> QED BY <2>1, <3>1, AttachedItems, AppendAttaches
  <2>4. Queued(m)' = {} /\ \A k \in Modules \ {m} : Queued(k)' = Queued(k)
    BY <2>1 DEF Queued, Control
  <2>5. P' = [P EXCEPT ![m] = {}]
    BY <2>2, <2>4, PendingItems
  <2>6. Busy' = Busy
    BY <2>1 DEF Busy, Control
  <2> QED BY <2>1, <2>3, <2>5, <2>6 DEF Delivery!Attach
<1>2. ASSUME NEW m \in Modules, Broker_RemoveModule(c, m) PROVE UNCHANGED Delivery!vars
  <2>1. /\ UNCHANGED <<modules, rest, mq, published, received>>
        /\ worker' = worker \/ worker' = Post(m, worker)
    BY <1>2 DEF Broker_RemoveModule
  <2>2. Busy' = Busy
    BY <2>1 DEF Busy, Post, Control
  <2> QED BY <2>1, <2>2, DeliverStutter DEF Pending, Queued
<1>3. ASSUME NEW s \in Modules, Broker_Publish(c, s) PROVE Delivery!Publish
  BY <1>0, <1>3, DeliverBegin DEF Broker_Publish
<1>4. CASE OfferToNext(c)
  BY <1>0, <1>4, DeliverOffer
<1>5. CASE EndPublish(c)
  BY <1>0, <1>5, DeliverEnd
<1>6. CASE JoinWorker(c)
  <2>0. PICK m \in Modules : m = target /\ m \in Attached
    BY <1>6 DEF JoinWorker, Guarded, LockHolder, Attached, Control
  <2>1. /\ client[c] = "join"
        /\ worker[m] = "exited" /\ worker' = [worker EXCEPT ![m] = "none"]
        /\ mq' = [mq EXCEPT ![m] = <<>>] /\ modules' = Without(modules, m)
        /\ UNCHANGED <<rest, published, received>>
    BY <1>6, <2>0 DEF JoinWorker, JoinWorks
  <2>2. Items(rest) = {} /\ Items(rest') = {}
    BY <2>1 DEF Stream, LoopIsLocked, Items
  <2>3. Attached' = Attached \ {m}
    <3>1. modules \in Seq(Modules) /\ AttachedOnce
      BY DEF Control, Guarded
    <3> QED BY <2>0, <2>1, <3>1, AttachedItems, WithoutDetaches
  <2>4. Queued(m)' = {} /\ \A k \in Modules \ {m} : Queued(k)' = Queued(k)
    BY <2>1 DEF Queued, Control
  <2>5. P' = [P EXCEPT ![m] = {}]
    BY <2>2, <2>4, PendingItems
  <2>6. m \notin Busy /\ Busy' = Busy
    BY <2>1 DEF Busy, Control
  <2>7. Delivery!Detach(m)
    BY <2>0, <2>1, <2>3, <2>5, <2>6 DEF Delivery!Detach
  <2> QED BY <2>7 DEF Delivery!Next
<1>7. CASE Broker_AddLink(c)
  BY <1>7, DeliverStutter DEF Broker_AddLink, Busy, Pending, Queued
<1> QED BY <1>1, <1>2, <1>3, <1>4, <1>5, <1>6, <1>7 DEF ClientNext, Delivery!Next

LEMMA DeliverOfWorker ==
  ASSUME JoinWorks, Control, Guarded, Stream, NEW m \in Modules,
         WorkerNext(m) \/ SpuriousWakeup(m)
  PROVE  Delivery!Next \/ UNCHANGED Delivery!vars
<1>0. m \in Threads
  BY DEF Threads
<1>1. CASE \/ WorkerStart(m) \/ WorkerQuits(m) \/ WorkerWaits(m) \/ ReceivePublishes(m)
           \/ PublishFails(m) \/ SpuriousWakeup(m)
  <2>1. /\ UNCHANGED <<modules, rest, mq, published, received>>
        /\ \E w \in {"lock", "wait", "exited", "Module_Receive", "Broker_Publish"} :
             /\ worker' = [worker EXCEPT ![m] = w]
             /\ w \in {"Module_Receive", "Broker_Publish"} <=>
                worker[m] \in {"Module_Receive", "Broker_Publish"}
    BY <1>1 DEF WorkerStart, WorkerQuits, WorkerWaits, ReceivePublishes, PublishFails,
                SpuriousWakeup
  <2>2. Busy' = Busy
    BY <2>1 DEF Busy, Control
  <2> QED BY <2>1, <2>2, DeliverStutter DEF Pending, Queued
<1>2. CASE WorkerDelivers(m)
  <2>0. PICK n : n = Head(mq[m])
    OBVIOUS
  <2>1. /\ mq[m] # <<>> /\ mq' = [mq EXCEPT ![m] = Tail(mq[m])] /\ worker[m] = "lock"
        /\ UNCHANGED <<modules, rest, published>>
        /\ \/ received' = received /\ worker' = worker
           \/ /\ received' = [received EXCEPT ![m] = Append(@, n)]
              /\ worker' = [worker EXCEPT ![m] = "Module_Receive"]
    BY <1>2, <2>0 DEF WorkerDelivers
  <2>2. /\ n \in Queued(m) /\ n <= Limit(m) /\ n \in Nat
        /\ Queued(m)' = {k \in Queued(m) : k > n}
    <3>1. /\ n \in Items(mq[m]) /\ n <= Limit(m) /\ n \in Nat
          /\ Items(Tail(mq[m])) = {k \in Items(mq[m]) : k > n}
      BY <2>0, <2>1, StreamTypes, QueuedOfTail
    <3> QED BY <2>1, <3>1, QueuedItems DEF Control
  <2>3. n \in Pending(m) /\ Pending(m)' = {k \in Pending(m) : k > n}
    <3>1. m \in Items(rest) => published > n
      BY <2>2, StreamTypes DEF Limit
    <3> QED BY <2>1, <2>2, <3>1, PendingItems
  <2>4. \A k \in Modules \ {m} : Pending(k)' = Pending(k)
    BY <2>1 DEF Pending, Queued, Control
  <2>5. CASE received' = received /\ worker' = worker
    <3>1. Busy' = Busy
      BY <2>5 DEF Busy
    <3> QED BY <2>1, <2>3, <2>4, <2>5, <3>1, DeliverDiscard
  <2>6. CASE /\ received' = [received EXCEPT ![m] = Append(@, n)]
             /\ worker' = [worker EXCEPT ![m] = "Module_Receive"]
    <3> DEFINE P == [k \in Modules |-> Pending(k)]
    <3>1. P' = [P EXCEPT ![m] = {k \in P[m] : k > n}] /\ n \in P[m]
      BY <2>3, <2>4
    <3>2. m \notin Busy /\ Busy' = Busy \cup {m}
      BY <2>1, <2>6 DEF Busy, Control
    <3>3. m \in Attached /\ Attached' = Attached
      BY <2>1 DEF Guarded, WorkersOfModules, Attached
    <3>4. Delivery!Begin(m)
      BY <2>1, <2>6, <3>1, <3>2, <3>3 DEF Delivery!Begin
    <3> QED BY <3>4 DEF Delivery!Next
  <2> QED BY <2>1, <2>5, <2>6
<1>3. CASE WorkerPublish(m)
  BY <1>0, <1>3, DeliverBegin DEF WorkerPublish, Delivery!Next
<1>4. CASE OfferToNext(m)
  BY <1>0, <1>4, DeliverOffer
<1>5. CASE EndPublish(m)
  BY <1>0, <1>5, DeliverEnd
<1>6. CASE ReceiveReturns(m)
  <2>1. /\ worker[m] = "Module_Receive" /\ worker' = [worker EXCEPT ![m] = "lock"]
        /\ UNCHANGED <<modules, rest, mq, published, received>>
    BY <1>6 DEF ReceiveReturns
  <2>2. m \in Busy /\ Busy' = Busy \ {m}
    BY <2>1 DEF Busy, Control
  <2>3. \A k \in Modules : Pending(k)' = Pending(k)
    BY <2>1 DEF Pending, Queued
  <2>4. Delivery!End(m)
    BY <2>1, <2>2, <2>3 DEF Delivery!End, Attached
  <2> QED BY <2>4 DEF Delivery!Next
<1> QED BY <1>1, <1>2, <1>3, <1>4, <1>5, <1>6 DEF WorkerNext

\* This broker keeps the promise of ModuleDelivery, too: lossy, ordered and serial
\* delivery that is over when Broker_RemoveModule returns.
THEOREM BroadcastDelivers == ASSUME JoinWorks PROVE Spec => DeliverySpec
<1>1. Init => Delivery!Init
  BY DEF Init, Delivery!Init, Pending, Queued, Busy, Attached
<1>2. Control /\ Guarded /\ Stream /\ [Next]_vars => [Delivery!Next]_(Delivery!vars)
  <2> SUFFICES ASSUME Control, Guarded, Stream, [Next]_vars
               PROVE  Delivery!Next \/ UNCHANGED Delivery!vars
    OBVIOUS
  <2>1. UNCHANGED vars => UNCHANGED Delivery!vars
    BY DeliverStutter DEF Busy, Pending, Queued
  <2> QED BY <2>1, DeliverOfClient, DeliverOfWorker, Zenon DEF Next
<1> QED BY <1>1, <1>2, GuardedAlways, StreamAlways, PTL
         DEF Spec, DeliverySpec, Delivery!Spec

-----------------------------------------------------------------------------
(* References of messages *)

\* Some thread is in the loop of Broker_Publish.
InPublish == \E p \in Threads : Publishing(p)

\* Messages are numbered as they are published, whoever is in Module_Receive was
\* handed one, a module that publishes is inside Broker_Publish, and nothing is
\* queued for a module that is not attached.
Custody ==
  /\ published <= MaxPublish
  /\ \A k \in Modules : /\ \A i \in DOMAIN mq[k] : mq[k][i] \in 1..MaxPublish
                        /\ \A i \in DOMAIN received[k] : received[k][i] \in 1..MaxPublish
  /\ \A k \in Busy : received[k] # <<>>
  /\ modules_lock \in Modules => worker[modules_lock] = "Broker_Publish"
  /\ InPublish => published \in 1..MaxPublish
  /\ Items(rest) \subseteq Attached
  /\ \A k \in Modules \ Attached : mq[k] = <<>>

Receives(k, n) == k \in Busy /\ received[k] # <<>> /\ received[k][Len(received[k])] = n
Holds(k, n) == n \in Items(mq[k]) \/ Receives(k, n)

LEMMA HoldersAre ==
  ASSUME NEW n
  PROVE  /\ Holders(n) = (IF n = published /\ InPublish THEN {None} ELSE {})
                         \cup {k \in Modules : Holds(k, n)}
         /\ Holders(n)' = (IF n = published' /\ InPublish' THEN {None} ELSE {})
                          \cup {k \in Modules : Holds(k, n)'}
  BY DEF Holders, Publisher, InPublish, Holds, Receives, Items, Queued, Busy

LEMMA HoldersFinite ==
  ASSUME NEW n
  PROVE  IsFiniteSet(Holders(n)) /\ Cardinality(Holders(n)) \in Nat
         /\ IsFiniteSet(Holders(n)') /\ Cardinality(Holders(n)') \in Nat
<1>1. IsFiniteSet(Modules \cup {None})
  BY FiniteAssumption, FS_AddElement
<1>2. Holders(n) \in SUBSET (Modules \cup {None}) /\ Holders(n)' \in SUBSET (Modules \cup {None})
  BY HoldersAre
<1> QED BY <1>1, <1>2, FS_Subset, FS_CardinalityType

\* Whoever is in Broker_Publish has modules_lock.
LEMMA PublishHasLock ==
  /\ InPublish => modules_lock # None
  /\ InPublish' => modules_lock' # None
  BY ThreadAssumption DEF InPublish, Publishing, Threads

\* A module never has a message twice: what it is receiving has left its queue.
LEMMA HeldOnce ==
  ASSUME Control, Stream, NEW k \in Modules, NEW n \in Nat
  PROVE  /\ Receives(k, n) => n \notin Items(mq[k])
         /\ \A i, j \in DOMAIN mq[k] : mq[k][i] = n /\ mq[k][j] = n => i = j
         /\ Holds(k, n) => n <= published
         /\ k \in Items(rest) => ~Holds(k, published)
<1>1. /\ received[k] \in Seq(Nat) /\ mq[k] \in Seq(Nat)
      /\ published \in Nat /\ Rising(received[k], mq[k], Limit(k))
      /\ Limit(k) = IF k \in Items(rest) THEN published - 1 ELSE published
  BY StreamTypes DEF Limit
<1>2. /\ DOMAIN mq[k] \subseteq Nat
      /\ \A i \in DOMAIN mq[k] : mq[k][i] \in Nat
      /\ received[k] # <<>> => /\ Len(received[k]) \in DOMAIN received[k]
                               /\ received[k][Len(received[k])] \in Nat
  BY <1>1
<1>3. \A i, j \in DOMAIN mq[k] : mq[k][i] = n /\ mq[k][j] = n => i = j
  <2> SUFFICES ASSUME NEW i \in DOMAIN mq[k], NEW j \in DOMAIN mq[k],
                      mq[k][i] = mq[k][j], i # j
               PROVE  FALSE
    OBVIOUS
  <2>1. CASE i < j
    BY <1>1, <1>2, <2>1 DEF Rising
  <2>2. CASE j < i
    BY <1>1, <1>2, <2>2 DEF Rising
  <2> QED BY <1>2, <2>1, <2>2
<1>4. Receives(k, n) => n \notin Items(mq[k])
  BY <1>1, <1>2 DEF Receives, Items, Rising
<1>5. \A x \in Nat : Holds(k, x) => x <= Limit(k)
  BY <1>1, <1>2 DEF Holds, Receives, Items, Rising
<1>6. Holds(k, n) => n <= published
  BY <1>1, <1>5
<1>7. k \in Items(rest) => ~Holds(k, published)
  BY <1>1, <1>5
<1> QED BY <1>3, <1>4, <1>6, <1>7

References ==
  /\ references \in [1..MaxPublish -> Nat]
  /\ Custody /\ ReferencesAreHeld

\* A step that changes neither who has a message nor its count.
LEMMA CountKept ==
  ASSUME ReferencesAreHeld, UNCHANGED references,
         InPublish' <=> InPublish, InPublish => published' = published,
         \A k \in Modules, n \in 1..MaxPublish : Holds(k, n)' <=> Holds(k, n)
  PROVE  ReferencesAreHeld'
<1>1. \A n \in 1..MaxPublish : Holders(n)' = Holders(n)
  BY HoldersAre
<1> QED BY <1>1 DEF ReferencesAreHeld

\* Module m gets a reference of message n, or drops its own.
LEMMA CountModule ==
  ASSUME NEW n \in 1..MaxPublish, NEW m \in Modules,
         InPublish' <=> InPublish, InPublish => published' = published,
         \A k \in Modules \ {m} : Holds(k, n)' <=> Holds(k, n)
  PROVE  /\ ~Holds(m, n) /\ Holds(m, n)' =>
              Cardinality(Holders(n)') = Cardinality(Holders(n)) + 1
         /\ Holds(m, n) /\ ~Holds(m, n)' =>
              Cardinality(Holders(n)') = Cardinality(Holders(n)) - 1
         /\ (Holds(m, n)' <=> Holds(m, n)) => Holders(n)' = Holders(n)
<1>0. m # None
  BY ThreadAssumption
<1>1. /\ IsFiniteSet(Holders(n)) /\ Cardinality(Holders(n)) \in Nat
  BY HoldersFinite
<1>2. ASSUME ~Holds(m, n), Holds(m, n)'
      PROVE  Cardinality(Holders(n)') = Cardinality(Holders(n)) + 1
  <2>1. Holders(n)' = Holders(n) \cup {m} /\ m \notin Holders(n)
    BY <1>0, <1>2, HoldersAre
  <2> QED BY <1>1, <2>1, FS_AddElement
<1>3. ASSUME Holds(m, n), ~Holds(m, n)'
      PROVE  Cardinality(Holders(n)') = Cardinality(Holders(n)) - 1
  <2>1. Holders(n)' = Holders(n) \ {m} /\ m \in Holders(n)
    BY <1>0, <1>3, HoldersAre
  <2> QED BY <1>1, <2>1, FS_RemoveElement
<1>4. ASSUME Holds(m, n)' <=> Holds(m, n) PROVE Holders(n)' = Holders(n)
  BY <1>4, HoldersAre
<1> QED BY <1>2, <1>3, <1>4

\* What a step does to a module that neither receives nor is given a message.
LEMMA HoldsKept ==
  ASSUME NEW k \in Modules, Items(mq'[k]) = Items(mq[k]), received'[k] = received[k],
         k \in Busy' <=> k \in Busy, NEW n
  PROVE  Holds(k, n)' <=> Holds(k, n)
  BY DEF Holds, Receives

LEMMA CustodyKept ==
  ASSUME Custody, UNCHANGED <<modules, mq, rest, published, received>>, Busy' = Busy,
         modules_lock' \in Modules => worker'[modules_lock'] = "Broker_Publish",
         InPublish' => InPublish
  PROVE  Custody'
  BY DEF Custody, Attached, Items

LEMMA ReferencesInit == Init => References
<1> SUFFICES ASSUME Init PROVE References
  OBVIOUS
<1>1. \A n \in 1..MaxPublish : Holders(n) = {}
  BY DEF Init, Holders, Publisher, Queued, Busy
<1>2. Custody
  <2>1. ~InPublish
    BY PublishHasLock DEF Init
  <2> QED BY <2>1, BoundAssumption, ThreadAssumption DEF Init, Custody, Items, Attached, Busy
<1>3. ReferencesAreHeld /\ references \in [1..MaxPublish -> Nat]
  BY <1>1, FS_EmptySet DEF Init, ReferencesAreHeld
<1> QED BY <1>2, <1>3 DEF References

LEMMA ReferencesBegin ==
  ASSUME Control, Guarded, Stream, References, NEW p \in Threads, NEW s \in Modules,
         BeginPublish(p, s), Busy' = Busy, Publishing(p)', 
         p \in Modules => worker'[p] = "Broker_Publish"
  PROVE  References'
<1>1. /\ modules_lock = None /\ published < MaxPublish /\ modules_lock' = p
      /\ published' = published + 1 /\ rest' = modules
      /\ references' = [references EXCEPT ![published + 1] = 1]
      /\ UNCHANGED <<modules, mq, received>>
  BY DEF BeginPublish
<1>2. ~InPublish /\ InPublish'
  BY <1>1, PublishHasLock DEF InPublish
<1>3. published \in Nat /\ published + 1 \in 1..MaxPublish /\ MaxPublish \in Nat
  BY <1>1, BoundAssumption DEF Control
<1>4. \A k \in Modules, n \in 1..MaxPublish : Holds(k, n)' <=> Holds(k, n)
  BY <1>1, HoldsKept
<1>5. \A k \in Modules : ~Holds(k, published + 1)
  BY <1>3, HeldOnce
<1>6. Custody'
  BY <1>1, <1>3, AttachedItems DEF References, Custody
<1>7. ReferencesAreHeld'
  <2> SUFFICES ASSUME NEW n \in 1..MaxPublish
               PROVE  references'[n] = Cardinality(Holders(n)')
    BY DEF ReferencesAreHeld
  <2>1. CASE n = published + 1
    <3>1. Holders(n)' = {None}
      BY <1>1, <1>2, <1>4, <1>5, <2>1, HoldersAre
    <3> QED BY <1>1, <2>1, <3>1, FS_Singleton DEF References
  <2>2. CASE n # published + 1
    <3>1. Holders(n)' = Holders(n)
      BY <1>1, <1>2, <1>4, <2>2, HoldersAre
    <3> QED BY <1>1, <2>2, <3>1 DEF References, ReferencesAreHeld
  <2> QED BY <2>1, <2>2
<1> QED BY <1>1, <1>6, <1>7 DEF References

LEMMA ReferencesOffer ==
  ASSUME Control, Stream, References, NEW p \in Threads, OfferToNext(p)
  PROVE  References'
<1>0. PICK h \in Modules : h = Head(rest) /\ rest # <<>>
  BY FirstOfOnce DEF OfferToNext, Stream, Control
<1>1. /\ rest' = Tail(rest) /\ rest \in Seq(Modules) /\ modules_lock = p
      /\ UNCHANGED <<modules, modules_lock, client, published, received>>
      /\ published \in Nat
      /\ worker' = worker \/ worker' = Post(h, worker)
      /\ \/ mq' = mq /\ references' = references
         \/ /\ mq' = [mq EXCEPT ![h] = Append(@, published)]
            /\ references' = [references EXCEPT ![published] = @ + 1]
  BY <1>0 DEF OfferToNext, Control, Publishing
<1>2. h \in Items(rest) /\ Items(rest') = Items(rest) \ {h}
  BY <1>0, <1>1, FirstOfOnce DEF Stream
<1>3. \A k \in Modules : \A w \in {"Module_Receive", "Broker_Publish"} :
        worker'[k] = w <=> worker[k] = w
  BY <1>1 DEF Post, Control
<1>4. Busy' = Busy /\ (InPublish' <=> InPublish)
  BY <1>1, <1>3 DEF Busy, InPublish, Publishing
<1>5. modules_lock' \in Modules => worker'[modules_lock'] = "Broker_Publish"
  BY <1>1, <1>3 DEF References, Custody
<1>6. CASE mq' = mq /\ references' = references
  <2>1. \A k \in Modules, n \in 1..MaxPublish : Holds(k, n)' <=> Holds(k, n)
    BY <1>1, <1>4, <1>6, HoldsKept
  <2>2. ReferencesAreHeld'
    BY <1>1, <1>4, <1>6, <2>1, CountKept DEF References
  <2>3. Custody'
    BY <1>1, <1>2, <1>4, <1>5, <1>6 DEF References, Custody, Attached
  <2> QED BY <1>6, <2>2, <2>3 DEF References
<1>7. CASE /\ mq' = [mq EXCEPT ![h] = Append(@, published)]
           /\ references' = [references EXCEPT ![published] = @ + 1]
  <2>1. mq'[h] = Append(mq[h], published) /\ mq[h] \in Seq(Nat)
        /\ Items(mq'[h]) = Items(mq[h]) \cup {published}
    BY <1>1, <1>7, QueuedOfAppend DEF Control
  <2>2. \A k \in Modules \ {h} : mq'[k] = mq[k]
    BY <1>7 DEF Control
  <2>3. ~Holds(h, published) /\ Holds(h, published)'
    BY <1>1, <1>2, <2>1, HeldOnce DEF Holds
  <2>4. \A k \in Modules \ {h}, n \in 1..MaxPublish : Holds(k, n)' <=> Holds(k, n)
    BY <1>1, <1>4, <2>2, HoldsKept
  <2>5. \A n \in 1..MaxPublish : n # published => (Holds(h, n)' <=> Holds(h, n))
    BY <1>1, <1>4, <2>1 DEF Holds, Receives
  <2>6. published \in 1..MaxPublish
    <3>1. InPublish
      BY DEF InPublish, OfferToNext
    <3> QED BY <3>1 DEF References, Custody
  <2>7. ReferencesAreHeld'
    <3> SUFFICES ASSUME NEW n \in 1..MaxPublish
                 PROVE  references'[n] = Cardinality(Holders(n)')
      BY DEF ReferencesAreHeld
    <3>1. CASE n = published
      BY <1>1, <1>4, <1>7, <2>3, <2>4, <3>1, CountModule DEF References, ReferencesAreHeld
    <3>2. CASE n # published
      BY <1>1, <1>4, <1>7, <2>4, <2>5, <3>2, CountModule DEF References, ReferencesAreHeld
    <3> QED BY <3>1, <3>2
  <2>8. \A i \in DOMAIN mq'[h] : mq'[h][i] \in 1..MaxPublish
    <3>1. \A n \in Items(mq[h]) : n \in 1..MaxPublish
      BY DEF References, Custody, Items
    <3>2. \A n \in Items(mq'[h]) : n \in 1..MaxPublish
      BY <2>1, <2>6, <3>1
    <3> QED BY <3>2 DEF Items
  <2>9. h \in Attached
    BY <1>2 DEF References, Custody
  <2>10. Custody'
    BY <1>1, <1>2, <1>4, <1>5, <2>2, <2>8, <2>9 DEF References, Custody, Attached
  <2> QED BY <1>7, <2>6, <2>7, <2>10 DEF References
<1> QED BY <1>1, <1>6, <1>7

LEMMA ReferencesEnd ==
  ASSUME Control, Stream, References, NEW p \in Threads, EndPublish(p)
  PROVE  References'
<1>1. /\ modules_lock = p /\ modules_lock' = None
      /\ UNCHANGED <<modules, rest, mq, published, received>>
      /\ references' = [references EXCEPT ![published] = @ - 1]
  BY DEF EndPublish, Publishing
<1>2. \/ worker' = worker
      \/ /\ p \in Modules /\ worker[p] = "Broker_Publish"
         /\ worker' = [worker EXCEPT ![p] = "Module_Receive"]
  BY DEF EndPublish, Publishing
<1>3. Busy' = Busy
  BY <1>2 DEF Busy, Control
<1>4. InPublish /\ ~InPublish' /\ published \in 1..MaxPublish
  <2>1. InPublish
    BY DEF InPublish, EndPublish
  <2>2. ~InPublish'
    BY <1>1, PublishHasLock
  <2> QED BY <2>1, <2>2 DEF References, Custody
<1>5. Custody'
  BY <1>1, <1>3, <1>4, CustodyKept, ThreadAssumption DEF References
<1>6. \A k \in Modules, n \in 1..MaxPublish : Holds(k, n)' <=> Holds(k, n)
  BY <1>1, <1>3, HoldsKept
<1>7. ReferencesAreHeld'
  <2> SUFFICES ASSUME NEW n \in 1..MaxPublish
               PROVE  references'[n] = Cardinality(Holders(n)')
    BY DEF ReferencesAreHeld
  <2>1. CASE n = published
    <3>1. Holders(n)' = Holders(n) \ {None} /\ None \in Holders(n)
      BY <1>1, <1>4, <1>6, <2>1, HoldersAre, ThreadAssumption
    <3>2. Cardinality(Holders(n)') = Cardinality(Holders(n)) - 1
      BY <3>1, HoldersFinite, FS_RemoveElement
    <3> QED BY <1>1, <2>1, <3>2 DEF References, ReferencesAreHeld
  <2>2. CASE n # published
    <3>1. Holders(n)' = Holders(n)
      BY <1>1, <1>4, <1>6, <2>2, HoldersAre
    <3> QED BY <1>1, <2>2, <3>1 DEF References, ReferencesAreHeld
  <2> QED BY <2>1, <2>2
<1>8. references' \in [1..MaxPublish -> Nat]
  <2>1. references[published] - 1 \in Nat
    <3>1. references'[published] \in Nat
      BY <1>4, <1>7, HoldersFinite DEF ReferencesAreHeld
    <3> QED BY <1>1, <1>4, <3>1 DEF References
  <2> QED BY <1>1, <2>1 DEF References
<1> QED BY <1>5, <1>7, <1>8 DEF References

\* What is left in a queue is destroyed, each message once.
LEMMA ReferencesJoin ==
  ASSUME Control, Guarded, Stream, References, NEW c \in Clients, JoinWorker(c)
  PROVE  References'
<1>0. PICK m \in Modules : m = target /\ m \in Attached
  BY DEF JoinWorker, Guarded, LockHolder, Attached, Control
<1>1. /\ client[c] = "join" /\ modules_lock = c /\ modules_lock' = None
      /\ \/ worker' = worker
         \/ worker[m] = "exited" /\ worker' = [worker EXCEPT ![m] = "none"]
      /\ references' = [n \in 1..MaxPublish |->
           references[n] - Cardinality({i \in DOMAIN mq[m] : mq[m][i] = n})]
      /\ mq' = [mq EXCEPT ![m] = <<>>] /\ modules' = Without(modules, m)
      /\ UNCHANGED <<rest, published, received>>
  BY <1>0 DEF JoinWorker, Guarded, LockHolder
<1>2. Busy' = Busy
  BY <1>1 DEF Busy, Control
<1>3. ~InPublish /\ ~InPublish'
  <2>1. ~InPublish
    BY <1>1, ThreadAssumption DEF InPublish, Publishing
  <2> QED BY <1>1, <2>1, PublishHasLock
<1>4. Items(mq'[m]) = {} /\ \A k \in Modules \ {m} : mq'[k] = mq[k]
  BY <1>1 DEF Items, Control
<1>5. \A k \in Modules \ {m}, n \in 1..MaxPublish : Holds(k, n)' <=> Holds(k, n)
  BY <1>1, <1>2, <1>4, HoldsKept
<1>6. ReferencesAreHeld'
  <2> SUFFICES ASSUME NEW n \in 1..MaxPublish
               PROVE  references'[n] = Cardinality(Holders(n)')
    BY DEF ReferencesAreHeld
  <2> DEFINE D == {i \in DOMAIN mq[m] : mq[m][i] = n}
  <2>0. n \in Nat /\ references[n] = Cardinality(Holders(n)) /\ references[n] \in Nat
    BY DEF References, ReferencesAreHeld
  <2>1. Receives(m, n)' <=> Receives(m, n)
    BY <1>1, <1>2 DEF Receives
  <2>2. CASE n \in Items(mq[m])
    <3>1. PICK i \in DOMAIN mq[m] : mq[m][i] = n
      BY <2>2 DEF Items
    <3>2. D = {i}
      BY <2>0, <3>1, HeldOnce
    <3>3. Cardinality(D) = 1
      BY <3>2, FS_Singleton
    <3>4. Holds(m, n) /\ ~Holds(m, n)'
      BY <1>4, <2>0, <2>1, <2>2, HeldOnce DEF Holds
    <3>5. Cardinality(Holders(n)') = Cardinality(Holders(n)) - 1
      BY <1>3, <1>5, <3>4, CountModule
    <3> QED BY <1>1, <2>0, <3>3, <3>5
  <2>3. CASE n \notin Items(mq[m])
    <3>1. D = {}
      BY <2>3 DEF Items
    <3>2. Cardinality(D) = 0
      BY <3>1, FS_EmptySet
    <3>3. Holds(m, n)' <=> Holds(m, n)
      BY <1>4, <2>1, <2>3 DEF Holds
    <3>4. Holders(n)' = Holders(n)
      BY <1>3, <1>5, <3>3, CountModule
    <3> QED BY <1>1, <2>0, <3>2, <3>4
  <2> QED BY <2>2, <2>3
<1>7. references' \in [1..MaxPublish -> Nat]
  <2>1. \A n \in 1..MaxPublish : references'[n] \in Nat
    BY <1>6, HoldersFinite DEF ReferencesAreHeld
  <2> QED BY <1>1, <2>1
<1>8. Custody'
  <2>1. Attached' = Attached \ {m}
    <3>1. modules \in Seq(Modules) /\ AttachedOnce
      BY DEF Control, Guarded
    <3> QED BY <1>0, <1>1, <3>1, AttachedItems, WithoutDetaches
  <2>2. rest = <<>> /\ Items(rest') = {}
    BY <1>1 DEF Stream, LoopIsLocked, Items
  <2>3. mq'[m] = <<>>
    BY <1>1 DEF Control
  <2>4. None \notin Modules
    BY ThreadAssumption
  <2> QED BY <1>1, <1>2, <1>3, <1>4, <2>1, <2>2, <2>3, <2>4 DEF References, Custody
<1> QED BY <1>6, <1>7, <1>8 DEF References

\* A step that moves no message and keeps those who publish.
LEMMA ReferencesKept ==
  ASSUME Control, References,
         UNCHANGED <<modules, mq, rest, published, received, references>>, Busy' = Busy,
         modules_lock' \in Modules => worker'[modules_lock'] = "Broker_Publish",
         InPublish' <=> InPublish
  PROVE  References'
<1>1. \A k \in Modules, n \in 1..MaxPublish : Holds(k, n)' <=> Holds(k, n)
  BY HoldsKept
<1>2. ReferencesAreHeld'
  BY <1>1, CountKept DEF References
<1> QED BY <1>2, CustodyKept DEF References

LEMMA ReferencesClient ==
  ASSUME Control, Guarded, Stream, References, NEW c \in Clients, ClientNext(c)
  PROVE  References'
<1>0. c \in Threads /\ c \notin Modules
  BY ThreadAssumption DEF Threads
<1>1. ASSUME NEW m \in Modules, Broker_AddModule(c, m) PROVE References'
  <2>1. /\ modules_lock = None /\ m \notin Attached /\ worker[m] = "none"
        /\ modules' = Append(modules, m) /\ mq' = [mq EXCEPT ![m] = <<>>]
        /\ worker' = [worker EXCEPT ![m] = "start"]
        /\ UNCHANGED <<modules_lock, rest, references, published, received>>
    BY <1>1 DEF Broker_AddModule, CanLock, init_module, start_module
  <2>2. mq' = mq
    BY <2>1 DEF References, Custody, Control
  <2>3. Busy' = Busy
    BY <2>1 DEF Busy, Control
  <2>4. ~InPublish /\ ~InPublish'
    BY <2>1, PublishHasLock
  <2>5. \A k \in Modules, n \in 1..MaxPublish : Holds(k, n)' <=> Holds(k, n)
    BY <2>1, <2>2, <2>3, HoldsKept
  <2>6. ReferencesAreHeld'
    BY <2>1, <2>4, <2>5, CountKept DEF References
  <2>7. Attached' = Attached \cup {m}
    <3>1. modules \in Seq(Modules) /\ AttachedOnce
      BY DEF Control, Guarded
    <3> QED BY <2>1, <3>1, AttachedItems, AppendAttaches
  <2>8. Custody'
    BY <2>1, <2>2, <2>3, <2>4, <2>7, ThreadAssumption DEF References, Custody
  <2> QED BY <2>1, <2>6, <2>8 DEF References
<1>2. ASSUME NEW m \in Modules, Broker_RemoveModule(c, m) PROVE References'
  <2>1. /\ UNCHANGED <<modules, rest, mq, published, received, references>>
        /\ modules_lock = None /\ modules_lock' = c
        /\ client' = [client EXCEPT ![c] = "join"]
        /\ worker' = worker \/ worker' = Post(m, worker)
    BY <1>2 DEF Broker_RemoveModule, CanLock
  <2>2. Busy' = Busy
    BY <2>1 DEF Busy, Post, Control
  <2>3. ~InPublish /\ ~InPublish'
    <3>1. ~InPublish
      BY <2>1, PublishHasLock
    <3>2. ~InPublish'
      BY <1>0, <2>1 DEF InPublish, Publishing, Control
    <3> QED BY <3>1, <3>2
  <2> QED BY <1>0, <2>1, <2>2, <2>3, ReferencesKept
<1>3. ASSUME NEW s \in Modules, Broker_Publish(c, s) PROVE References'
  <2>1. /\ BeginPublish(c, s) /\ client' = [client EXCEPT ![c] = "publish"]
        /\ worker' = worker /\ modules_lock' = c
    BY <1>3 DEF Broker_Publish, BeginPublish
  <2>2. Busy' = Busy /\ Publishing(c)'
    BY <1>0, <2>1 DEF Busy, Publishing, Control
  <2> QED BY <1>0, <2>1, <2>2, ReferencesBegin
<1>4. CASE OfferToNext(c)
  BY <1>0, <1>4, ReferencesOffer
<1>5. CASE EndPublish(c)
  BY <1>0, <1>5, ReferencesEnd
<1>6. CASE JoinWorker(c)
  BY <1>6, ReferencesJoin
<1>7. CASE Broker_AddLink(c)
  BY <1>7, ReferencesKept DEF Broker_AddLink, Busy, InPublish, Publishing, References, Custody
<1> QED BY <1>1, <1>2, <1>3, <1>4, <1>5, <1>6, <1>7 DEF ClientNext

LEMMA ReferencesDeliver ==
  ASSUME Control, Stream, References, NEW m \in Modules, WorkerDelivers(m)
  PROVE  References'
<1>0. PICK h : h = Head(mq[m])
  OBVIOUS
<1>1. /\ mq[m] # <<>> /\ mq' = [mq EXCEPT ![m] = Tail(mq[m])] /\ worker[m] = "lock"
      /\ UNCHANGED <<modules, modules_lock, client, rest, published>>
      /\ \/ /\ received' = [received EXCEPT ![m] = Append(received[m], h)]
            /\ worker' = [worker EXCEPT ![m] = "Module_Receive"]
            /\ references' = references
         \/ /\ references' = [references EXCEPT ![h] = @ - 1]
            /\ UNCHANGED <<received, worker>>
  BY <1>0 DEF WorkerDelivers
<1>2. mq'[m] = Tail(mq[m]) /\ \A k \in Modules \ {m} : mq'[k] = mq[k]
  BY <1>1 DEF Control
<1>3. h \in Items(mq[m]) /\ Items(mq'[m]) = Items(mq[m]) \ {h}
  <2>1. /\ h \in Items(mq[m]) /\ h \in Nat
        /\ Items(Tail(mq[m])) = {n \in Items(mq[m]) : n > h}
    BY <1>0, <1>1, StreamTypes, QueuedOfTail
  <2>2. \A n \in Items(mq[m]) : n = h \/ n > h
    <3>1. mq[m] \in Seq(Nat) /\ Rising(received[m], mq[m], Limit(m))
      BY StreamTypes
    <3>2. /\ 1 \in DOMAIN mq[m] /\ Head(mq[m]) = mq[m][1]
          /\ \A i \in DOMAIN mq[m] : i = 1 \/ 1 < i
      BY <1>1, <3>1
    <3>3. \A i, j \in DOMAIN mq[m] : i < j => mq[m][i] < mq[m][j]
      BY <3>1 DEF Rising
    <3>4. \A i \in DOMAIN mq[m] : i = 1 \/ mq[m][1] < mq[m][i]
      BY <3>2, <3>3
    <3> QED BY <1>0, <3>2, <3>4 DEF Items
  <2>3. \A x \in Nat : ~(x > x)
    OBVIOUS
  <2>4. ~(h > h)
    BY <2>1, <2>3
  <2>5. Items(mq'[m]) = {n \in Items(mq[m]) : n > h}
    BY <1>2, <2>1
  <2>6. {n \in Items(mq[m]) : n > h} = Items(mq[m]) \ {h}
    BY <2>2, <2>4, Zenon
  <2> QED BY <2>1, <2>5, <2>6
<1>4. h \in 1..MaxPublish
  BY <1>3 DEF References, Custody, Items
<1>5. m \notin Busy
  BY <1>1 DEF Busy
<1>6. /\ \A k \in Modules : worker'[k] = "Broker_Publish" <=> worker[k] = "Broker_Publish"
      /\ InPublish' <=> InPublish
  <2>1. \A k \in Modules : worker'[k] = "Broker_Publish" <=> worker[k] = "Broker_Publish"
    BY <1>1 DEF Control
  <2> QED BY <1>1, <2>1 DEF InPublish, Publishing
<1>7. CASE /\ received' = [received EXCEPT ![m] = Append(received[m], h)]
           /\ worker' = [worker EXCEPT ![m] = "Module_Receive"]
           /\ references' = references
  <2>1. Busy' = Busy \cup {m}
    BY <1>1, <1>7 DEF Busy, Control
  <2>2. /\ received'[m] = Append(received[m], h) /\ received[m] \in Seq(Nat)
        /\ \A k \in Modules \ {m} : received'[k] = received[k]
    BY <1>7 DEF Stream
  <2>3. /\ received'[m] # <<>> /\ received'[m][Len(received'[m])] = h
        /\ \A i \in DOMAIN received'[m] : received'[m][i] \in 1..MaxPublish
    <3>1. h \in Nat
      BY <1>4
    <3>2. \A i \in DOMAIN received[m] : received[m][i] \in 1..MaxPublish
      BY DEF References, Custody
    <3> QED BY <1>4, <2>2, <3>1, <3>2
  <2>4. \A k \in Modules \ {m}, n \in 1..MaxPublish : Holds(k, n)' <=> Holds(k, n)
    BY <1>2, <2>1, <2>2, HoldsKept
  <2>5. \A n \in 1..MaxPublish : Holds(m, n)' <=> Holds(m, n)
    BY <1>3, <1>5, <2>1, <2>3 DEF Holds, Receives
  <2>6. ReferencesAreHeld'
    BY <1>1, <1>6, <1>7, <2>4, <2>5, CountKept DEF References
  <2>7. Custody'
    <3>1. \A i \in DOMAIN mq'[m] : mq'[m][i] \in 1..MaxPublish
      <4>1. \A n \in Items(mq[m]) : n \in 1..MaxPublish
        BY DEF References, Custody, Items
      <4>2. \A n \in Items(mq'[m]) : n \in 1..MaxPublish
        BY <1>3, <4>1
      <4> QED BY <4>2 DEF Items
    <3>2. m \in Attached
      BY <1>1 DEF References, Custody
    <3>3. Attached' = Attached
      BY <1>1 DEF Attached
    <3>4. modules_lock \in Modules => worker'[modules_lock] = "Broker_Publish"
      BY <1>6 DEF References, Custody
    <3>5. \A k \in Busy' : received'[k] # <<>>
      BY <2>1, <2>2, <2>3 DEF References, Custody, Busy
    <3>6. /\ \A k \in Modules \ {m} : \A i \in DOMAIN mq'[k] : mq'[k][i] \in 1..MaxPublish
          /\ \A k \in Modules \ {m} :
               \A i \in DOMAIN received'[k] : received'[k][i] \in 1..MaxPublish
      BY <1>2, <2>2 DEF References, Custody
    <3>7. /\ published' <= MaxPublish /\ Items(rest') \subseteq Attached'
          /\ InPublish' => published' \in 1..MaxPublish
          /\ \A k \in Modules \ Attached' : mq'[k] = <<>>
      BY <1>1, <1>2, <1>6, <3>2, <3>3 DEF References, Custody
    <3> QED BY <1>1, <2>3, <3>1, <3>4, <3>5, <3>6, <3>7 DEF Custody
  <2> QED BY <1>7, <2>6, <2>7 DEF References
<1>8. CASE references' = [references EXCEPT ![h] = @ - 1] /\ UNCHANGED <<received, worker>>
  <2>1. Busy' = Busy
    BY <1>8 DEF Busy
  <2>2. \A k \in Modules \ {m}, n \in 1..MaxPublish : Holds(k, n)' <=> Holds(k, n)
    BY <1>2, <1>8, <2>1, HoldsKept
  <2>3. Holds(m, h) /\ ~Holds(m, h)'
    BY <1>3, <1>5, <2>1 DEF Holds, Receives
  <2>4. \A n \in 1..MaxPublish : n # h => (Holds(m, n)' <=> Holds(m, n))
    BY <1>3, <1>5, <2>1 DEF Holds, Receives
  <2>5. ReferencesAreHeld'
    <3> SUFFICES ASSUME NEW n \in 1..MaxPublish
                 PROVE  references'[n] = Cardinality(Holders(n)')
      BY DEF ReferencesAreHeld
    <3>1. CASE n = h
      BY <1>1, <1>4, <1>6, <1>8, <2>2, <2>3, <3>1, CountModule
         DEF References, ReferencesAreHeld
    <3>2. CASE n # h
      BY <1>1, <1>6, <1>8, <2>2, <2>4, <3>2, CountModule DEF References, ReferencesAreHeld
    <3> QED BY <3>1, <3>2
  <2>6. references' \in [1..MaxPublish -> Nat]
    <3>1. references'[h] \in Nat
      BY <1>4, <2>5, HoldersFinite DEF ReferencesAreHeld
    <3>2. references[h] - 1 \in Nat
      BY <1>4, <1>8, <3>1 DEF References
    <3> QED BY <1>8, <3>2 DEF References
  <2>7. Custody'
    <3>1. \A i \in DOMAIN mq'[m] : mq'[m][i] \in 1..MaxPublish
      <4>1. \A n \in Items(mq[m]) : n \in 1..MaxPublish
        BY DEF References, Custody, Items
      <4>2. \A n \in Items(mq'[m]) : n \in 1..MaxPublish
        BY <1>3, <4>1
      <4> QED BY <4>2 DEF Items
    <3>2. m \in Attached
      BY <1>1 DEF References, Custody
    <3>3. Attached' = Attached
      BY <1>1 DEF Attached
    <3> QED BY <1>1, <1>2, <1>6, <1>8, <2>1, <3>1, <3>2, <3>3 DEF References, Custody
  <2> QED BY <2>5, <2>6, <2>7 DEF References
<1> QED BY <1>1, <1>7, <1>8

LEMMA ReferencesWorker ==
  ASSUME Control, Guarded, Stream, References, NEW m \in Modules,
         WorkerNext(m) \/ SpuriousWakeup(m)
  PROVE  References'
<1>0. m \in Threads
  BY DEF Threads
<1>1. CASE \/ WorkerStart(m) \/ WorkerQuits(m) \/ WorkerWaits(m) \/ ReceivePublishes(m)
           \/ PublishFails(m) \/ SpuriousWakeup(m)
  <2>1. /\ UNCHANGED <<modules, modules_lock, client, rest, mq, published, received,
                       references>>
        /\ \E w \in {"lock", "wait", "exited", "Module_Receive", "Broker_Publish"} :
             /\ worker' = [worker EXCEPT ![m] = w]
             /\ w \in {"Module_Receive", "Broker_Publish"} <=>
                worker[m] \in {"Module_Receive", "Broker_Publish"}
        /\ worker[m] # "Broker_Publish" \/ modules_lock = None
    BY <1>1 DEF WorkerStart, WorkerQuits, WorkerWaits, ReceivePublishes, PublishFails,
                SpuriousWakeup
  <2>2. Busy' = Busy
    BY <2>1 DEF Busy, Control
  <2>3. modules_lock \in Modules =>
          modules_lock # m /\ worker'[modules_lock] = worker[modules_lock]
    BY <2>1, ThreadAssumption DEF References, Custody, Control
  <2>4. InPublish' <=> InPublish
    BY <2>1, <2>3 DEF InPublish, Publishing
  <2> QED BY <2>1, <2>2, <2>3, <2>4, ReferencesKept DEF References, Custody
<1>2. CASE WorkerDelivers(m)
  BY <1>2, ReferencesDeliver
<1>3. CASE WorkerPublish(m)
  <2>1. BeginPublish(m, m) /\ UNCHANGED <<client, worker>> /\ worker[m] = "Broker_Publish"
        /\ modules_lock' = m
    BY <1>3 DEF WorkerPublish, BeginPublish
  <2>2. Busy' = Busy /\ Publishing(m)'
    BY <2>1, ThreadAssumption DEF Busy, Publishing
  <2> QED BY <1>0, <2>1, <2>2, ReferencesBegin
<1>4. CASE OfferToNext(m)
  BY <1>0, <1>4, ReferencesOffer
<1>5. CASE EndPublish(m)
  BY <1>0, <1>5, ReferencesEnd
<1>6. CASE ReceiveReturns(m)
  <2>0. PICK h \in 1..MaxPublish : received[m] # <<>> /\ h = received[m][Len(received[m])]
    <3>1. m \in Busy
      BY <1>6 DEF ReceiveReturns, Busy
    <3>2. received[m] # <<>> /\ received[m] \in Seq(Nat)
      BY <3>1 DEF References, Custody, Stream
    <3> QED BY <3>2 DEF References, Custody
  <2>1. /\ worker[m] = "Module_Receive" /\ worker' = [worker EXCEPT ![m] = "lock"]
        /\ references' = [references EXCEPT ![h] = @ - 1]
        /\ UNCHANGED <<modules, modules_lock, client, rest, mq, published, received>>
    BY <1>6, <2>0 DEF ReceiveReturns
  <2>2. m \in Busy /\ Busy' = Busy \ {m}
    BY <2>1 DEF Busy, Control
  <2>3. modules_lock \in Modules =>
          modules_lock # m /\ worker'[modules_lock] = worker[modules_lock]
    BY <2>1 DEF References, Custody, Control
  <2>4. InPublish' <=> InPublish
    BY <2>1, <2>3 DEF InPublish, Publishing
  <2>5. \A k \in Modules \ {m}, n \in 1..MaxPublish : Holds(k, n)' <=> Holds(k, n)
    BY <2>1, <2>2, HoldsKept
  <2>6. Holds(m, h) /\ ~Holds(m, h)'
    <3>1. Receives(m, h) /\ h \in Nat
      BY <2>0, <2>2 DEF Receives
    <3>2. h \notin Items(mq[m])
      BY <3>1, HeldOnce
    <3> QED BY <2>1, <2>2, <3>1, <3>2 DEF Holds, Receives
  <2>7. \A n \in 1..MaxPublish : n # h => (Holds(m, n)' <=> Holds(m, n))
    BY <2>0, <2>1, <2>2 DEF Holds, Receives
  <2>8. ReferencesAreHeld'
    <3> SUFFICES ASSUME NEW n \in 1..MaxPublish
                 PROVE  references'[n] = Cardinality(Holders(n)')
      BY DEF ReferencesAreHeld
    <3>1. CASE n = h
      BY <2>1, <2>4, <2>5, <2>6, <3>1, CountModule DEF References, ReferencesAreHeld
    <3>2. CASE n # h
      BY <2>1, <2>4, <2>5, <2>7, <3>2, CountModule DEF References, ReferencesAreHeld
    <3> QED BY <3>1, <3>2
  <2>9. references' \in [1..MaxPublish -> Nat]
    <3>1. references'[h] \in Nat
      BY <2>8, HoldersFinite DEF ReferencesAreHeld
    <3>2. references[h] - 1 \in Nat
      BY <2>1, <3>1 DEF References
    <3> QED BY <2>1, <3>2 DEF References
  <2>10. Custody'
    BY <2>1, <2>2, <2>3, <2>4 DEF References, Custody, Attached
  <2> QED BY <2>8, <2>9, <2>10 DEF References
<1> QED BY <1>1, <1>2, <1>3, <1>4, <1>5, <1>6 DEF WorkerNext

\* Every reference of a message is held by its publisher, by a queue or by a
\* module that is receiving it, and is given back once: a message is freed with
\* its last holder, whatever platform calls fail.
THEOREM ReferencesAreExact == Spec => []ReferencesAreHeld
<1>1. Control /\ Guarded /\ Stream /\ References /\ [Next]_vars => References'
  <2> SUFFICES ASSUME Control, Guarded, Stream, References, [Next]_vars PROVE References'
    OBVIOUS
  <2>1. UNCHANGED vars => References'
    BY ReferencesKept DEF Busy, InPublish, Publishing, References, Custody
  <2> QED BY <2>1, ReferencesClient, ReferencesWorker DEF Next
<1>2. References => ReferencesAreHeld
  BY DEF References
<1> QED BY <1>1, <1>2, ReferencesInit, GuardedAlways, StreamAlways, PTL DEF Spec
=============================================================================
