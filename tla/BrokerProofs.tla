---------------------------- MODULE BrokerProofs ----------------------------
(***************************************************************************)
(* Theorems about Broker (core/src/broker.c) for every number of modules   *)
(* and client threads, every capacity of a socket and every set of failing *)
(* platform calls that a theorem does not exclude.                         *)
(***************************************************************************)
EXTENDS Broker, TLAPS

\* Broker_RemoveModule frees an entry whose thread it could not join; what
\* follows holds while ThreadAPI_Join does not fail.
JoinWorks == "ThreadAPI_Join" \notin MayFail

USE DEF clientVars, socketVars, vars

-----------------------------------------------------------------------------
(* Sequences *)

\* A buffer appended to the queue of a socket comes after the others.
LEMMA AppendIndex ==
  ASSUME NEW S, NEW s \in Seq(S), NEW e \in S
  PROVE  /\ Append(s, e) \in Seq(S)
         /\ DOMAIN Append(s, e) = DOMAIN s \cup {Len(s) + 1}
         /\ \A i \in DOMAIN s : Append(s, e)[i] = s[i] /\ i < Len(s) + 1
         /\ Append(s, e)[Len(s) + 1] = e
  OBVIOUS

\* What remains after the first buffer was read keeps its order.
LEMMA TailIndex ==
  ASSUME NEW S, NEW s \in Seq(S), s # <<>>
  PROVE  /\ Tail(s) \in Seq(S)
         /\ Head(s) = s[1] /\ 1 \in DOMAIN s /\ Head(s) \in S
         /\ \A i \in DOMAIN Tail(s) : /\ Tail(s)[i] = s[i + 1]
                                      /\ i + 1 \in DOMAIN s /\ 1 < i + 1
         /\ \A i \in DOMAIN s : i # 1 => i - 1 \in DOMAIN Tail(s)
  OBVIOUS

\* Everything the PUB socket carries is a topic and a number.
LEMMA EntryType ==
  /\ \A m \in Modules : Quit(m) \in Entry /\ Quit(m).n = 0
  /\ \A m \in Modules, n \in Nat : Message(m, n) \in Entry /\ Message(m, n).n = n
  BY DEF Quit, Message, Entry

LEMMA SentType ==
  ASSUME pipe \in [Modules -> Seq(Entry)], NEW e \in Entry
  PROVE  /\ Sent(e) \in [Modules -> Seq(Entry)]
         /\ \A m \in Modules : \/ Sent(e)[m] = pipe[m]
                               \/ /\ m \in open /\ Len(pipe[m]) < RcvCap
                                  /\ Sent(e)[m] = Append(pipe[m], e)
  BY DEF Sent

LEMMA ResetType ==
  ASSUME NEW p \in [Modules -> Seq(Entry)], NEW m
  PROVE  [p EXCEPT ![m] = <<>>] \in [Modules -> Seq(Entry)]
<1>1. <<>> \in Seq(Entry)
  OBVIOUS
<1> QED BY <1>1

\* The numbers of the entries that wait for a module, and of what it received.
LEMMA Numbers ==
  ASSUME TypeOK, NEW k \in Modules
  PROVE  /\ pipe[k] \in Seq(Entry) /\ received[k] \in Seq(Nat) /\ published \in Nat
         /\ \A i \in DOMAIN pipe[k] : pipe[k][i].n \in Nat
         /\ \A i \in DOMAIN received[k] : received[k][i] \in Nat
<1>1. pipe[k] \in Seq(Entry) /\ received[k] \in Seq(Nat) /\ published \in Nat
  BY DEF TypeOK
<1>2. \A i \in DOMAIN pipe[k] : pipe[k][i] \in Entry
  BY <1>1
<1>3. \A i \in DOMAIN pipe[k] : pipe[k][i].n \in Nat
  BY <1>2 DEF Entry
<1>4. \A i \in DOMAIN received[k] : received[k][i] \in Nat
  BY <1>1
<1> QED BY <1>1, <1>3, <1>4

-----------------------------------------------------------------------------
(* Type correctness *)

LEMMA TypeInit == Init => TypeOK
  BY DEF Init, TypeOK

LEMMA TypeClient ==
  ASSUME TypeOK, NEW c \in Clients, ClientNext(c)
  PROVE  TypeOK'
<1> USE DEF TypeOK
<1>1. ASSUME NEW m \in Modules, Broker_AddModule(c, m) PROVE TypeOK'
  BY <1>1 DEF Broker_AddModule, init_module, start_module, CanLock
<1>2. ASSUME NEW m \in Modules, SendQuit(c, m) PROVE TypeOK'
  <2>1. pipe' \in [Modules -> Seq(Entry)]
    <3>1. Sent(Quit(m)) \in [Modules -> Seq(Entry)]
      BY SentType, EntryType
    <3>2. [pipe EXCEPT ![m] = <<>>] \in [Modules -> Seq(Entry)]
      BY ResetType
    <3> QED BY <1>2, <3>1, <3>2 DEF SendQuit
  <2> QED BY <1>2, <2>1 DEF SendQuit, CanLock
<1>3. ASSUME NEW m \in Modules, Broker_Publish(c, m) PROVE TypeOK'
  <2>1. pipe' \in [Modules -> Seq(Entry)]
    BY <1>3, SentType, EntryType DEF Broker_Publish, SendMessage
  <2> QED BY <1>3, <2>1 DEF Broker_Publish, SendMessage
<1>4. ASSUME NEW m \in Modules, NEW s \in Modules, Broker_AddLink(c, s, m)
      PROVE  TypeOK'
  BY <1>4 DEF Broker_AddLink, CanLock
<1>5. ASSUME NEW m \in Modules, NEW s \in Modules, Broker_RemoveLink(c, s, m)
      PROVE  TypeOK'
  BY <1>5 DEF Broker_RemoveLink, CanLock
<1>6. CASE CloseSocket(c)
  <2>1. pipe' \in [Modules -> Seq(Entry)]
    <3>1. [pipe EXCEPT ![target[c]] = <<>>] \in [Modules -> Seq(Entry)]
      BY ResetType
    <3> QED BY <1>6, <3>1 DEF CloseSocket
  <2>2. socket_lock' \in [Modules -> BOOLEAN]
    BY <1>6 DEF CloseSocket
  <2> QED BY <1>6, <2>1, <2>2 DEF CloseSocket
<1>7. CASE JoinWorker(c)
  BY <1>7 DEF JoinWorker
<1>8. CASE CallReportsError(c)
  BY <1>8 DEF CallReportsError
<1> QED BY <1>1, <1>2, <1>3, <1>4, <1>5, <1>6, <1>7, <1>8 DEF ClientNext

LEMMA TypeWorker ==
  ASSUME TypeOK, NEW m \in Modules, WorkerNext(m)
  PROVE  TypeOK'
<1> USE DEF TypeOK
<1>1. CASE WorkerLock(m)
  BY <1>1 DEF WorkerLock
<1>2. CASE WorkerSkip(m)
  BY <1>2, TailIndex DEF WorkerSkip
<1>3. CASE WorkerRecv(m)
  <2>1. Tail(pipe[m]) \in Seq(Entry) /\ Head(pipe[m]) \in Entry
    BY <1>3, TailIndex DEF WorkerRecv
  <2>2. Head(pipe[m]).n \in Nat
    BY <2>1 DEF Entry
  <2>3. received' \in [Modules -> Seq(Nat)]
    <3>1. Append(received[m], Head(pipe[m]).n) \in Seq(Nat)
      BY <2>2, AppendIndex
    <3> QED BY <1>3, <3>1 DEF WorkerRecv
  <2> QED BY <1>3, <2>1, <2>3 DEF WorkerRecv
<1>4. CASE WorkerRecvError(m)
  BY <1>4 DEF WorkerRecvError
<1>5. CASE ReceivePublishes(m)
  BY <1>5 DEF ReceivePublishes
<1>6. CASE WorkerPublish(m)
  <2>1. pipe' \in [Modules -> Seq(Entry)]
    BY <1>6, SentType, EntryType DEF WorkerPublish, SendMessage, PublishFails
  <2>2. worker' = [worker EXCEPT ![m] = "Module_Receive"]
    BY <1>6 DEF WorkerPublish
  <2>3. CASE SendMessage(m)
    BY <2>1, <2>2, <2>3 DEF SendMessage
  <2>4. CASE PublishFails
    BY <2>2, <2>4 DEF PublishFails
  <2> QED BY <1>6, <2>3, <2>4 DEF WorkerPublish
<1>7. CASE ReceiveReturns(m)
  BY <1>7 DEF ReceiveReturns
<1> QED BY <1>1, <1>2, <1>3, <1>4, <1>5, <1>6, <1>7 DEF WorkerNext

\* The state of the broker keeps its types, whatever platform calls fail.
THEOREM TypeCorrect == Spec => []TypeOK
<1>1. TypeOK /\ [Next]_vars => TypeOK'
  <2>1. TypeOK /\ UNCHANGED vars => TypeOK'
    BY DEF TypeOK
  <2> QED BY <2>1, TypeClient, TypeWorker DEF Next
<1> QED BY <1>1, TypeInit, PTL DEF Spec

-----------------------------------------------------------------------------
(* Order of delivery *)

\* An entry sent to a socket is a quit signal or newer than what is there.
LEMMA OrderOfSend ==
  ASSUME TypeOK, NEW k \in Modules, PipeInOrder(k), NEW e \in Entry,
         published' \in Nat, published <= published', received' = received,
         e.n = 0 \/ (published < e.n /\ e.n <= published'),
         pipe' = Sent(e)
  PROVE  PipeInOrder(k)'
<1>1. CASE pipe'[k] = pipe[k]
  BY <1>1, Numbers DEF PipeInOrder
<1>2. CASE pipe'[k] = Append(pipe[k], e)
  <2> DEFINE p == pipe[k]
  <2>1. p \in Seq(Entry) /\ received[k] \in Seq(Nat) /\ e.n \in Nat
        /\ \A i \in DOMAIN p : p[i].n \in Nat
    BY Numbers DEF Entry
  <2>2. /\ DOMAIN pipe'[k] = DOMAIN p \cup {Len(p) + 1}
        /\ \A i \in DOMAIN p : pipe'[k][i] = p[i] /\ i < Len(p) + 1
        /\ pipe'[k][Len(p) + 1] = e
    BY <1>2, <2>1, AppendIndex
  <2>3. \A i \in DOMAIN p : p[i].n <= published
    BY DEF PipeInOrder
  <2>4. \A i \in DOMAIN received[k] : received[k][i] <= published
    BY DEF PipeInOrder
  <2>5. /\ \A i \in DOMAIN received'[k] : received'[k][i] <= published'
        /\ \A i, j \in DOMAIN received'[k] : i < j => received'[k][i] < received'[k][j]
    BY <2>1, <2>4 DEF PipeInOrder, TypeOK
  <2>6. \A i \in DOMAIN pipe'[k] : pipe'[k][i].n <= published'
    BY <2>1, <2>2, <2>3 DEF TypeOK
  <2>7. \A i, j \in DOMAIN pipe'[k] :
          i < j /\ pipe'[k][i].n # 0 /\ pipe'[k][j].n # 0
            => pipe'[k][i].n < pipe'[k][j].n
    <3> SUFFICES ASSUME NEW i \in DOMAIN pipe'[k], NEW j \in DOMAIN pipe'[k], i < j,
                        pipe'[k][i].n # 0, pipe'[k][j].n # 0
                 PROVE  pipe'[k][i].n < pipe'[k][j].n
      OBVIOUS
    <3>1. CASE j \in DOMAIN p
      BY <2>1, <2>2, <3>1 DEF PipeInOrder
    <3>2. CASE j = Len(p) + 1
      BY <2>1, <2>2, <2>3, <3>2 DEF TypeOK
    <3> QED BY <2>2, <3>1, <3>2
  <2>8. \A i \in DOMAIN received'[k], j \in DOMAIN pipe'[k] :
          pipe'[k][j].n # 0 => received'[k][i] < pipe'[k][j].n
    <3> SUFFICES ASSUME NEW i \in DOMAIN received[k], NEW j \in DOMAIN pipe'[k],
                        pipe'[k][j].n # 0
                 PROVE  received[k][i] < pipe'[k][j].n
      OBVIOUS
    <3>1. CASE j \in DOMAIN p
      BY <2>2, <3>1 DEF PipeInOrder
    <3>2. CASE j = Len(p) + 1
      BY <2>1, <2>2, <2>4, <3>2 DEF TypeOK
    <3> QED BY <2>2, <3>1, <3>2
  <2> QED BY <2>5, <2>6, <2>7, <2>8 DEF PipeInOrder
<1> QED BY <1>1, <1>2, SentType DEF TypeOK

\* A socket that is closed, or opened, is empty.
LEMMA OrderOfReset ==
  ASSUME TypeOK, NEW k \in Modules, PipeInOrder(k),
         published' = published, received' = received,
         pipe'[k] = pipe[k] \/ pipe'[k] = <<>>
  PROVE  PipeInOrder(k)'
  BY DEF TypeOK, PipeInOrder

\* The first entry leaves the socket, and nothing older is behind it.
LEMMA OrderOfRead ==
  ASSUME TypeOK, NEW k \in Modules, PipeInOrder(k), pipe[k] # <<>>,
         published' = published, pipe'[k] = Tail(pipe[k]),
         \/ received'[k] = received[k]
         \/ /\ Head(pipe[k]).n # 0
            /\ received'[k] = Append(received[k], Head(pipe[k]).n)
  PROVE  PipeInOrder(k)'
<1> DEFINE p == pipe[k]
           r == received[k]
           n == Head(p).n
<1>1. p \in Seq(Entry) /\ r \in Seq(Nat) /\ published \in Nat
      /\ \A i \in DOMAIN p : p[i].n \in Nat
  BY Numbers
<1>2. /\ Head(p) = p[1] /\ 1 \in DOMAIN p /\ n \in Nat
      /\ \A i \in DOMAIN pipe'[k] : /\ pipe'[k][i] = p[i + 1]
                                    /\ i + 1 \in DOMAIN p /\ 1 < i + 1
                                    /\ i \in Nat
  <2>1. Tail(p) \in Seq(Entry) BY <1>1, TailIndex
  <2>2. \A i \in DOMAIN Tail(p) : i \in Nat BY <2>1
  <2> QED BY <1>1, <2>2, TailIndex
<1>3. /\ \A i \in DOMAIN pipe'[k] : pipe'[k][i].n <= published'
      /\ \A i, j \in DOMAIN pipe'[k] :
           i < j /\ pipe'[k][i].n # 0 /\ pipe'[k][j].n # 0
             => pipe'[k][i].n < pipe'[k][j].n
  <2>1. \A i \in DOMAIN p : p[i].n <= published
    BY DEF PipeInOrder
  <2>2. \A i, j \in DOMAIN p :
          i < j /\ p[i].n # 0 /\ p[j].n # 0 => p[i].n < p[j].n
    BY DEF PipeInOrder
  <2>3. \A i \in DOMAIN pipe'[k] : pipe'[k][i].n <= published'
    BY <1>2, <2>1
  <2>4. ASSUME NEW i \in DOMAIN pipe'[k], NEW j \in DOMAIN pipe'[k],
               i < j, pipe'[k][i].n # 0, pipe'[k][j].n # 0
        PROVE  pipe'[k][i].n < pipe'[k][j].n
    <3>1. /\ pipe'[k][i] = p[i + 1] /\ i + 1 \in DOMAIN p /\ i \in Nat
          /\ pipe'[k][j] = p[j + 1] /\ j + 1 \in DOMAIN p /\ j \in Nat
      BY <1>2
    <3>2. i + 1 < j + 1
      BY <2>4, <3>1
    <3> QED BY <2>2, <2>4, <3>1, <3>2
  <2> QED BY <2>3, <2>4
<1>4. \A j \in DOMAIN pipe'[k] : pipe'[k][j].n # 0 =>
        /\ \A i \in DOMAIN r : r[i] < pipe'[k][j].n
        /\ n # 0 => n < pipe'[k][j].n
  BY <1>1, <1>2 DEF PipeInOrder
<1>5. CASE received'[k] = r
  BY <1>3, <1>4, <1>5 DEF PipeInOrder
<1>6. CASE n # 0 /\ received'[k] = Append(r, n)
  <2>1. /\ DOMAIN received'[k] = DOMAIN r \cup {Len(r) + 1}
        /\ \A i \in DOMAIN r : received'[k][i] = r[i] /\ i < Len(r) + 1
        /\ received'[k][Len(r) + 1] = n
        /\ \A i \in DOMAIN r : i \in Nat
    BY <1>1, <1>2, <1>6, AppendIndex
  <2>2. n <= published /\ \A i \in DOMAIN r : r[i] < n
    BY <1>2, <1>6 DEF PipeInOrder
  <2>3. \A i \in DOMAIN received'[k] : received'[k][i] <= published'
    BY <2>1, <2>2 DEF PipeInOrder
  <2>4. \A i, j \in DOMAIN received'[k] : i < j => received'[k][i] < received'[k][j]
    <3> SUFFICES ASSUME NEW i \in DOMAIN received'[k], NEW j \in DOMAIN received'[k],
                        i < j
                 PROVE  received'[k][i] < received'[k][j]
      OBVIOUS
    <3>1. CASE j \in DOMAIN r
      BY <1>1, <2>1, <3>1 DEF PipeInOrder
    <3>2. CASE j = Len(r) + 1
      BY <1>1, <2>1, <2>2, <3>2
    <3> QED BY <2>1, <3>1, <3>2
  <2>5. \A i \in DOMAIN received'[k], j \in DOMAIN pipe'[k] :
          pipe'[k][j].n # 0 => received'[k][i] < pipe'[k][j].n
    BY <1>4, <1>6, <2>1
  <2> QED BY <1>3, <2>3, <2>4, <2>5 DEF PipeInOrder
<1> QED BY <1>5, <1>6

Ordered == \A k \in Modules : PipeInOrder(k)

LEMMA OrderOfMessage ==
  ASSUME TypeOK, Ordered, NEW m \in Modules, SendMessage(m)
  PROVE  Ordered'
<1>1. published \in Nat
  BY DEF TypeOK
<1>2. /\ Message(m, published + 1) \in Entry
      /\ Message(m, published + 1).n = published + 1
  BY <1>1, EntryType
<1> QED BY <1>1, <1>2, OrderOfSend DEF SendMessage, Ordered

LEMMA OrderKept ==
  ASSUME TypeOK, Ordered, UNCHANGED <<pipe, published, received>>
  PROVE  Ordered'
  BY DEF Ordered, PipeInOrder

LEMMA OrderOfClient ==
  ASSUME TypeOK, Ordered, NEW c \in Clients, ClientNext(c)
  PROVE  Ordered'
<1>1. ASSUME NEW m \in Modules, Broker_AddModule(c, m) PROVE Ordered'
  <2>1. \A k \in Modules : pipe'[k] = pipe[k] \/ pipe'[k] = <<>>
    BY <1>1 DEF Broker_AddModule, init_module, start_module, TypeOK
  <2>2. published' = published /\ received' = received
    BY <1>1 DEF Broker_AddModule, init_module, start_module
  <2> QED BY <2>1, <2>2, OrderOfReset DEF Ordered
<1>2. ASSUME NEW m \in Modules, SendQuit(c, m) PROVE Ordered'
  <2>1. published' = published /\ received' = received /\ published \in Nat
    BY <1>2 DEF SendQuit, TypeOK
  <2>2. CASE pipe' = Sent(Quit(m))
    BY <2>1, <2>2, EntryType, OrderOfSend DEF Ordered
  <2>3. CASE pipe' = [pipe EXCEPT ![m] = <<>>]
    <3>1. \A k \in Modules : pipe'[k] = pipe[k] \/ pipe'[k] = <<>>
      BY <2>3 DEF TypeOK
    <3> QED BY <2>1, <3>1, OrderOfReset DEF Ordered
  <2> QED BY <1>2, <2>2, <2>3 DEF SendQuit
<1>3. ASSUME NEW m \in Modules, Broker_Publish(c, m) PROVE Ordered'
  BY <1>3, OrderOfMessage DEF Broker_Publish
<1>4. ASSUME NEW m \in Modules, NEW s \in Modules, Broker_AddLink(c, s, m)
      PROVE  Ordered'
  BY <1>4, OrderKept DEF Broker_AddLink
<1>5. ASSUME NEW m \in Modules, NEW s \in Modules, Broker_RemoveLink(c, s, m)
      PROVE  Ordered'
  BY <1>5, OrderKept DEF Broker_RemoveLink
<1>6. CASE CloseSocket(c)
  <2>1. \A k \in Modules : pipe'[k] = pipe[k] \/ pipe'[k] = <<>>
    BY <1>6 DEF CloseSocket, TypeOK
  <2>2. published' = published /\ received' = received
    BY <1>6 DEF CloseSocket
  <2> QED BY <2>1, <2>2, OrderOfReset DEF Ordered
<1>7. CASE JoinWorker(c)
  BY <1>7, OrderKept DEF JoinWorker
<1>8. CASE CallReportsError(c)
  BY <1>8, OrderKept DEF CallReportsError
<1> QED BY <1>1, <1>2, <1>3, <1>4, <1>5, <1>6, <1>7, <1>8 DEF ClientNext

LEMMA OrderOfWorker ==
  ASSUME TypeOK, Ordered, NEW m \in Modules, WorkerNext(m)
  PROVE  Ordered'
<1>1. CASE WorkerLock(m)
  BY <1>1, OrderKept DEF WorkerLock
<1>2. CASE WorkerSkip(m)
  <2> SUFFICES ASSUME NEW k \in Modules PROVE PipeInOrder(k)'
    BY DEF Ordered
  <2>1. CASE k = m
    <3>1. /\ pipe[k] # <<>> /\ pipe'[k] = Tail(pipe[k])
          /\ published' = published /\ received'[k] = received[k]
      BY <1>2, <2>1 DEF WorkerSkip, TypeOK
    <3> QED BY <3>1, OrderOfRead DEF Ordered
  <2>2. CASE k # m
    <3>1. pipe'[k] = pipe[k] /\ published' = published /\ received'[k] = received[k]
      BY <1>2, <2>2 DEF WorkerSkip, TypeOK
    <3> QED BY <3>1 DEF Ordered, PipeInOrder
  <2> QED BY <2>1, <2>2
<1>3. CASE WorkerRecv(m)
  <2> SUFFICES ASSUME NEW k \in Modules PROVE PipeInOrder(k)'
    BY DEF Ordered
  <2>0. received \in [Modules -> Seq(Nat)] /\ pipe \in [Modules -> Seq(Entry)]
    BY DEF TypeOK
  <2>1. CASE k = m
    <3>1. pipe[k] # <<>> /\ pipe'[k] = Tail(pipe[k]) /\ published' = published
      BY <1>3, <2>0, <2>1 DEF WorkerRecv
    <3>2. \/ received'[k] = received[k]
          \/ /\ Head(pipe[k]).n # 0
             /\ received'[k] = Append(received[k], Head(pipe[k]).n)
      BY <1>3, <2>0, <2>1 DEF WorkerRecv
    <3> QED BY <3>1, <3>2, OrderOfRead DEF Ordered
  <2>2. CASE k # m
    <3>1. pipe'[k] = pipe[k] /\ published' = published /\ received'[k] = received[k]
      BY <1>3, <2>0, <2>2 DEF WorkerRecv
    <3> QED BY <3>1 DEF Ordered, PipeInOrder
  <2> QED BY <2>1, <2>2
<1>4. CASE WorkerRecvError(m)
  BY <1>4, OrderKept DEF WorkerRecvError
<1>5. CASE ReceivePublishes(m)
  BY <1>5, OrderKept DEF ReceivePublishes
<1>6. CASE WorkerPublish(m)
  BY <1>6, OrderOfMessage, OrderKept DEF WorkerPublish, PublishFails
<1>7. CASE ReceiveReturns(m)
  BY <1>7, OrderKept DEF ReceiveReturns
<1> QED BY <1>1, <1>2, <1>3, <1>4, <1>5, <1>6, <1>7 DEF WorkerNext

\* Modules receive messages in the order of publication, whatever platform
\* calls fail and however full the sockets are.
THEOREM DeliveryInOrder == Spec => []InPublicationOrder
<1>1. Init => Ordered
  BY DEF Init, Ordered, PipeInOrder
<1>2. TypeOK /\ Ordered /\ [Next]_vars => Ordered'
  BY OrderOfClient, OrderOfWorker, OrderKept DEF Next
<1>3. TypeOK /\ Ordered => InPublicationOrder
  <2> SUFFICES ASSUME TypeOK, Ordered, NEW k \in Modules,
                      NEW i \in 1..Len(received[k]), NEW j \in 1..Len(received[k]),
                      i < j
               PROVE  received[k][i] < received[k][j]
    BY DEF InPublicationOrder, Delivery!InPublicationOrder
  <2>1. DOMAIN received[k] = 1..Len(received[k])
    BY Numbers
  <2> QED BY <2>1 DEF Ordered, PipeInOrder
<1> QED BY <1>1, <1>2, <1>3, TypeCorrect, PTL DEF Spec

-----------------------------------------------------------------------------
(* Life of the workers and of the sockets *)

Structure == LockHolder /\ TargetIsAttached /\ SocketsOfModules /\ WorkersOfModules

\* While modules_lock is free no client is inside stop_module.
LEMMA FreeLock ==
  ASSUME TypeOK, LockHolder, modules_lock = None
  PROVE  \A c \in Clients : client[c] = "idle"
  BY ThreadAssumption DEF LockHolder

LEMMA SentToOpen ==
  ASSUME TypeOK, SocketsOfModules, NEW e \in Entry, pipe' = Sent(e),
         open' = open, modules' = modules
  PROVE  SocketsOfModules'
  BY SentType DEF SocketsOfModules, TypeOK

LEMMA StructureKept ==
  ASSUME Structure,
         UNCHANGED <<modules, modules_lock, client, target, open, pipe>>,
         \A m \in Modules : worker'[m] = "none" <=> worker[m] = "none"
  PROVE  Structure'
  BY DEF Structure, LockHolder, TargetIsAttached, SocketsOfModules, WorkersOfModules

LEMMA StructureOfMessage ==
  ASSUME TypeOK, Structure, NEW m \in Modules, SendMessage(m),
         \A k \in Modules : worker'[k] = "none" <=> worker[k] = "none"
  PROVE  Structure'
<1>1. Message(m, published + 1) \in Entry
  BY EntryType DEF TypeOK
<1>2. SocketsOfModules'
  BY <1>1, SentToOpen DEF Structure, SendMessage
<1> QED BY <1>2 DEF Structure, SendMessage, LockHolder, TargetIsAttached,
                    WorkersOfModules

LEMMA StructureOfClient ==
  ASSUME JoinWorks, TypeOK, Structure, NEW c \in Clients, ClientNext(c)
  PROVE  Structure'
<1> USE DEF Structure
<1>1. ASSUME NEW m \in Modules, Broker_AddModule(c, m) PROVE Structure'
  <2>1. \A d \in Clients : client[d] = "idle"
    BY <1>1, FreeLock DEF Broker_AddModule, init_module, start_module, CanLock
  <2>2. LockHolder'
    BY <1>1 DEF Broker_AddModule, init_module, start_module, LockHolder
  <2>3. TargetIsAttached'
    BY <1>1, <2>1 DEF Broker_AddModule, init_module, start_module, TargetIsAttached
  <2>4. SocketsOfModules'
    BY <1>1 DEF Broker_AddModule, init_module, start_module, SocketsOfModules, TypeOK
  <2>5. WorkersOfModules'
    BY <1>1 DEF Broker_AddModule, init_module, start_module, WorkersOfModules, TypeOK
  <2> QED BY <2>2, <2>3, <2>4, <2>5
<1>2. ASSUME NEW m \in Modules, SendQuit(c, m) PROVE Structure'
  <2>1. \A d \in Clients : client[d] = "idle"
    BY <1>2, FreeLock DEF SendQuit, CanLock
  <2>2. LockHolder'
    BY <1>2, <2>1 DEF SendQuit, LockHolder, TypeOK
  <2>3. TargetIsAttached'
    BY <1>2, <2>1 DEF SendQuit, TargetIsAttached, TypeOK
  <2>4. SocketsOfModules'
    <3>1. CASE pipe' = Sent(Quit(m)) /\ open' = open
      BY <1>2, <3>1, EntryType, SentToOpen DEF SendQuit
    <3>2. CASE pipe' = [pipe EXCEPT ![m] = <<>>] /\ open' = open \ {m}
      BY <1>2, <3>2 DEF SendQuit, SocketsOfModules, TypeOK
    <3> QED BY <1>2, <3>1, <3>2 DEF SendQuit
  <2>5. WorkersOfModules'
    BY <1>2 DEF SendQuit, WorkersOfModules
  <2> QED BY <2>2, <2>3, <2>4, <2>5
<1>3. ASSUME NEW m \in Modules, Broker_Publish(c, m) PROVE Structure'
  BY <1>3, StructureOfMessage DEF Broker_Publish
<1>4. ASSUME NEW m \in Modules, NEW s \in Modules, Broker_AddLink(c, s, m)
      PROVE  Structure'
  BY <1>4, StructureKept DEF Broker_AddLink
<1>5. ASSUME NEW m \in Modules, NEW s \in Modules, Broker_RemoveLink(c, s, m)
      PROVE  Structure'
  BY <1>5, StructureKept DEF Broker_RemoveLink
<1>6. CASE CloseSocket(c)
  <2>1. LockHolder'
    BY <1>6 DEF CloseSocket, LockHolder, TypeOK
  <2>2. TargetIsAttached'
    BY <1>6 DEF CloseSocket, TargetIsAttached, TypeOK
  <2>3. SocketsOfModules'
    BY <1>6 DEF CloseSocket, SocketsOfModules, TypeOK
  <2>4. WorkersOfModules'
    BY <1>6 DEF CloseSocket, WorkersOfModules
  <2> QED BY <2>1, <2>2, <2>3, <2>4
<1>7. CASE JoinWorker(c)
  <2> DEFINE m == target[c]
  <2>1. /\ client[c] = "join" /\ modules_lock = c /\ m \in modules /\ m \notin open
        /\ m \in Modules
        /\ \A d \in Clients \ {c} : client[d] = "idle"
    BY <1>7 DEF JoinWorker, LockHolder, TargetIsAttached, TypeOK
  <2>2. LockHolder'
    BY <1>7, <2>1, ThreadAssumption DEF JoinWorker, LockHolder, TypeOK
  <2>3. TargetIsAttached'
    BY <1>7, <2>1 DEF JoinWorker, TargetIsAttached, TypeOK
  <2>4. SocketsOfModules'
    BY <1>7, <2>1 DEF JoinWorker, SocketsOfModules
  <2>5. WorkersOfModules'
    BY <1>7, <2>1 DEF JoinWorker, JoinWorks, WorkersOfModules, TypeOK
  <2> QED BY <2>2, <2>3, <2>4, <2>5
<1>8. CASE CallReportsError(c)
  BY <1>8, StructureKept DEF CallReportsError
<1> QED BY <1>1, <1>2, <1>3, <1>4, <1>5, <1>6, <1>7, <1>8 DEF ClientNext

LEMMA StructureOfWorker ==
  ASSUME TypeOK, Structure, NEW m \in Modules, WorkerNext(m)
  PROVE  Structure'
<1>0. worker \in [Modules -> {"none", "lock", "recv", "Module_Receive",
                              "Broker_Publish", "exited"}]
  BY DEF TypeOK
<1>1. CASE WorkerLock(m)
  BY <1>0, <1>1, StructureKept DEF WorkerLock
<1>2. CASE WorkerSkip(m)
  BY <1>2 DEF WorkerSkip, Structure, LockHolder, TargetIsAttached, SocketsOfModules,
              WorkersOfModules, TypeOK
<1>3. CASE WorkerRecv(m)
  <2>1. LockHolder' /\ TargetIsAttached'
    BY <1>3 DEF WorkerRecv, Structure, LockHolder, TargetIsAttached
  <2>2. SocketsOfModules'
    BY <1>3 DEF WorkerRecv, Structure, SocketsOfModules, TypeOK
  <2>3. WorkersOfModules'
    BY <1>0, <1>3 DEF WorkerRecv, Structure, WorkersOfModules
  <2> QED BY <2>1, <2>2, <2>3 DEF Structure
<1>4. CASE WorkerRecvError(m)
  BY <1>0, <1>4, StructureKept DEF WorkerRecvError
<1>5. CASE ReceivePublishes(m)
  BY <1>0, <1>5, StructureKept DEF ReceivePublishes
<1>6. CASE WorkerPublish(m)
  <2>1. \A k \in Modules : worker'[k] = "none" <=> worker[k] = "none"
    BY <1>0, <1>6 DEF WorkerPublish
  <2> QED BY <1>6, <2>1, StructureOfMessage, StructureKept DEF WorkerPublish, PublishFails
<1>7. CASE ReceiveReturns(m)
  BY <1>0, <1>7, StructureKept DEF ReceiveReturns
<1> QED BY <1>1, <1>2, <1>3, <1>4, <1>5, <1>6, <1>7 DEF WorkerNext

\* The inductive invariant holds of every behaviour.
THEOREM Invariance == ASSUME JoinWorks PROVE Spec => []BrokerInv
<1>1. Init => Structure /\ Ordered
  BY ThreadAssumption DEF Init, Structure, LockHolder, TargetIsAttached,
     SocketsOfModules, WorkersOfModules, Ordered, PipeInOrder
<1>2. TypeOK /\ Structure /\ Ordered /\ [Next]_vars => (Structure /\ Ordered)'
  <2>1. TypeOK /\ Structure /\ Ordered /\ UNCHANGED vars => (Structure /\ Ordered)'
    BY StructureKept, OrderKept
  <2> QED BY <2>1, StructureOfClient, StructureOfWorker, OrderOfClient, OrderOfWorker
             DEF Next
<1>3. Structure /\ Ordered => BrokerInv
  BY DEF Structure, Ordered, BrokerInv
<1> QED BY <1>1, <1>2, <1>3, TypeCorrect, PTL DEF Spec

\* A worker thread, and the Module_Receive it calls, has a BROKER_MODULEINFO and
\* an attached module for as long as it runs.
THEOREM WorkerSafety == ASSUME JoinWorks PROVE Spec => []WorkerIsAttached
<1>1. BrokerInv => WorkerIsAttached
  BY DEF BrokerInv, WorkersOfModules, WorkerIsAttached, Alive
<1> QED BY <1>1, Invariance, PTL

RecvHoldsLock == \A m \in Modules : worker[m] = "recv" => socket_lock[m]

\* The socket of a module is not closed while its worker is inside nn_recv, as
\* long as stop_module can send the quit signal and take socket_lock.
THEOREM CloseExcludesRecv ==
  ASSUME "Lock" \notin MayFail, "nn_send" \notin MayFail
  PROVE  Spec => NoCloseDuringRecv
<1>1. Init => RecvHoldsLock
  BY DEF Init, RecvHoldsLock
<1>2. TypeOK /\ RecvHoldsLock /\ [Next]_vars => RecvHoldsLock'
  <2> SUFFICES ASSUME TypeOK, RecvHoldsLock, [Next]_vars PROVE RecvHoldsLock'
    OBVIOUS
  <2>1. ASSUME NEW c \in Clients, ClientNext(c) PROVE RecvHoldsLock'
    BY <2>1, ZenonT(30)
    DEF ClientNext, Broker_AddModule, init_module, start_module, SendQuit, Broker_Publish,
        SendMessage, Broker_AddLink, Broker_RemoveLink, CloseSocket, JoinWorker,
        CallReportsError, RecvHoldsLock, TypeOK
  <2>2. ASSUME NEW m \in Modules, WorkerNext(m) PROVE RecvHoldsLock'
    BY <2>2 DEF WorkerNext, WorkerLock, WorkerSkip, WorkerRecv, WorkerRecvError,
       ReceivePublishes, WorkerPublish, SendMessage, PublishFails, ReceiveReturns,
       RecvHoldsLock, TypeOK
  <2>3. CASE UNCHANGED vars
    BY <2>3 DEF RecvHoldsLock
  <2> QED BY <2>1, <2>2, <2>3 DEF Next
<1>3. RecvHoldsLock /\ [Next]_vars =>
        [\A m \in Modules : m \in open /\ m \notin open' => worker[m] # "recv"]_vars
  <2> SUFFICES ASSUME RecvHoldsLock, Next, NEW m \in Modules,
                      m \in open, m \notin open'
               PROVE  worker[m] # "recv"
    OBVIOUS
  <2>1. PICK c \in Clients : CloseSocket(c) /\ target[c] = m
    BY DEF Next, ClientNext, Broker_AddModule, init_module, start_module, SendQuit,
           Broker_Publish, SendMessage,
       Broker_AddLink, Broker_RemoveLink, CloseSocket, JoinWorker, CallReportsError,
       WorkerNext, WorkerLock, WorkerSkip, WorkerRecv, WorkerRecvError,
       ReceivePublishes, WorkerPublish, PublishFails, ReceiveReturns
  <2>2. ~socket_lock[m]
    BY <2>1 DEF CloseSocket
  <2> QED BY <2>2 DEF RecvHoldsLock
<1> QED BY <1>1, <1>2, <1>3, TypeCorrect, PTL DEF Spec, NoCloseDuringRecv

-----------------------------------------------------------------------------
(* Broker implements ModuleDelivery *)

Pending == [m \in Modules |-> Queued(m)]

LEMMA QueuedOfSend ==
  ASSUME TypeOK, NEW e \in Entry, pipe' = Sent(e), NEW k \in Modules
  PROVE  /\ \/ Queued(k)' = Queued(k)
            \/ k \in open /\ Queued(k)' = Queued(k) \cup ({e.n} \ {0})
         /\ e.n = 0 => Queued(k)' = Queued(k)
<1>1. CASE pipe'[k] = pipe[k]
  BY <1>1 DEF Queued
<1>2. CASE k \in open /\ pipe'[k] = Append(pipe[k], e)
  <2>1. /\ DOMAIN pipe'[k] = DOMAIN pipe[k] \cup {Len(pipe[k]) + 1}
        /\ \A i \in DOMAIN pipe[k] : pipe'[k][i] = pipe[k][i]
        /\ pipe'[k][Len(pipe[k]) + 1] = e
    BY <1>2, Numbers, AppendIndex
  <2>2. Queued(k)' = Queued(k) \cup ({e.n} \ {0})
    BY <2>1 DEF Queued
  <2> QED BY <1>2, <2>2
<1> QED BY <1>1, <1>2, SentType DEF TypeOK

LEMMA QueuedOfRead ==
  ASSUME TypeOK, NEW k \in Modules, PipeInOrder(k), pipe[k] # <<>>,
         pipe'[k] = Tail(pipe[k])
  PROVE  /\ Queued(k)' \subseteq Queued(k)
         /\ Head(pipe[k]).n # 0 =>
              /\ Head(pipe[k]).n \in Queued(k)
              /\ Queued(k)' = {j \in Queued(k) : j > Head(pipe[k]).n}
<1> DEFINE p == pipe[k]
           n == Head(p).n
<1>1. /\ p \in Seq(Entry) /\ \A i \in DOMAIN p : p[i].n \in Nat
      /\ Head(p) = p[1] /\ 1 \in DOMAIN p /\ n \in Nat
      /\ \A i \in DOMAIN p : i \in Nat /\ (i # 1 => i > 1)
  BY Numbers, TailIndex
<1>2. /\ \A i \in DOMAIN pipe'[k] : pipe'[k][i] = p[i + 1] /\ i + 1 \in DOMAIN p
      /\ \A i \in DOMAIN p : i # 1 => /\ i - 1 \in DOMAIN pipe'[k]
                                     /\ pipe'[k][i - 1] = p[i]
  BY <1>1, TailIndex
<1>3. Queued(k)' = {p[i].n : i \in DOMAIN p \ {1}} \ {0}
  <2>1. \A i \in DOMAIN pipe'[k] : i + 1 \in DOMAIN p \ {1}
    BY <1>1, TailIndex
  <2>2. \A x : (\E i \in DOMAIN pipe'[k] : x = pipe'[k][i].n)
                 <=> (\E i \in DOMAIN p \ {1} : x = p[i].n)
    BY <1>2, <2>1
  <2>3. \A x : x \in {pipe'[k][i].n : i \in DOMAIN pipe'[k]}
                <=> x \in {p[i].n : i \in DOMAIN p \ {1}}
    BY <2>2, Zenon
  <2>4. {pipe'[k][i].n : i \in DOMAIN pipe'[k]} = {p[i].n : i \in DOMAIN p \ {1}}
    BY <2>3, Zenon
  <2> QED BY <2>4, Zenon DEF Queued
<1>4. Queued(k)' \subseteq Queued(k)
  BY <1>3 DEF Queued
<1>5. ASSUME n # 0 PROVE n \in Queued(k)
  BY <1>1, <1>5 DEF Queued
<1>6. ASSUME n # 0 PROVE Queued(k)' = {j \in Queued(k) : j > n}
  <2>1. \A i \in DOMAIN p \ {1} : p[i].n # 0 => p[i].n > n
    BY <1>1, <1>6 DEF PipeInOrder
  <2>2. \A i \in DOMAIN p : p[i].n > n => i # 1
    BY <1>1
  <2>3. \A x : x \in Queued(k) /\ x > n
               <=> x \in {p[i].n : i \in DOMAIN p \ {1}} \ {0}
    <3>1. ASSUME NEW x, x \in Queued(k), x > n
          PROVE  x \in {p[i].n : i \in DOMAIN p \ {1}} \ {0}
      <4>1. PICK i \in DOMAIN p : x = p[i].n /\ x # 0
        BY <3>1 DEF Queued
      <4> QED BY <2>2, <3>1, <4>1
    <3>2. ASSUME NEW x, x \in {p[i].n : i \in DOMAIN p \ {1}} \ {0}
          PROVE  x \in Queued(k) /\ x > n
      BY <2>1, <3>2 DEF Queued
    <3> QED BY <3>1, <3>2
  <2> QED BY <1>3, <2>3
<1> QED BY <1>4, <1>5, <1>6

LEMMA DeliverMessage ==
  ASSUME TypeOK, Structure, NEW m \in Modules, SendMessage(m), Busy' = Busy
  PROVE  Delivery!Publish
<1> DEFINE e == Message(m, published + 1)
           takers == {k \in Modules : Queued(k)' # Queued(k)}
<1>1. published \in Nat /\ e \in Entry /\ e.n = published + 1 /\ pipe' = Sent(e)
  BY EntryType DEF TypeOK, SendMessage
<1>2. \A k \in takers : k \in open /\ Queued(k)' = Queued(k) \cup {published + 1}
  <2>1. {published + 1} \ {0} = {published + 1}
    BY <1>1
  <2> QED BY <1>1, <2>1, QueuedOfSend
<1>3. takers \subseteq modules
  BY <1>2 DEF Structure, SocketsOfModules
<1>4. Pending' = [k \in Modules |-> IF k \in takers THEN Pending[k] \cup {published + 1}
                                                   ELSE Pending[k]]
  BY <1>2 DEF Pending
<1> QED BY <1>3, <1>4 DEF Delivery!Publish, Pending, SendMessage

LEMMA DeliverStutter ==
  ASSUME UNCHANGED <<modules, published, received>>, Busy' = Busy,
         \A k \in Modules : Queued(k)' = Queued(k)
  PROVE  UNCHANGED Delivery!vars
  BY DEF Delivery!vars

LEMMA DeliverDiscard ==
  ASSUME UNCHANGED <<modules, published, received>>, Busy' = Busy, NEW m \in Modules,
         Queued(m)' \subseteq Queued(m),
         \A k \in Modules \ {m} : Queued(k)' = Queued(k)
  PROVE  Delivery!Next
<1>1. Pending' = [Pending EXCEPT ![m] = Queued(m)'] /\ Pending[m] = Queued(m)
  BY DEF Pending
<1>2. Delivery!Discard(m)
  BY <1>1 DEF Delivery!Discard, Pending
<1> QED BY <1>2 DEF Delivery!Next

LEMMA DeliverOfClient ==
  ASSUME JoinWorks, TypeOK, Structure, Ordered, NEW c \in Clients, ClientNext(c)
  PROVE  Delivery!Next \/ UNCHANGED Delivery!vars
<1>1. ASSUME NEW m \in Modules, Broker_AddModule(c, m) PROVE Delivery!Attach(m)
  <2>1. worker' = [worker EXCEPT ![m] = "lock"] /\ worker[m] = "none" /\ m \notin modules
        /\ modules' = modules \cup {m} /\ published' = published /\ received' = received
    BY <1>1 DEF Broker_AddModule, init_module, start_module
  <2>2. Busy' = Busy
    BY <2>1 DEF Busy, TypeOK
  <2>3. Queued(m)' = {} /\ \A k \in Modules \ {m} : Queued(k)' = Queued(k)
    BY <1>1 DEF Broker_AddModule, init_module, start_module, Queued, TypeOK
  <2>4. Pending' = [Pending EXCEPT ![m] = {}]
    BY <2>3 DEF Pending
  <2> QED BY <2>1, <2>2, <2>4 DEF Delivery!Attach, Pending
<1>2. ASSUME NEW m \in Modules, SendQuit(c, m)
      PROVE  Delivery!Next \/ UNCHANGED Delivery!vars
  <2>1. UNCHANGED <<modules, published, received>> /\ Busy' = Busy
    BY <1>2 DEF SendQuit, Busy
  <2>2. CASE pipe' = Sent(Quit(m))
    BY <2>1, <2>2, EntryType, QueuedOfSend, DeliverStutter
  <2>3. CASE pipe' = [pipe EXCEPT ![m] = <<>>]
    <3>1. Queued(m)' = {} /\ \A k \in Modules \ {m} : Queued(k)' = Queued(k)
      BY <2>3 DEF Queued, TypeOK
    <3> QED BY <2>1, <3>1, DeliverDiscard
  <2> QED BY <1>2, <2>2, <2>3 DEF SendQuit
<1>3. ASSUME NEW m \in Modules, Broker_Publish(c, m) PROVE Delivery!Publish
  <2>1. Busy' = Busy
    BY <1>3 DEF Broker_Publish, Busy
  <2> QED BY <1>3, <2>1, DeliverMessage DEF Broker_Publish
<1>4. ASSUME NEW m \in Modules, NEW s \in Modules,
             Broker_AddLink(c, s, m) \/ Broker_RemoveLink(c, s, m)
      PROVE  UNCHANGED Delivery!vars
  BY <1>4, DeliverStutter DEF Broker_AddLink, Broker_RemoveLink, Busy, Queued
<1>5. CASE CloseSocket(c)
  <2>1. PICK m \in Modules : m = target[c]
    BY <1>5 DEF CloseSocket, Structure, TargetIsAttached, TypeOK
  <2>2. UNCHANGED <<modules, published, received>> /\ Busy' = Busy
    BY <1>5 DEF CloseSocket, Busy
  <2>3. Queued(m)' = {} /\ \A k \in Modules \ {m} : Queued(k)' = Queued(k)
    BY <1>5, <2>1 DEF CloseSocket, Queued, TypeOK
  <2> QED BY <2>1, <2>2, <2>3, DeliverDiscard
<1>6. CASE JoinWorker(c)
  <2>1. PICK m \in Modules :
        /\ m \in modules /\ m \notin open /\ modules' = modules \ {m}
        /\ worker[m] = "exited" /\ worker' = [worker EXCEPT ![m] = "none"]
        /\ UNCHANGED <<pipe, published, received>>
    BY <1>6 DEF JoinWorker, JoinWorks, Structure, TargetIsAttached, TypeOK
  <2>2. Queued(m) = {} /\ Queued(m)' = {}
    BY <2>1 DEF Structure, SocketsOfModules, Queued
  <2>3. \A k \in Modules : Queued(k)' = Queued(k)
    BY <2>1 DEF Queued
  <2>4. m \notin Busy /\ Busy' = Busy
    BY <2>1 DEF Busy, TypeOK
  <2>5. Pending' = [Pending EXCEPT ![m] = {}]
    BY <2>2, <2>3 DEF Pending
  <2>6. Delivery!Detach(m)
    BY <2>1, <2>4, <2>5 DEF Delivery!Detach, Pending
  <2> QED BY <2>1, <2>6 DEF Delivery!Next
<1>7. CASE CallReportsError(c)
  BY <1>7, DeliverStutter DEF CallReportsError, Busy, Queued
<1> QED BY <1>1, <1>2, <1>3, <1>4, <1>5, <1>6, <1>7 DEF ClientNext, Delivery!Next

LEMMA DeliverOfWorker ==
  ASSUME TypeOK, Structure, Ordered, NEW m \in Modules, WorkerNext(m)
  PROVE  Delivery!Next \/ UNCHANGED Delivery!vars
<1>0. worker \in [Modules -> {"none", "lock", "recv", "Module_Receive",
                              "Broker_Publish", "exited"}]
      /\ pipe \in [Modules -> Seq(Entry)] /\ received \in [Modules -> Seq(Nat)]
  BY DEF TypeOK
<1>1. CASE WorkerLock(m)
  <2>1. Busy' = Busy
    BY <1>0, <1>1 DEF WorkerLock, Busy
  <2> QED BY <1>1, <2>1, DeliverStutter DEF WorkerLock, Queued
<1>2. CASE WorkerSkip(m)
  <2>1. UNCHANGED <<modules, published, received>> /\ Busy' = Busy
    BY <1>2 DEF WorkerSkip, Busy
  <2>2. pipe[m] # <<>> /\ pipe'[m] = Tail(pipe[m])
        /\ \A k \in Modules \ {m} : pipe'[k] = pipe[k]
    BY <1>0, <1>2 DEF WorkerSkip
  <2>3. Queued(m)' \subseteq Queued(m)
        /\ \A k \in Modules \ {m} : Queued(k)' = Queued(k)
    <3>1. Queued(m)' \subseteq Queued(m)
      BY <2>2, QueuedOfRead DEF Ordered
    <3> QED BY <2>2, <3>1 DEF Queued
  <2> QED BY <2>1, <2>3, DeliverDiscard
<1>3. CASE WorkerRecv(m)
  <2> DEFINE n == Head(pipe[m]).n
  <2>1. /\ pipe[m] # <<>> /\ pipe'[m] = Tail(pipe[m])
        /\ \A k \in Modules \ {m} : pipe'[k] = pipe[k]
        /\ UNCHANGED <<modules, published>> /\ worker[m] = "recv"
    BY <1>0, <1>3 DEF WorkerRecv
  <2>2. \A k \in Modules \ {m} : Queued(k)' = Queued(k)
    BY <2>1 DEF Queued
  <2>3. CASE received' = received /\ worker'[m] \in {"exited", "lock"}
    <3>1. Busy' = Busy
      BY <1>0, <1>3, <2>1, <2>3 DEF WorkerRecv, Busy
    <3>2. Queued(m)' \subseteq Queued(m)
      BY <2>1, QueuedOfRead DEF Ordered
    <3> QED BY <2>1, <2>2, <2>3, <3>1, <3>2, DeliverDiscard
  <2>4. CASE /\ n # 0 /\ worker' = [worker EXCEPT ![m] = "Module_Receive"]
             /\ received' = [received EXCEPT ![m] = Append(@, n)]
    <3>1. n \in Queued(m) /\ Queued(m)' = {j \in Queued(m) : j > n}
      BY <2>1, <2>4, QueuedOfRead DEF Ordered
    <3>2. Pending' = [Pending EXCEPT ![m] = {j \in Pending[m] : j > n}] /\ n \in Pending[m]
      BY <2>2, <3>1 DEF Pending
    <3>3. Busy' = Busy \cup {m} /\ m \notin Busy
      BY <1>0, <2>1, <2>4 DEF Busy
    <3>4. m \in modules
      BY <2>1 DEF Structure, WorkersOfModules
    <3>5. Delivery!Begin(m)
      BY <2>1, <2>4, <3>2, <3>3, <3>4 DEF Delivery!Begin, Pending
    <3> QED BY <3>5 DEF Delivery!Next
  <2> QED BY <1>0, <1>3, <2>3, <2>4 DEF WorkerRecv
<1>4. CASE WorkerRecvError(m)
  <2>1. Busy' = Busy
    BY <1>0, <1>4 DEF WorkerRecvError, Busy
  <2> QED BY <1>4, <2>1, DeliverStutter DEF WorkerRecvError, Queued
<1>5. CASE ReceivePublishes(m)
  <2>1. Busy' = Busy
    BY <1>0, <1>5 DEF ReceivePublishes, Busy
  <2> QED BY <1>5, <2>1, DeliverStutter DEF ReceivePublishes, Queued
<1>6. CASE WorkerPublish(m)
  <2>1. Busy' = Busy
    BY <1>0, <1>6 DEF WorkerPublish, Busy
  <2>2. CASE SendMessage(m)
    BY <2>1, <2>2, DeliverMessage DEF Delivery!Next
  <2>3. CASE PublishFails
    BY <2>1, <2>3, DeliverStutter DEF PublishFails, Queued
  <2> QED BY <1>6, <2>2, <2>3 DEF WorkerPublish
<1>7. CASE ReceiveReturns(m)
  <2>1. m \in Busy /\ Busy' = Busy \ {m}
    BY <1>0, <1>7 DEF ReceiveReturns, Busy
  <2>2. \A k \in Modules : Queued(k)' = Queued(k)
    BY <1>7 DEF ReceiveReturns, Queued
  <2>3. Delivery!End(m)
    BY <1>7, <2>1, <2>2 DEF ReceiveReturns, Delivery!End
  <2> QED BY <2>3 DEF Delivery!Next
<1> QED BY <1>1, <1>2, <1>3, <1>4, <1>5, <1>6, <1>7 DEF WorkerNext

\* The broker keeps the promise of ModuleDelivery: lossy, ordered and serial
\* delivery that is over when Broker_RemoveModule returns.
THEOREM BrokerDelivers == ASSUME JoinWorks PROVE Spec => DeliverySpec
<1>1. Init => Delivery!Init
  BY DEF Init, Delivery!Init, Queued, Busy
<1>2. TypeOK /\ Structure /\ Ordered /\ [Next]_vars => [Delivery!Next]_(Delivery!vars)
  <2> SUFFICES ASSUME TypeOK, Structure, Ordered, [Next]_vars
               PROVE  Delivery!Next \/ UNCHANGED Delivery!vars
    OBVIOUS
  <2>1. UNCHANGED vars => UNCHANGED Delivery!vars
    BY DeliverStutter DEF Busy, Queued
  <2> QED BY <2>1, DeliverOfClient, DeliverOfWorker, Zenon DEF Next
<1>3. BrokerInv => Structure /\ Ordered
  BY DEF Structure, Ordered, BrokerInv
<1> QED BY <1>1, <1>2, <1>3, TypeCorrect, Invariance, PTL
         DEF Spec, DeliverySpec, Delivery!Spec
=============================================================================
