------------------------------- MODULE Broker -------------------------------
(***************************************************************************)
(* core/src/broker.c: the publish/subscribe message broker over nanomsg.   *)
(*                                                                         *)
(* Every attached module has a SUB socket and a worker thread that runs    *)
(* module_worker; the broker has one PUB socket.  Client threads (the      *)
(* thread that drives the gateway and the threads the modules own) call    *)
(* the Broker_* functions, and so does a worker while it is inside         *)
(* Module_Receive of a module that republishes.                            *)
(*                                                                         *)
(* Everything a function does between taking and releasing modules_lock    *)
(* without blocking in between is one action; Broker_RemoveModule, which   *)
(* keeps modules_lock while it waits for socket_lock and for the worker,   *)
(* is three.  The two locks are therefore explicit.                        *)
(***************************************************************************)
EXTENDS Naturals, Sequences, FiniteSets

CONSTANTS
  Modules,        \* module handles; m also names the worker thread of m
  Clients,        \* other threads that call the broker
  Republishers,   \* modules that call Broker_Publish inside Module_Receive
  MayFail,        \* platform calls that may report an error
  RcvCap,         \* entries a SUB socket holds before nanomsg drops
  MaxPublish,     \* bound: messages accepted
  MaxAdd,         \* bound: successful calls of Broker_AddModule
  MaxSub,         \* bound: subscriptions of one sink to one source
  None            \* no thread, no module

PlatformCalls == {"Lock", "Unlock", "malloc", "ThreadAPI_Create", "ThreadAPI_Join",
                  "nn_socket", "nn_send", "nn_recv", "nn_setsockopt"}

ASSUME ThreadAssumption ==
  /\ Modules \cap Clients = {}
  /\ None \notin Modules \cup Clients
  /\ Republishers \subseteq Modules
ASSUME MayFailAssumption == MayFail \subseteq PlatformCalls
ASSUME BoundAssumption == {RcvCap, MaxPublish, MaxAdd, MaxSub} \subseteq Nat

VARIABLES
  modules,        \* BROKER_HANDLE_DATA.modules: attached modules
  modules_lock,   \* client that holds BROKER_HANDLE_DATA.modules_lock
  client,         \* client[c]: where c is in stop_module
  target,         \* target[c]: the module c is removing
  open,           \* modules whose receive_socket is open
  pipe,           \* pipe[m]: what nanomsg holds for receive_socket
  subs,           \* subs[sink][source]: subscriptions of receive_socket
  socket_lock,    \* socket_lock[m]: worker m holds BROKER_MODULEINFO.socket_lock
  worker,         \* worker[m]: where the worker thread of m is
  published,      \* number of messages sent on publish_socket
  received,       \* received[m]: messages handed to Module_Receive of m
  adds            \* modules added so far (bounds the model)

clientVars == <<modules_lock, client, target>>
socketVars == <<open, pipe, subs, socket_lock>>
vars == <<modules, clientVars, socketVars, worker, published, received, adds>>

\* A buffer on the wire: the topic, then the message (n = 0: a quit signal,
\* whose topic is the quit_message_guid of the module).
Entry == [topic : Modules, n : Nat]
Message(source, n) == [topic |-> source, n |-> n]
Quit(m) == [topic |-> m, n |-> 0]

\* The subscriptions of m's socket, applied by nanomsg on the receiving side.
Matches(m, e) == IF e.n = 0 THEN e.topic = m ELSE subs[m][e.topic] > 0

\* nn_send on a PUB socket never blocks: a subscriber with no room misses it.
Sent(e) == [m \in Modules |-> IF m \in open /\ Len(pipe[m]) < RcvCap
                              THEN Append(pipe[m], e) ELSE pipe[m]]

\* A worker thread that exists and has not returned.
Alive(m) == worker[m] \notin {"none", "exited"}

Init ==
  /\ modules = {}
  /\ modules_lock = None
  /\ client = [c \in Clients |-> "idle"]
  /\ target = [c \in Clients |-> None]
  /\ open = {}
  /\ pipe = [m \in Modules |-> <<>>]
  /\ subs = [m \in Modules |-> [s \in Modules |-> 0]]
  /\ socket_lock = [m \in Modules |-> FALSE]
  /\ worker = [m \in Modules |-> "none"]
  /\ published = 0
  /\ received = [m \in Modules |-> <<>>]
  /\ adds = 0

-----------------------------------------------------------------------------
(* Client threads *)

CanLock(c) == client[c] = "idle" /\ modules_lock = None

\* A connected receive_socket, without subscriptions, and its socket_lock.
init_module(m) ==
  /\ open' = open \cup {m}
  /\ pipe' = [pipe EXCEPT ![m] = <<>>]
  /\ subs' = [subs EXCEPT ![m] = [s \in Modules |-> 0]]
  /\ socket_lock' = [socket_lock EXCEPT ![m] = FALSE]

\* The socket subscribes to the quit_message_guid (see Matches); the thread runs.
start_module(m) == worker' = [worker EXCEPT ![m] = "lock"]

\* A module handle is attached at most once at a time: Module_Create returns
\* a new one for every module the gateway adds.  A failure of any platform call
\* undoes the others and leaves the broker as it was.
Broker_AddModule(c, m) ==
  /\ CanLock(c)
  /\ m \notin modules /\ worker[m] = "none"
  /\ adds < MaxAdd
  /\ modules' = modules \cup {m}
  /\ init_module(m)
  /\ start_module(m)
  /\ adds' = adds + 1
  /\ UNCHANGED <<clientVars, published, received>>

Broker_AddLink(c, source, sink) ==
  /\ CanLock(c)
  /\ {source, sink} \subseteq modules
  /\ subs[sink][source] < MaxSub
  /\ subs' = [subs EXCEPT ![sink][source] = @ + 1]
  /\ UNCHANGED <<modules, clientVars, open, pipe, socket_lock, worker, published,
                 received, adds>>

\* Mutant: a topic is unsubscribed that was never subscribed to.
Broker_RemoveLink_unchecked(c, source, sink) ==
  /\ CanLock(c)
  /\ {source, sink} \subseteq modules
  /\ subs' = [subs EXCEPT ![sink][source] = @ - 1]
  /\ UNCHANGED <<modules, clientVars, open, pipe, socket_lock, worker, published,
                 received, adds>>

Broker_RemoveLink(c, source, sink) ==
  /\ CanLock(c)
  /\ {source, sink} \subseteq modules
  /\ subs[sink][source] > 0
  /\ subs' = [subs EXCEPT ![sink][source] = @ - 1]
  /\ UNCHANGED <<modules, clientVars, open, pipe, socket_lock, worker, published,
                 received, adds>>

\* Mutant: a send that seems to have failed is tried again.
SendMessage_again(source) ==
  LET e == Message(source, published + 1) IN
  /\ modules_lock = None
  /\ published < MaxPublish
  /\ published' = published + 1
  /\ pipe' = [m \in Modules |-> IF m \in open /\ Len(pipe[m]) + 1 < RcvCap
                               THEN pipe[m] \o <<e, e>> ELSE Sent(e)[m]]
  /\ UNCHANGED <<modules, clientVars, open, subs, socket_lock, received, adds>>

\* The message is sent under modules_lock, with its source as topic.  An error
\* of an allocation or of nn_send leaves no trace in the broker.
SendMessage(source) ==
  /\ modules_lock = None
  /\ published < MaxPublish
  /\ published' = published + 1
  /\ pipe' = Sent(Message(source, published + 1))
  /\ UNCHANGED <<modules, clientVars, open, subs, socket_lock, received, adds>>

PublishFails ==
  /\ modules_lock = None
  /\ published = MaxPublish \/ {"malloc", "nn_send", "Lock"} \cap MayFail # {}
  /\ UNCHANGED <<modules, clientVars, socketVars, published, received, adds>>

Broker_Publish(c, source) ==
  /\ client[c] = "idle"
  /\ SendMessage(source)
  /\ UNCHANGED worker

\* Broker_RemoveModule finds the module and stop_module sends the quit signal.
SendQuit(c, m) ==
  /\ CanLock(c)
  /\ m \in modules
  /\ modules_lock' = c
  /\ target' = [target EXCEPT ![c] = m]
  /\ \/ /\ pipe' = Sent(Quit(m))
        /\ client' = [client EXCEPT ![c] = "close"]
        /\ UNCHANGED open
     \/ /\ "nn_send" \in MayFail                \* harsher: close without the lock
        /\ open' = open \ {m}
        /\ pipe' = [pipe EXCEPT ![m] = <<>>]
        /\ client' = [client EXCEPT ![c] = "join"]
  /\ UNCHANGED <<modules, subs, socket_lock, worker, published, received, adds>>

\* Mutant: stop_module closes the socket without taking socket_lock.
CloseSocket_unlocked(c) ==
  LET m == target[c] IN
  /\ client[c] = "close"
  /\ open' = open \ {m}
  /\ pipe' = [pipe EXCEPT ![m] = <<>>]
  /\ client' = [client EXCEPT ![c] = "join"]
  /\ UNCHANGED <<modules, modules_lock, target, subs, socket_lock, worker, published,
                 received, adds>>

\* nn_close under socket_lock; if that lock fails, without it.  When it cannot be
\* released again, the lock stays taken.
CloseSocket(c) ==
  LET m == target[c] IN
  /\ client[c] = "close"
  /\ \/ ~socket_lock[m] /\ UNCHANGED socket_lock
     \/ "Lock" \in MayFail /\ UNCHANGED socket_lock
     \/ /\ ~socket_lock[m] /\ "Unlock" \in MayFail
        /\ socket_lock' = [socket_lock EXCEPT ![m] = TRUE]
  /\ open' = open \ {m}
  /\ pipe' = [pipe EXCEPT ![m] = <<>>]
  /\ client' = [client EXCEPT ![c] = "join"]
  /\ UNCHANGED <<modules, modules_lock, target, subs, worker, published, received,
                 adds>>

\* Mutant: the entry is freed without waiting for the worker.
JoinWorker_detached(c) ==
  /\ client[c] = "join"
  /\ modules' = modules \ {target[c]}
  /\ modules_lock' = None
  /\ client' = [client EXCEPT ![c] = "idle"]
  /\ target' = [target EXCEPT ![c] = None]
  /\ UNCHANGED <<socketVars, worker, published, received, adds>>

\* The entry is unlinked and freed once the worker was joined: also when
\* ThreadAPI_Join reports an error, whatever the worker is doing then.
JoinWorker(c) ==
  LET m == target[c] IN
  /\ client[c] = "join"
  /\ \/ worker[m] = "exited" /\ worker' = [worker EXCEPT ![m] = "none"]
     \/ "ThreadAPI_Join" \in MayFail /\ UNCHANGED worker
  /\ modules' = modules \ {m}
  /\ modules_lock' = None
  /\ client' = [client EXCEPT ![c] = "idle"]
  /\ target' = [target EXCEPT ![c] = None]
  /\ UNCHANGED <<socketVars, published, received, adds>>

\* A call that finds its module or link missing, or meets a platform error it
\* can undo, takes modules_lock and leaves the broker as it was.
CallReportsError(c) ==
  /\ CanLock(c)
  /\ UNCHANGED vars

ClientNext(c) ==
  \/ \E m \in Modules : Broker_AddModule(c, m) \/ SendQuit(c, m) \/ Broker_Publish(c, m)
  \/ \E m, s \in Modules : Broker_AddLink(c, s, m) \/ Broker_RemoveLink(c, s, m)
  \/ CloseSocket(c)
  \/ JoinWorker(c)
  \/ CallReportsError(c)

-----------------------------------------------------------------------------
(* module_worker of module m *)

WorkerLock(m) ==
  /\ worker[m] = "lock"
  /\ \/ /\ ~socket_lock[m]
        /\ socket_lock' = [socket_lock EXCEPT ![m] = TRUE]
        /\ worker' = [worker EXCEPT ![m] = "recv"]
     \/ /\ "Lock" \in MayFail
        /\ worker' = [worker EXCEPT ![m] = "exited"]
        /\ UNCHANGED socket_lock
  /\ UNCHANGED <<modules, clientVars, open, pipe, subs, published, received, adds>>

\* nanomsg throws away an entry nobody subscribed to and keeps waiting.
WorkerSkip(m) ==
  /\ worker[m] = "recv" /\ m \in open
  /\ pipe[m] # <<>> /\ ~Matches(m, Head(pipe[m]))
  /\ pipe' = [pipe EXCEPT ![m] = Tail(@)]
  /\ UNCHANGED <<modules, clientVars, open, subs, socket_lock, worker, published,
                 received, adds>>

\* nn_recv returns a buffer and the lock is released.  A quit signal ends the
\* loop; a message is deserialized and Module_Receive entered, unless there is
\* no memory for it.  If the lock cannot be released the buffer is freed unread.
WorkerRecv(m) ==
  /\ worker[m] = "recv" /\ m \in open
  /\ pipe[m] # <<>> /\ Matches(m, Head(pipe[m]))
  /\ pipe' = [pipe EXCEPT ![m] = Tail(@)]
  /\ \/ /\ Head(pipe[m]).n = 0
        /\ worker' = [worker EXCEPT ![m] = "exited"]
        /\ socket_lock' = [socket_lock EXCEPT ![m] = FALSE]
        /\ UNCHANGED received
     \/ /\ Head(pipe[m]).n # 0
        /\ worker' = [worker EXCEPT ![m] = "Module_Receive"]
        /\ received' = [received EXCEPT ![m] = Append(@, Head(pipe[m]).n)]
        /\ socket_lock' = [socket_lock EXCEPT ![m] = FALSE]
     \/ /\ Head(pipe[m]).n # 0 /\ "malloc" \in MayFail
        /\ worker' = [worker EXCEPT ![m] = "lock"]
        /\ socket_lock' = [socket_lock EXCEPT ![m] = FALSE]
        /\ UNCHANGED received
     \/ /\ "Unlock" \in MayFail
        /\ worker' = [worker EXCEPT ![m] = "exited"]
        /\ UNCHANGED <<socket_lock, received>>
  /\ UNCHANGED <<modules, clientVars, open, subs, published, adds>>

\* Mutant: a failing nn_recv is tried again.
WorkerRecvError_retried(m) ==
  /\ worker[m] = "recv"
  /\ m \notin open \/ "nn_recv" \in MayFail
  /\ worker' = [worker EXCEPT ![m] = "lock"]
  /\ socket_lock' = [socket_lock EXCEPT ![m] = FALSE]
  /\ UNCHANGED <<modules, clientVars, open, pipe, subs, published, received, adds>>

\* nn_recv fails: the socket was closed, or nanomsg reports another error.
WorkerRecvError(m) ==
  /\ worker[m] = "recv"
  /\ m \notin open \/ "nn_recv" \in MayFail
  /\ worker' = [worker EXCEPT ![m] = "exited"]
  /\ \/ socket_lock' = [socket_lock EXCEPT ![m] = FALSE]
     \/ "Unlock" \in MayFail /\ UNCHANGED socket_lock
  /\ UNCHANGED <<modules, clientVars, open, pipe, subs, published, received, adds>>

\* Inside Module_Receive: the module may call Broker_Publish, then returns.
ReceivePublishes(m) ==
  /\ worker[m] = "Module_Receive" /\ m \in Republishers
  /\ published < MaxPublish
  /\ worker' = [worker EXCEPT ![m] = "Broker_Publish"]
  /\ UNCHANGED <<modules, clientVars, socketVars, published, received, adds>>

WorkerPublish(m) ==
  /\ worker[m] = "Broker_Publish"
  /\ \/ SendMessage(m)
     \/ PublishFails
  /\ worker' = [worker EXCEPT ![m] = "Module_Receive"]

\* Mutant: a delivered message ends the loop, as the quit signal does.
ReceiveReturns_ends(m) ==
  /\ worker[m] = "Module_Receive"
  /\ worker' = [worker EXCEPT ![m] = "exited"]
  /\ UNCHANGED <<modules, clientVars, socketVars, published, received, adds>>

ReceiveReturns(m) ==
  /\ worker[m] = "Module_Receive"
  /\ worker' = [worker EXCEPT ![m] = "lock"]
  /\ UNCHANGED <<modules, clientVars, socketVars, published, received, adds>>

WorkerNext(m) ==
  \/ WorkerLock(m) \/ WorkerSkip(m) \/ WorkerRecv(m) \/ WorkerRecvError(m)
  \/ ReceivePublishes(m) \/ WorkerPublish(m) \/ ReceiveReturns(m)

-----------------------------------------------------------------------------
Next ==
  \/ \E c \in Clients : ClientNext(c)
  \/ \E m \in Modules : WorkerNext(m)

Spec == Init /\ [][Next]_vars

\* Every worker thread is scheduled, a Module_Receive returns, and a client
\* inside stop_module is scheduled.  Nobody has to call the broker.
Fairness ==
  /\ \A m \in Modules : WF_vars(WorkerNext(m))
  /\ \A c \in Clients : WF_vars(CloseSocket(c)) /\ WF_vars(JoinWorker(c))

FairSpec == Spec /\ Fairness

-----------------------------------------------------------------------------
TypeOK ==
  /\ modules \subseteq Modules
  /\ modules_lock \in Clients \cup {None}
  /\ client \in [Clients -> {"idle", "close", "join"}]
  /\ target \in [Clients -> Modules \cup {None}]
  /\ open \subseteq Modules
  /\ pipe \in [Modules -> Seq(Entry)]
  /\ subs \in [Modules -> [Modules -> Nat]]
  /\ socket_lock \in [Modules -> BOOLEAN]
  /\ worker \in [Modules -> {"none", "lock", "recv", "Module_Receive",
                             "Broker_Publish", "exited"}]
  /\ published \in Nat
  /\ received \in [Modules -> Seq(Nat)]
  /\ adds \in Nat

\* A worker thread uses its BROKER_MODULEINFO, and the module, for as long as
\* it lives: Broker_RemoveModule unlinks and frees them (and its caller then
\* destroys the module) only after the thread has ended.
WorkerIsAttached == \A m \in Modules : Alive(m) => m \in modules

\* The socket lock keeps nn_close away from a running nn_recv, the race that
\* broker_hld.md introduces the lock for.
NoCloseDuringRecv ==
  [][\A m \in Modules : m \in open /\ m \notin open' => worker[m] # "recv"]_vars

\* A call never waits for a thread that waits for the call: the client that
\* joins a worker holds modules_lock, which Broker_Publish needs.
NoCircularWait ==
  \A c \in Clients : client[c] = "join" => worker[target[c]] # "Broker_Publish"

\* Broker_RemoveModule returns.
RemoveReturns ==
  \A c \in Clients : client[c] # "idle" ~> client[c] = "idle"

\* A message that reached the socket of a linked module is handed to it,
\* unless the link or the module is removed first.
LinkedMessageArrives ==
  \A m, s \in Modules, n \in 1..MaxPublish :
    /\ m \in open /\ subs[m][s] > 0
    /\ \E i \in DOMAIN pipe[m] : pipe[m][i] = Message(s, n)
    ~> \/ \E i \in DOMAIN received[m] : received[m][i] = n
       \/ subs[m][s] = 0
       \/ m \notin open

\* The promise to the modules, kept by this broker.
Queued(m) == {pipe[m][i].n : i \in DOMAIN pipe[m]} \ {0}
Busy == {m \in Modules : worker[m] \in {"Module_Receive", "Broker_Publish"}}

Delivery == INSTANCE ModuleDelivery WITH
  attached <- modules, pending <- [m \in Modules |-> Queued(m)], busy <- Busy

\* Modules receive messages in the order of publication, whatever fails.
InPublicationOrder == Delivery!InPublicationOrder

\* Broker_Publish, the workers and Broker_RemoveModule together implement
\* ModuleDelivery: serial, ordered delivery that ends before the removal does.
DeliverySpec == Delivery!Spec

-----------------------------------------------------------------------------
(* The inductive invariant behind WorkerIsAttached and DeliverySpec *)

LockHolder == \A c \in Clients : client[c] # "idle" <=> modules_lock = c

TargetIsAttached ==
  \A c \in Clients : /\ client[c] = "idle" => target[c] = None
                     /\ client[c] # "idle" => target[c] \in modules
                     /\ client[c] = "join" => target[c] \notin open

SocketsOfModules ==
  /\ open \subseteq modules
  /\ \A m \in Modules : m \notin open => pipe[m] = <<>>

WorkersOfModules == \A m \in Modules : worker[m] = "none" <=> m \notin modules

\* What m received, then what waits in its socket, is in order of publication.
PipeInOrder(m) ==
  /\ \A i \in DOMAIN received[m] : received[m][i] <= published
  /\ \A i \in DOMAIN pipe[m] : pipe[m][i].n <= published
  /\ \A i, j \in DOMAIN received[m] : i < j => received[m][i] < received[m][j]
  /\ \A i, j \in DOMAIN pipe[m] :
       i < j /\ pipe[m][i].n # 0 /\ pipe[m][j].n # 0 => pipe[m][i].n < pipe[m][j].n
  /\ \A i \in DOMAIN received[m], j \in DOMAIN pipe[m] :
       pipe[m][j].n # 0 => received[m][i] < pipe[m][j].n

\* A removal holds modules_lock and its module stays in the list until the
\* worker has ended; a socket that is closed holds nothing.
BrokerInv ==
  /\ LockHolder /\ TargetIsAttached /\ SocketsOfModules /\ WorkersOfModules
  /\ \A m \in Modules : PipeInOrder(m)
=============================================================================
