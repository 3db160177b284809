---------------------------- MODULE NodeModules ----------------------------
(***************************************************************************)
(* bindings/nodejs: modules written in JavaScript.                         *)
(*                                                                         *)
(* The gateway's threads never run JavaScript.  NODEJS_Create, Start,      *)
(* Receive and Destroy leave callbacks with NodeJSIdle; the one thread     *)
(* that runs Node.js takes them, the NEWEST FIRST, when it is idle.        *)
(* ModulesManager holds the handle of a module in m_modules until the      *)
(* callback of NODEJS_Destroy removes it.                                  *)
(*                                                                         *)
(* One thread creates, starts and destroys modules; worker threads of the  *)
(* broker call NODEJS_Receive between the creation and the destruction of  *)
(* a module.  A section under the manager's lock is one action.            *)
(***************************************************************************)
EXTENDS Integers, Sequences, FiniteSets

CONSTANTS
  Modules,      \* modules the gateway may create
  Messages,     \* messages the broker may deliver, each once to a module
  Scripts,      \* what a JavaScript file may export, see Script
  Posts,        \* the objects JavaScript may hand to broker.publish, see Post
  MaxStarts,    \* bound: calls of NODEJS_Start for a module
  Active,       \* bound: modules that are started, get messages and publish
  MayFail,      \* ThreadAPI_Create may fail
  None

ASSUME NoneAssumption == None \notin Modules \cup Messages
ASSUME BoundAssumption == MaxStarts \in Nat /\ Active \subseteq Modules /\ MayFail \in BOOLEAN

VARIABLES
  script,       \* script[m]: the object exported by main_path
  host,         \* what the gateway's thread is doing
  life,         \* life[m]: the module as the gateway sees it
  starts,       \* starts[m]: calls of NODEJS_Start
  sent,         \* sent[m]: messages handed to NODEJS_Receive
  m_modules,    \* handles by module; the DOMAIN are the live ones
  node,         \* the Node.js thread: m_nodejs_thread and m_node_initialized
  m_call_on_init, \* modules waiting for Node.js
  m_callbacks,  \* callbacks of NodeJSIdle; the last is run first
  running,      \* callback the Node.js thread is in
  js,           \* js[m]: calls the JavaScript object has seen
  clones,       \* message handles cloned and not destroyed
  wire,         \* messages given to Broker_Publish
  crashed       \* a freed handle was used

gatewayVars == <<script, host, life, starts, sent>>
vars == <<gatewayVars, m_modules, node, m_call_on_init, m_callbacks, running,
          js, clones, wire, crashed>>

(* An exported object: the functions it has and what create returns.       *)
Script == [functions : SUBSET {"create", "receive", "destroy", "start"},
           create : {"true", "false", "no boolean"}]

(* An argument of publish: the objects among its fields, what kinds of     *)
(* values its properties have, and whether its content is a Uint8Array.    *)
Post == [fields : SUBSET {"properties", "contents", "content"},
         properties : SUBSET {"text", "blank", "number"},
         bytes : BOOLEAN]

ASSUME ShapeAssumption == Scripts \subseteq Script /\ Posts \subseteq Post

Callback == [do : {"announce", "load", "loaded", "start", "receive", "quit", "quitting"},
             module : Modules \cup {None}, message : Messages \cup {None}]
Idle == [do |-> "idle", module |-> None, message |-> None]
Call(do, m) == [do |-> do, module |-> m, message |-> None]

NewHandle == [state |-> "error", object |-> FALSE, pending |-> FALSE, id |-> TRUE]
(* What operator[] of m_modules makes up for an id that is not there.      *)
NoHandle == [NewHandle EXCEPT !.id = FALSE]

\* Mutant: the handle is fetched without asking whether it is there.
HasModule_always(m) == TRUE
HasModule(m) == m \in DOMAIN m_modules
Without(m) == [x \in DOMAIN m_modules \ {m} |-> m_modules[x]]

Init ==
  /\ script \in [Modules -> Scripts]
  /\ host = Idle
  /\ life = [m \in Modules |-> "unborn"]
  /\ starts = [m \in Modules |-> 0]
  /\ sent = [m \in Modules |-> {}]
  /\ m_modules = << >>
  /\ node = "none"
  /\ m_call_on_init = << >>
  /\ m_callbacks = << >>
  /\ running = Idle
  /\ js = [m \in Modules |-> [created |-> 0, ok |-> FALSE, started |-> 0,
                              destroyed |-> 0, got |-> << >>, said |-> "nothing"]]
  /\ clones = {}
  /\ wire = {}
  /\ crashed = FALSE

---------------------------------------------------------------------------
(* The gateway's threads.                                                  *)

AddCallback(cb) == m_callbacks' = Append(m_callbacks, cb)

(* m_callbacks and m_call_on_init with module m started, now or as soon as *)
(* Node.js is up.                                                          *)
StartModule(m, callbacks) ==
  IF node = "ready"
  THEN /\ m_callbacks' = Append(callbacks, Call("load", m))
       /\ UNCHANGED m_call_on_init
  ELSE /\ m_callbacks' = callbacks
       /\ m_call_on_init' = Append(m_call_on_init, m)

(* The callback that announces onNodeInitComplete is left before the       *)
(* thread is known to exist.                                               *)
Announced == IF node = "none" THEN Append(m_callbacks, Call("announce", None))
                              ELSE m_callbacks

AddModule(m) ==
  /\ host = Idle /\ life[m] = "unborn"
  /\ StartModule(m, Announced)
  /\ node' = IF node = "none" THEN "booting" ELSE node
  /\ m_modules' = [x \in DOMAIN m_modules \cup {m} |->
                     IF x = m THEN NewHandle ELSE m_modules[x]]
  /\ host' = Call("load", m)
  /\ UNCHANGED <<script, life, starts, sent, running, js, clones, wire, crashed>>

StartNodeFails(m) ==
  /\ MayFail
  /\ host = Idle /\ life[m] = "unborn" /\ node = "none"
  /\ m_callbacks' = Announced
  /\ life' = [life EXCEPT ![m] = "refused"]
  /\ UNCHANGED <<script, host, starts, sent, m_modules, node, m_call_on_init,
                 running, js, clones, wire, crashed>>

(* NODEJS_Create goes on after AddModule has released the manager's lock:  *)
(* the Node.js thread may already have loaded the module.                  *)
NODEJS_Create(m) ==
  /\ host = Call("load", m)
  /\ m_modules' = [m_modules EXCEPT ![m].state = "initializing"]
  /\ life' = [life EXCEPT ![m] = "attached"]
  /\ host' = Idle
  /\ UNCHANGED <<script, starts, sent, node, m_call_on_init, m_callbacks,
                 running, js, clones, wire, crashed>>

NODEJS_Start(m) ==
  /\ host = Idle /\ life[m] = "attached"
  /\ m \in Active /\ starts[m] < MaxStarts
  /\ starts' = [starts EXCEPT ![m] = @ + 1]
  /\ AddCallback(Call("start", m))
  /\ UNCHANGED <<script, host, life, sent, m_modules, node, m_call_on_init,
                 running, js, clones, wire, crashed>>

NODEJS_Receive(m, msg) ==
  /\ life[m] = "attached" /\ m \in Active /\ msg \notin sent[m]
  /\ sent' = [sent EXCEPT ![m] = @ \cup {msg}]
  /\ IF m_modules[m].state # "initialized"
     THEN UNCHANGED <<m_callbacks, clones>>
     ELSE /\ clones' = clones \cup {<<m, msg>>}
          /\ AddCallback([do |-> "receive", module |-> m, message |-> msg])
  /\ UNCHANGED <<script, host, life, starts, m_modules, node, m_call_on_init,
                 running, js, wire, crashed>>

NODEJS_Destroy(m) ==
  /\ host = Idle /\ life[m] = "attached"
  /\ AddCallback(Call("quit", m))
  /\ host' = Call("quit", m)
  /\ life' = [life EXCEPT ![m] = "leaving"]
  /\ UNCHANGED <<script, starts, sent, m_modules, node, m_call_on_init,
                 running, js, clones, wire, crashed>>

(* The wait ends when the module is gone, or after five seconds.           *)
DestroyReturns(m) ==
  /\ host = Call("quit", m)
  /\ host' = Idle
  /\ life' = [life EXCEPT ![m] = "gone"]
  /\ UNCHANGED <<script, starts, sent, m_modules, node, m_call_on_init,
                 m_callbacks, running, js, clones, wire, crashed>>

---------------------------------------------------------------------------
(* The Node.js thread.                                                     *)

(* The startup script calls onNodeInitComplete; the callbacks that waited  *)
(* for it all run under the manager's lock.                                *)
OnNodeInitComplete ==
  /\ node = "announced" /\ running = Idle
  /\ node' = "ready"
  /\ m_callbacks' = m_callbacks \o [i \in 1..Len(m_call_on_init) |->
                                      Call("load", m_call_on_init[i])]
  /\ m_call_on_init' = << >>
  /\ UNCHANGED <<gatewayVars, m_modules, running, js, clones, wire, crashed>>

Newest == m_callbacks[Len(m_callbacks)]
Others == SubSeq(m_callbacks, 1, Len(m_callbacks) - 1)

(* GetModuleFromId makes an entry when there is none.                      *)
GetModuleFromId(m) == IF m \in DOMAIN m_modules THEN m_modules[m] ELSE NoHandle
Fetched(m) == [x \in DOMAIN m_modules \cup {m} |-> GetModuleFromId(x)]

(* InvokeCallbacks takes the newest callback.                              *)
Take(cb) ==
  /\ running = Idle /\ node # "none" /\ m_callbacks # << >>
  /\ cb = Newest
  /\ m_callbacks' = Others

Announce(cb) ==
  /\ cb.do = "announce" /\ Take(cb)
  /\ node' = IF node = "booting" THEN "announced" ELSE node
  /\ UNCHANGED <<gatewayVars, m_modules, m_call_on_init, running, js, clones,
                 wire, crashed>>

ModuleIsGone(cb) ==
  /\ cb.do \in {"load", "start", "quit"} /\ Take(cb)
  /\ ~HasModule(cb.module)
  /\ UNCHANGED <<gatewayVars, m_modules, node, m_call_on_init, running, js,
                 clones, wire, crashed>>

(* register_module: the object must have the functions of a gateway module *)
(* and its create must return true.                                        *)
ValidGateway(s) == {"create", "receive", "destroy"} \subseteq s.functions
Registers(s) == ValidGateway(s) /\ s.create = "true"

(* The object is kept and its create is called.                            *)
register_module(m) ==
  IF ValidGateway(script[m])
  THEN /\ m_modules' = [Fetched(m) EXCEPT ![m].object = TRUE]
       /\ js' = [js EXCEPT ![m].created = @ + 1, ![m].ok = Registers(script[m])]
  ELSE m_modules' = Fetched(m) /\ UNCHANGED js

(* on_module_start, up to the return of registerModule.                    *)
on_module_start(cb) ==
  /\ cb.do = "load" /\ Take(cb)
  /\ HasModule(cb.module)
  /\ register_module(cb.module)
  /\ running' = Call("loaded", cb.module)
  /\ UNCHANGED <<gatewayVars, node, m_call_on_init, clones, wire, crashed>>

\* Mutant: a start that came too early is not made up for.
ModuleStarted_forgets(cb) ==
  LET m == cb.module
      ok == Registers(script[m]) IN
  /\ cb = running /\ cb.do = "loaded"
  /\ m_modules' = [m_modules EXCEPT ![m].state = IF ok THEN "initialized" ELSE "error"]
  /\ running' = Idle
  /\ UNCHANGED <<gatewayVars, m_callbacks, node, m_call_on_init, js, clones, wire,
                 crashed>>

(* on_module_start, from the return of registerModule.                     *)
ModuleStarted(cb) ==
  LET m == cb.module
      ok == Registers(script[m]) IN
  /\ cb = running /\ cb.do = "loaded"
  /\ m_modules' = [m_modules EXCEPT ![m].state = IF ok THEN "initialized" ELSE "error"]
  /\ IF ok /\ m_modules[m].pending
     THEN AddCallback(Call("start", m))
     ELSE UNCHANGED m_callbacks
  /\ running' = Idle
  /\ UNCHANGED <<gatewayVars, node, m_call_on_init, js, clones, wire, crashed>>

\* Mutant: the object is started whatever became of create.
on_start_callback_early(cb) ==
  LET m == cb.module IN
  /\ cb.do = "start" /\ Take(cb)
  /\ HasModule(m)
  /\ m_modules' = [m_modules EXCEPT ![m].pending = TRUE]
  /\ js' = [js EXCEPT ![m].started = @ + 1]
  /\ UNCHANGED <<gatewayVars, node, m_call_on_init, running, clones, wire, crashed>>

on_start_callback(cb) ==
  LET m == cb.module
      h == GetModuleFromId(m) IN
  /\ cb.do = "start" /\ Take(cb)
  /\ HasModule(m)
  /\ m_modules' = [Fetched(m) EXCEPT ![m].pending =
                     CASE h.state = "initializing" -> TRUE
                       [] h.state = "initialized"  -> FALSE
                       [] OTHER -> @]
  /\ js' = IF /\ h.state = "initialized" /\ h.object
              /\ "start" \in script[m].functions
           THEN [js EXCEPT ![m].started = @ + 1] ELSE js
  /\ UNCHANGED <<gatewayVars, node, m_call_on_init, running, clones, wire, crashed>>

(* The callback of NODEJS_Receive holds the handle itself, not its id.     *)
on_run_receive_message(cb) ==
  LET m == cb.module IN
  /\ cb.do = "receive" /\ Take(cb)
  /\ IF ~HasModule(m)
     THEN crashed' = TRUE /\ UNCHANGED <<js, clones>>
     ELSE /\ js' = IF m_modules[m].object
                   THEN [js EXCEPT ![m].got = Append(@, cb.message)] ELSE js
          /\ clones' = clones \ {<<m, cb.message>>}
          /\ UNCHANGED crashed
  /\ UNCHANGED <<gatewayVars, m_modules, node, m_call_on_init, running, wire>>

(* on_quit_node, up to the return of the object's destroy.                 *)
on_quit_node(cb) ==
  LET m == cb.module
      h == GetModuleFromId(m) IN
  /\ cb.do = "quit" /\ Take(cb)
  /\ HasModule(m)
  /\ m_modules' = Fetched(m)
  /\ js' = IF h.state = "initialized" /\ h.object
           THEN [js EXCEPT ![m].destroyed = @ + 1] ELSE js
  /\ running' = Call("quitting", m)
  /\ UNCHANGED <<gatewayVars, node, m_call_on_init, clones, wire, crashed>>

\* Mutant: a module that never started is kept.
RemoveModule_initialized(cb) ==
  /\ cb = running /\ cb.do = "quitting"
  /\ m_modules' = IF m_modules[cb.module].state = "initialized"
                  THEN Without(cb.module) ELSE m_modules
  /\ running' = Idle
  /\ UNCHANGED <<gatewayVars, node, m_call_on_init, m_callbacks, js, clones, wire,
                 crashed>>

RemoveModule(cb) ==
  /\ cb = running /\ cb.do = "quitting"
  /\ m_modules' = Without(cb.module)
  /\ running' = Idle
  /\ UNCHANGED <<gatewayVars, node, m_call_on_init, m_callbacks, js, clones, wire,
                 crashed>>

---------------------------------------------------------------------------
(* JavaScript calls broker.publish.                                        *)

(* validate_message looks for contents; the messages have a content.       *)
ValidMessage(p) == {"properties", "contents"} \cap p.fields # {}
\* Mutant: the content is looked for where validate_message looks.
HasContent_misnamed(p) == "contents" \in p.fields
HasContent(p) == "content" \in p.fields
CopiedContents(p) == p.bytes

(* Strings are copied, other values are ignored.  The terminating zero     *)
(* counts as a character, so that a blank string is not an empty one.      *)
CopiedProperties(p) ==
  IF "properties" \in p.fields THEN p.properties \ {"number"} ELSE {}

(* Without a content the size in the MESSAGE_CONFIG is never set, and      *)
(* Message_Create refuses a source of NULL unless it happens to be zero.   *)
CreatedSizes(p) == IF HasContent(p) THEN {"known"} ELSE {"zero", "garbage"}

Says(m, answer) == js' = [js EXCEPT ![m].said = answer]

(* JavaScript runs inside a callback of its own, or from a timer.          *)
Runs(m) == running = Idle \/ running.module = m

broker_publish(m, p) ==
  /\ m \in Active /\ js[m].created > 0 /\ js[m].said = "nothing" /\ Runs(m)
  /\ \/ /\ ~ValidMessage(p)
        /\ Says(m, "false") /\ UNCHANGED wire
     \/ /\ ValidMessage(p) /\ ~HasModule(m)
        /\ Says(m, "undefined") /\ UNCHANGED wire
     \/ /\ ValidMessage(p) /\ HasModule(m)
        /\ \E size \in CreatedSizes(p) :
             IF size = "garbage"
             THEN Says(m, "false") /\ UNCHANGED wire
             ELSE /\ Says(m, "true")
                  /\ wire' = wire \cup {[by |-> m, post |-> p,
                                         properties |-> CopiedProperties(p),
                                         content |-> HasContent(p) /\ CopiedContents(p)]}
  /\ UNCHANGED <<gatewayVars, m_modules, node, m_call_on_init, m_callbacks,
                 running, clones, crashed>>

---------------------------------------------------------------------------
GatewayNext == \E m \in Modules :
  \/ AddModule(m) \/ StartNodeFails(m) \/ NODEJS_Create(m) \/ NODEJS_Start(m)
  \/ NODEJS_Destroy(m) \/ DestroyReturns(m)
  \/ \E msg \in Messages : NODEJS_Receive(m, msg)
  \/ \E p \in Posts : broker_publish(m, p)

(* The callbacks the Node.js thread may be at.                             *)
Due == {running} \cup {m_callbacks[i] : i \in DOMAIN m_callbacks}

NodeNext ==
  \/ OnNodeInitComplete
  \/ \E cb \in Due :
       \/ Announce(cb) \/ ModuleIsGone(cb) \/ on_module_start(cb)
       \/ ModuleStarted(cb) \/ on_start_callback(cb)
       \/ on_run_receive_message(cb) \/ on_quit_node(cb) \/ RemoveModule(cb)

Next == ~crashed /\ (GatewayNext \/ NodeNext)

(* Node.js keeps running its event loop, and no JavaScript function runs   *)
(* for ever; the gateway's thread finishes the call it is in.              *)
Fairness ==
  /\ WF_vars(~crashed /\ NodeNext)
  /\ WF_vars(~crashed /\ \E m \in Modules : NODEJS_Create(m) \/ DestroyReturns(m))

Spec == Init /\ [][Next]_vars /\ Fairness

---------------------------------------------------------------------------
Handle == [state : {"error", "initializing", "initialized"},
           object : BOOLEAN, pending : BOOLEAN, id : BOOLEAN]

(* The variables have their types.                                         *)
TypeOK ==
  /\ script \in [Modules -> Scripts]
  /\ host \in Callback \cup {Idle}
  /\ life \in [Modules -> {"unborn", "attached", "leaving", "gone", "refused"}]
  /\ starts \in [Modules -> 0..MaxStarts]
  /\ sent \in [Modules -> SUBSET Messages]
  /\ DOMAIN m_modules \subseteq Modules
  /\ \A m \in DOMAIN m_modules : m_modules[m] \in Handle
  /\ node \in {"none", "booting", "announced", "ready"}
  /\ m_call_on_init \in Seq(Modules)
  /\ m_callbacks \in Seq(Callback)
  /\ running \in Callback \cup {Idle}
  /\ js \in [Modules -> [created : Nat, ok : BOOLEAN, started : Nat, destroyed : Nat,
                         got : Seq(Messages),
                         said : {"nothing", "true", "false", "undefined"}]]
  /\ clones \subseteq Modules \X Messages
  /\ wire \subseteq [by : Modules, post : Posts, content : BOOLEAN,
                   properties : SUBSET {"text", "blank", "number"}]
  /\ crashed \in BOOLEAN

(* What a JavaScript object sees is a life: create once, start and receive *)
(* only after create returned true, destroy at most once; and no more      *)
(* starts than the gateway asked for, although a start may be put off and  *)
(* queued a second time.                                                   *)
JavaScriptLife ==
  \A m \in Modules :
    /\ js[m].created <= 1 /\ js[m].destroyed <= 1 /\ js[m].started <= starts[m]
    /\ js[m].started + js[m].destroyed + Len(js[m].got) > 0 => js[m].ok

(* Looking a module up never makes up a handle, whichever callbacks are    *)
(* still queued when a module is removed.                                  *)
HandlesAreReal ==
  \A m \in DOMAIN m_modules :
    m_modules[m].id /\ (life[m] # "unborn" \/ host = Call("load", m))

(* Every clone of a message belongs to one callback that is still queued,  *)
(* as long as no freed handle was used.                                    *)
ClonesAreQueued ==
  ~crashed =>
    /\ clones = {<<m_callbacks[i].module, m_callbacks[i].message>> :
                  i \in {j \in DOMAIN m_callbacks : m_callbacks[j].do = "receive"}}
    /\ \A m \in Modules, msg \in Messages :
         Cardinality({i \in DOMAIN m_callbacks :
                        m_callbacks[i] = [do |-> "receive", module |-> m,
                                          message |-> msg]}) <= 1

(* What the manager holds is accounted for: handles belong to modules and  *)
(* clones to callbacks that are still to run.                              *)
NodeInv == TypeOK /\ HandlesAreReal /\ ClonesAreQueued

(* A message that publish accepted carries the strings and the bytes that  *)
(* JavaScript gave it, and comes from one of the module's own posts.       *)
PublishKeepsMessage ==
  \A e \in wire :
    /\ e.content = ("content" \in e.post.fields /\ e.post.bytes)
    /\ "properties" \in e.post.fields => e.properties = e.post.properties \cap {"text", "blank"}
    /\ js[e.by].said = "true" /\ js[e.by].created > 0

(* The module was loaded before NODEJS_Create set its state back.          *)
Overtaken(m) ==
  /\ HasModule(m) /\ life[m] # "unborn" /\ running # Call("loaded", m)
  /\ js[m].ok /\ m_modules[m].state = "initializing"

(* A module that the gateway starts gets its start, however Node.js and    *)
(* the gateway interleave, unless its script does not load, it is          *)
(* destroyed first, or it was overtaken.                                   *)
StartIsServed ==
  \A m \in Modules :
    (starts[m] > 0) ~>
      \/ js[m].started > 0 \/ ~Registers(script[m]) \/ "start" \notin script[m].functions
      \/ life[m] \in {"leaving", "gone"} \/ Overtaken(m) \/ crashed

(* A module that the gateway destroys leaves the manager, also when        *)
(* NODEJS_Destroy has stopped waiting for it.                              *)
DestroyedIsRemoved ==
  \A m \in Modules : (life[m] \in {"leaving", "gone"}) ~> (~HasModule(m) \/ crashed)
=============================================================================
