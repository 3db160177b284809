----------------------------- MODULE NodeProofs -----------------------------
(***************************************************************************)
(* Proofs about NodeModules: for any modules, scripts, messages and        *)
(* posts, and in every interleaving of the gateway's threads with that of  *)
(* Node.js, an object sees the calls of one life, handles and clones are   *)
(* accounted for, and messages are published as they were given.           *)
(***************************************************************************)
EXTENDS NodeModules, TLAPS, FiniteSetTheorems, SequenceTheorems

\* Where the callbacks of one kind for a module are in m_callbacks, and where the
\* module waits for Node.js to be up.
At(do, m) ==
  {i \in DOMAIN m_callbacks : m_callbacks[i].do = do /\ m_callbacks[i].module = m}
Waiting(m) == {i \in DOMAIN m_call_on_init : m_call_on_init[i] = m}

Single(S) == \A i, j \in S : i = j
Within(do, m) == running.do = do /\ running.module = m

\* NODEJS_Create was not called for the module, or was refused.
Fresh(m) == life[m] \in {"unborn", "refused"} /\ host # Call("load", m)

Types == TypeOK /\ m_modules \in [DOMAIN m_modules -> Handle]

\* The manager has the modules of the gateway, and the one that a callback is in.
Managed ==
  /\ running.do \in {"loaded", "quitting"} => running.module \in Modules
  /\ \A m \in Modules :
       /\ host = Call("load", m) => life[m] = "unborn"
       /\ life[m] = "attached" \/ host = Call("load", m) => HasModule(m)
       /\ HasModule(m) => m_modules[m].id /\ ~Fresh(m)
       /\ Within("loaded", m) \/ Within("quitting", m) => HasModule(m)

\* A module is loaded once: its callback is queued or waits for Node.js, and not
\* any more when it has been loaded.
Loads ==
  /\ node = "ready" => m_call_on_init = << >>
  /\ \A m \in Modules :
       /\ Single(At("load", m)) /\ Single(Waiting(m))
       /\ At("load", m) = {} \/ Waiting(m) = {}
       /\ Fresh(m) \/ js[m].created > 0 \/ Within("loaded", m) =>
            At("load", m) = {} /\ Waiting(m) = {}
       /\ Fresh(m) => js[m].created = 0
       /\ js[m].created <= 1

\* It is removed once, by the gateway.
Removals ==
  \A m \in Modules :
    /\ Single(At("quit", m))
    /\ At("quit", m) # {} \/ Within("quitting", m) \/ js[m].destroyed > 0 =>
         life[m] \in {"leaving", "gone"}
    /\ Within("quitting", m) \/ js[m].destroyed > 0 => At("quit", m) = {}
    /\ js[m].destroyed <= 1

\* A start that came too early is made up for when the module is loaded.
Owed(m) ==
  /\ HasModule(m) /\ m_modules[m].pending
  /\ At("load", m) # {} \/ Waiting(m) # {} \/ Within("loaded", m)

\* A start of the gateway is done, queued or owed, if it has not come to nothing.
Begins ==
  \A m \in Modules :
    js[m].started + Cardinality(At("start", m)) + (IF Owed(m) THEN 1 ELSE 0) <= starts[m]

\* Whatever calls an object knows that its create returned true.
Accepted ==
  \A m \in Modules :
    /\ js[m].ok => Registers(script[m])
    /\ HasModule(m) /\ m_modules[m].state = "initialized" => js[m].ok
    /\ Within("loaded", m) /\ Registers(script[m]) => js[m].ok
    /\ At("receive", m) # {} => js[m].ok
    /\ js[m].started + js[m].destroyed + Len(js[m].got) > 0 => js[m].ok

\* A message is queued for a module once, with a clone of its own.
Receipt(m, msg) == [do |-> "receive", module |-> m, message |-> msg]
Receipts(m, msg) == {i \in DOMAIN m_callbacks : m_callbacks[i] = Receipt(m, msg)}
Clones ==
  \A m \in Modules, msg \in Messages :
    /\ Receipts(m, msg) # {} => msg \in sent[m]
    /\ ~crashed => /\ <<m, msg>> \in clones <=> Receipts(m, msg) # {}
                   /\ Single(Receipts(m, msg))

\* A callback of NODEJS_Receive has a module and a message.
Whole ==
  \A i \in DOMAIN m_callbacks : m_callbacks[i].do = "receive" =>
    m_callbacks[i].module \in Modules /\ m_callbacks[i].message \in Messages

Inv ==
  /\ Types /\ Whole /\ Managed /\ Loads /\ Removals /\ Begins /\ Accepted /\ Clones
  /\ PublishKeepsMessage
-----------------------------------------------------------------------------
(* The queue of callbacks *)

LEMMA CallsAre ==
  /\ \A do \in {"announce", "load", "loaded", "start", "quit", "quitting"}, m \in Modules \cup {None} :
       /\ Call(do, m) \in Callback /\ Call(do, m) # Idle
       /\ Call(do, m).do = do /\ Call(do, m).module = m
  /\ \A m \in Modules, msg \in Messages :
       /\ Receipt(m, msg) \in Callback
       /\ Receipt(m, msg).do = "receive" /\ Receipt(m, msg).module = m
       /\ Receipt(m, msg).message = msg
  /\ \A cb \in Callback : \A m, msg :
       cb = Receipt(m, msg) <=> cb.do = "receive" /\ cb.module = m /\ cb.message = msg
  BY DEF Call, Callback, Receipt, Idle

LEMMA AtIs ==
  ASSUME TypeOK, NEW do, NEW m
  PROVE  IsFiniteSet(At(do, m)) /\ Cardinality(At(do, m)) \in Nat
<1>1. DOMAIN m_callbacks = 1..Len(m_callbacks) /\ Len(m_callbacks) \in Nat
  BY DEF TypeOK
<1>2. IsFiniteSet(DOMAIN m_callbacks)
  BY <1>1, FS_Interval
<1>3. At(do, m) \subseteq DOMAIN m_callbacks
  BY DEF At
<1> QED BY <1>2, <1>3, FS_Subset, FS_CardinalityType

\* A callback is left.
LEMMA Pushed ==
  ASSUME TypeOK, Whole, NEW cb \in Callback, m_callbacks' = Append(m_callbacks, cb),
         cb.do = "receive" => cb.module \in Modules /\ cb.message \in Messages
  PROVE  /\ m_callbacks' \in Seq(Callback) /\ Whole'
         /\ \A do, m : At(do, m)' = IF cb.do = do /\ cb.module = m
                                    THEN At(do, m) \cup {Len(m_callbacks) + 1} ELSE At(do, m)
         /\ \A m, msg : Receipts(m, msg)' =
                           IF cb = Receipt(m, msg) THEN Receipts(m, msg) \cup {Len(m_callbacks) + 1}
                                                   ELSE Receipts(m, msg)
         /\ \A m : Cardinality(At("start", m)') =
                     Cardinality(At("start", m))
                     + (IF cb.do = "start" /\ cb.module = m THEN 1 ELSE 0)
<1> DEFINE n == Len(m_callbacks) + 1
<1>1. /\ m_callbacks' \in Seq(Callback)
      /\ n \notin DOMAIN m_callbacks /\ DOMAIN m_callbacks' = DOMAIN m_callbacks \cup {n}
      /\ m_callbacks'[n] = cb /\ \A i \in DOMAIN m_callbacks : m_callbacks'[i] = m_callbacks[i]
  BY DEF TypeOK
<1> HIDE DEF n
<1>2. \A do, m : /\ n \notin At(do, m)
                 /\ At(do, m)' = IF cb.do = do /\ cb.module = m
                                 THEN At(do, m) \cup {n} ELSE At(do, m)
  BY <1>1 DEF At
<1>3. \A m, msg : /\ n \notin Receipts(m, msg)
                  /\ Receipts(m, msg)' = IF cb = Receipt(m, msg) THEN Receipts(m, msg) \cup {n}
                                                                 ELSE Receipts(m, msg)
  BY <1>1 DEF Receipts
<1>4. ASSUME NEW m
      PROVE  Cardinality(At("start", m)') =
               Cardinality(At("start", m)) + (IF cb.do = "start" /\ cb.module = m THEN 1 ELSE 0)
  <2>1. IsFiniteSet(At("start", m)) /\ Cardinality(At("start", m)) \in Nat
    BY AtIs
  <2>2. Cardinality(At("start", m) \cup {n}) = Cardinality(At("start", m)) + 1
    BY <1>2, <2>1, FS_AddElement
  <2>3. CASE cb.do = "start" /\ cb.module = m
    BY <1>2, <2>2, <2>3
  <2>4. CASE ~(cb.do = "start" /\ cb.module = m)
    BY <1>2, <2>1, <2>4
  <2> QED BY <2>3, <2>4
<1>5. Whole'
  BY <1>1 DEF Whole
<1> USE DEF n
<1> QED BY <1>1, <1>2, <1>3, <1>4, <1>5

\* InvokeCallbacks takes a callback.
LEMMA Popped ==
  ASSUME TypeOK, Whole, NEW cb, Take(cb)
  PROVE  /\ m_callbacks' \in Seq(Callback) /\ Whole' /\ cb \in Callback
         /\ running = Idle /\ node # "none"
         /\ cb.do = "receive" => cb.module \in Modules /\ cb.message \in Messages
         /\ Len(m_callbacks) \in At(cb.do, cb.module)
         /\ \A do, m : /\ At(do, m)' = At(do, m) \ {Len(m_callbacks)}
                       /\ Len(m_callbacks) \in At(do, m) => do = cb.do /\ m = cb.module
         /\ \A m, msg : /\ Receipts(m, msg)' = Receipts(m, msg) \ {Len(m_callbacks)}
                        /\ Len(m_callbacks) \in Receipts(m, msg) <=> cb = Receipt(m, msg)
         /\ \A m : Cardinality(At("start", m)') =
                     Cardinality(At("start", m))
                     - (IF cb.do = "start" /\ cb.module = m THEN 1 ELSE 0)
<1> DEFINE n == Len(m_callbacks)
<1>1. /\ m_callbacks' \in Seq(Callback) /\ cb = m_callbacks[n]
      /\ n \in DOMAIN m_callbacks /\ DOMAIN m_callbacks' = DOMAIN m_callbacks \ {n}
      /\ \A i \in DOMAIN m_callbacks' : m_callbacks'[i] = m_callbacks[i]
      /\ running = Idle /\ node # "none"
  BY DEF TypeOK, Take, Others, Newest
<1> HIDE DEF n
<1>2. cb \in Callback
  BY <1>1 DEF TypeOK
<1>3. /\ n \in At(cb.do, cb.module)
      /\ \A do, m : /\ At(do, m)' = At(do, m) \ {n}
                    /\ n \in At(do, m) => do = cb.do /\ m = cb.module
  BY <1>1 DEF At
<1>4. \A m, msg : /\ Receipts(m, msg)' = Receipts(m, msg) \ {n}
                  /\ n \in Receipts(m, msg) <=> cb = Receipt(m, msg)
  BY <1>1 DEF Receipts
<1>5. ASSUME NEW m
      PROVE  Cardinality(At("start", m)') =
               Cardinality(At("start", m)) - (IF cb.do = "start" /\ cb.module = m THEN 1 ELSE 0)
  <2>1. IsFiniteSet(At("start", m)) /\ Cardinality(At("start", m)) \in Nat
    BY AtIs
  <2>2. CASE cb.do = "start" /\ cb.module = m
    <3>1. Cardinality(At("start", m) \ {n}) = Cardinality(At("start", m)) - 1
      BY <1>3, <2>1, <2>2, FS_RemoveElement
    <3> QED BY <1>3, <2>2, <3>1
  <2>3. CASE ~(cb.do = "start" /\ cb.module = m)
    <3>1. At("start", m)' = At("start", m)
      BY <1>3, <2>3
    <3> QED BY <2>1, <2>3, <3>1
  <2> QED BY <2>2, <2>3
<1>6. Whole' /\ (cb.do = "receive" => cb.module \in Modules /\ cb.message \in Messages)
  BY <1>1 DEF Whole
<1> USE DEF n
<1> QED BY <1>1, <1>2, <1>3, <1>4, <1>5, <1>6

\* Nothing happens to it.
LEMMA Unmoved ==
  ASSUME m_callbacks' = m_callbacks
  PROVE  /\ \A do, m : At(do, m)' = At(do, m)
         /\ \A m, msg : Receipts(m, msg)' = Receipts(m, msg)
         /\ Whole <=> Whole'
  BY DEF At, Receipts, Whole

LEMMA InitInv == Init => Inv
<1> SUFFICES ASSUME Init PROVE Inv
  OBVIOUS
<1>1. /\ script \in [Modules -> Scripts] /\ host = Idle
      /\ life = [m \in Modules |-> "unborn"] /\ starts = [m \in Modules |-> 0]
      /\ sent = [m \in Modules |-> {}] /\ m_modules = << >> /\ node = "none"
      /\ m_call_on_init = << >> /\ m_callbacks = << >> /\ running = Idle
      /\ js = [m \in Modules |-> [created |-> 0, ok |-> FALSE, started |-> 0,
                                  destroyed |-> 0, got |-> << >>, said |-> "nothing"]]
      /\ clones = {} /\ wire = {} /\ crashed = FALSE
  BY DEF Init
<1>2. /\ DOMAIN m_callbacks = {} /\ DOMAIN m_modules = {} /\ DOMAIN m_call_on_init = {}
      /\ m_modules \in [DOMAIN m_modules -> Handle]
      /\ m_callbacks \in Seq(Callback) /\ m_call_on_init \in Seq(Modules)
      /\ Len(m_callbacks) = 0
  BY <1>1
<1>3. \A do, m : At(do, m) = {} /\ Cardinality(At(do, m)) = 0
  <2>1. \A do, m : At(do, m) = {}
    BY <1>2 DEF At
  <2> QED BY <2>1, FS_EmptySet
<1>4. \A m : Waiting(m) = {}
  BY <1>2 DEF Waiting
<1>5. \A m, msg : Receipts(m, msg) = {}
  BY <1>2 DEF Receipts
<1>6. \A do \in {"loaded", "quitting"} : \A m : ~Within(do, m)
  BY <1>1 DEF Within, Idle
<1>7. Types
  <2>1. << >> \in Seq(Messages)
    OBVIOUS
  <2>2. js \in [Modules -> [created : Nat, ok : BOOLEAN, started : Nat, destroyed : Nat,
                         got : Seq(Messages),
                         said : {"nothing", "true", "false", "undefined"}]]
    BY <1>1, <2>1
  <2>3. starts \in [Modules -> 0..MaxStarts]
    BY <1>1, BoundAssumption
  <2>4. m_callbacks \in Seq(Callback) /\ m_call_on_init \in Seq(Modules)
    BY <1>2
  <2>5. /\ DOMAIN m_modules \subseteq Modules
        /\ \A m \in DOMAIN m_modules : m_modules[m] \in Handle
    BY <1>2
  <2>6. /\ life \in [Modules -> {"unborn", "attached", "leaving", "gone", "refused"}]
        /\ sent \in [Modules -> SUBSET Messages]
    BY <1>1
  <2>7. /\ host \in Callback \cup {Idle} /\ running \in Callback \cup {Idle}
        /\ node \in {"none", "booting", "announced", "ready"}
        /\ clones \subseteq Modules \X Messages
        /\ wire \subseteq [by : Modules, post : Posts, content : BOOLEAN,
                            properties : SUBSET {"text", "blank", "number"}]
        /\ crashed \in BOOLEAN
    BY <1>1
  <2>8. TypeOK
    BY <1>1, <2>2, <2>3, <2>4, <2>5, <2>6, <2>7 DEF TypeOK
  <2> QED BY <1>2, <2>8 DEF Types
<1>8. \A m \in Modules : host # Call("load", m) /\ ~HasModule(m)
  BY <1>1, <1>2, CallsAre DEF HasModule
<1>9. \A m \in Modules : /\ js[m].created = 0 /\ js[m].started = 0 /\ js[m].destroyed = 0
                         /\ Len(js[m].got) = 0 /\ js[m].ok = FALSE /\ starts[m] = 0
                         /\ life[m] = "unborn"
  BY <1>1
<1>10. Whole /\ Managed /\ Loads /\ Removals
  <2>1. running.do = "idle"
    BY <1>1 DEF Idle
  <2> QED BY <2>1, <1>1, <1>2, <1>3, <1>4, <1>6, <1>8, <1>9 DEF Whole, Managed, Loads, Removals, Single
<1>11. Begins /\ Accepted
  BY <1>3, <1>6, <1>8, <1>9 DEF Begins, Accepted, Owed
<1>12. Clones /\ PublishKeepsMessage
  BY <1>1, <1>5 DEF Clones, Single, PublishKeepsMessage
<1> QED BY <1>7, <1>10, <1>11, <1>12 DEF Inv

LEMMA Stays ==
  ASSUME m_call_on_init' = m_call_on_init
  PROVE  \A m : Waiting(m)' = Waiting(m)
  BY DEF Waiting

\* A module waits for Node.js.
LEMMA Waits ==
  ASSUME TypeOK, NEW m \in Modules, m_call_on_init' = Append(m_call_on_init, m)
  PROVE  /\ m_call_on_init' \in Seq(Modules)
         /\ \A x : x # m => Waiting(x)' = Waiting(x)
         /\ \E n : n \notin Waiting(m) /\ Waiting(m)' = Waiting(m) \cup {n}
<1> DEFINE n == Len(m_call_on_init) + 1
<1>0. m_call_on_init \in Seq(Modules)
  BY DEF TypeOK
<1>1. /\ m_call_on_init' \in Seq(Modules) /\ n \notin DOMAIN m_call_on_init
      /\ DOMAIN m_call_on_init' = DOMAIN m_call_on_init \cup {n}
      /\ m_call_on_init'[n] = m
      /\ \A i \in DOMAIN m_call_on_init : m_call_on_init'[i] = m_call_on_init[i]
  BY <1>0
<1> HIDE DEF n
<1> QED BY <1>1 DEF Waiting

\* What was published stays as it was, if no answer of publish changes.
LEMMA Published ==
  ASSUME TypeOK, PublishKeepsMessage, wire' = wire,
         \A m \in Modules : /\ js'[m].said = js[m].said
                            /\ js[m].created > 0 => js'[m].created > 0
  PROVE  PublishKeepsMessage'
<1>1. \A e \in wire : e.by \in Modules
  BY DEF TypeOK
<1> QED BY <1>1 DEF PublishKeepsMessage
\* A step keeps a part of the invariant that it has nothing to do with.
LEMMA LoadsStay ==
  ASSUME Loads, node' = "ready" => m_call_on_init' = << >>,
         \A m \in Modules :
           /\ At("load", m)' \subseteq At("load", m) /\ Waiting(m)' = Waiting(m)
           /\ Fresh(m)' => Fresh(m)
           /\ Within("loaded", m)' => Within("loaded", m)
           /\ js'[m].created = js[m].created
  PROVE  Loads'
<1> SUFFICES ASSUME NEW m \in Modules
             PROVE  /\ Single(At("load", m))' /\ Single(Waiting(m))'
                    /\ At("load", m)' = {} \/ Waiting(m)' = {}
                    /\ Fresh(m)' \/ js'[m].created > 0 \/ Within("loaded", m)' =>
                         At("load", m)' = {} /\ Waiting(m)' = {}
                    /\ Fresh(m)' => js'[m].created = 0
                    /\ js'[m].created <= 1
  BY DEF Loads
<1> QED BY DEF Loads, Single

LEMMA RemovalsStay ==
  ASSUME Removals,
         \A m \in Modules :
           /\ At("quit", m)' \subseteq At("quit", m)
           /\ life[m] \in {"leaving", "gone"} => life'[m] \in {"leaving", "gone"}
           /\ Within("quitting", m)' => Within("quitting", m)
           /\ js'[m].destroyed = js[m].destroyed
  PROVE  Removals'
<1> SUFFICES ASSUME NEW m \in Modules
             PROVE  /\ Single(At("quit", m))'
                    /\ \/ At("quit", m)' # {} \/ Within("quitting", m)' \/ js'[m].destroyed > 0
                       => life'[m] \in {"leaving", "gone"}
                    /\ Within("quitting", m)' \/ js'[m].destroyed > 0 => At("quit", m)' = {}
                    /\ js'[m].destroyed <= 1
  BY DEF Removals
<1> QED BY DEF Removals, Single

LEMMA BeginsStay ==
  ASSUME TypeOK, Begins,
         \A m \in Modules :
           /\ Cardinality(At("start", m)') \in {Cardinality(At("start", m)),
                                                Cardinality(At("start", m)) - 1}
           /\ Owed(m)' => Owed(m)
           /\ js'[m].started = js[m].started /\ starts'[m] = starts[m]
  PROVE  Begins'
<1> SUFFICES ASSUME NEW m \in Modules
             PROVE  js'[m].started + Cardinality(At("start", m)')
                    + (IF Owed(m)' THEN 1 ELSE 0) <= starts'[m]
  BY DEF Begins
<1>1. /\ js[m].started \in Nat /\ starts[m] \in Int /\ Cardinality(At("start", m)) \in Nat
      /\ js[m].started + Cardinality(At("start", m)) + (IF Owed(m) THEN 1 ELSE 0) <= starts[m]
  <2>1. js[m].started \in Nat /\ starts[m] \in Int
    BY BoundAssumption DEF TypeOK
  <2>2. Cardinality(At("start", m)) \in Nat
    BY AtIs
  <2> QED BY <2>1, <2>2 DEF Begins
<1> DEFINE c == Cardinality(At("start", m))
           s == js[m].started
           t == starts[m]
<1>2. /\ c \in Nat /\ s \in Nat /\ t \in Int /\ s + c + (IF Owed(m) THEN 1 ELSE 0) <= t
      /\ Cardinality(At("start", m)') \in {c, c - 1} /\ js'[m].started = s /\ starts'[m] = t
      /\ Owed(m)' => Owed(m)
  BY <1>1
<1> HIDE DEF c, s, t
<1> QED BY <1>2

LEMMA AcceptedStays ==
  ASSUME Accepted, script' = script,
         \A m \in Modules :
           /\ HasModule(m)' /\ m_modules'[m].state = "initialized" =>
                HasModule(m) /\ m_modules[m].state = "initialized"
           /\ Within("loaded", m)' => Within("loaded", m)
           /\ At("receive", m)' \subseteq At("receive", m)
           /\ js'[m].ok = js[m].ok /\ js'[m].started = js[m].started
           /\ js'[m].destroyed = js[m].destroyed /\ js'[m].got = js[m].got
  PROVE  Accepted'
<1> SUFFICES ASSUME NEW m \in Modules
             PROVE  /\ js'[m].ok => Registers(script[m])
                    /\ HasModule(m)' /\ m_modules'[m].state = "initialized" => js'[m].ok
                    /\ Within("loaded", m)' /\ Registers(script[m]) => js'[m].ok
                    /\ At("receive", m)' # {} => js'[m].ok
                    /\ js'[m].started + js'[m].destroyed + Len(js'[m].got) > 0 => js'[m].ok
  BY DEF Accepted
<1> QED BY DEF Accepted

LEMMA ClonesStay ==
  ASSUME Clones, clones' = clones, crashed' = crashed, sent' = sent,
         \A m \in Modules, msg \in Messages : Receipts(m, msg)' = Receipts(m, msg)
  PROVE  Clones'
<1> SUFFICES ASSUME NEW m \in Modules, NEW msg \in Messages
             PROVE  /\ Receipts(m, msg)' # {} => msg \in sent'[m]
                    /\ ~crashed' => /\ <<m, msg>> \in clones' <=> Receipts(m, msg)' # {}
                                   /\ Single(Receipts(m, msg))'
  BY DEF Clones
<1> QED BY DEF Clones, Single
-----------------------------------------------------------------------------
(* The gateway's threads *)

LEMMA Adds ==
  ASSUME Inv, NEW m \in Modules, AddModule(m)
  PROVE  Inv'
<1>0. Types /\ Whole /\ Managed /\ Loads /\ Removals /\ Begins /\ Accepted /\ Clones
  BY DEF Inv
<1>1. TypeOK
  BY <1>0 DEF Types
<1>2. /\ host = Idle /\ life[m] = "unborn" /\ host' = Call("load", m)
      /\ UNCHANGED <<script, life, starts, sent, running, js, clones, wire, crashed>>
      /\ node' = IF node = "none" THEN "booting" ELSE node
      /\ StartModule(m, Announced)
  BY DEF AddModule
<1>3. /\ \A x \in Modules : host # Call("load", x)
      /\ \A x \in Modules : host' = Call("load", x) <=> x = m
  BY <1>2, CallsAre
<1>4. Fresh(m) /\ ~HasModule(m) /\ At("load", m) = {} /\ Waiting(m) = {} /\ js[m].created = 0
  BY <1>0, <1>2, <1>3 DEF Fresh, Managed, Loads
<1>5. /\ DOMAIN m_modules' = DOMAIN m_modules \cup {m}
      /\ m_modules' \in [DOMAIN m_modules' -> Handle]
      /\ m_modules'[m] = NewHandle
      /\ \A x \in DOMAIN m_modules : m_modules'[x] = m_modules[x]
  BY <1>0, <1>4 DEF AddModule, Types, HasModule, NewHandle, Handle
<1>6. /\ m_callbacks' \in Seq(Callback) /\ Whole' /\ m_call_on_init' \in Seq(Modules)
      /\ node' = "ready" => m_call_on_init' = << >>
      /\ \A do, x : do \notin {"load", "announce"} \/ x \in Modules \ {m} =>
                      At(do, x)' = At(do, x)
      /\ \A x : x # m => Waiting(x)' = Waiting(x)
      /\ \A x \in Modules, msg \in Messages : Receipts(x, msg)' = Receipts(x, msg)
      /\ \A i, j \in At("load", m)' : i = j
      /\ \A i, j \in Waiting(m)' : i = j
      /\ At("load", m)' = {} \/ Waiting(m)' = {}
  <2>1. /\ Call("load", m) \in Callback /\ Call("load", m).do = "load"
        /\ Call("load", m).module = m
        /\ Call("announce", None) \in Callback /\ Call("announce", None).do = "announce"
        /\ Call("announce", None).module = None /\ None \notin Modules
        /\ \A x \in Modules, msg \in Messages :
             Call("load", m) # Receipt(x, msg) /\ Call("announce", None) # Receipt(x, msg)
    BY CallsAre, NoneAssumption
  <2>2. CASE node = "none"
    <3>1. m_callbacks' = Append(m_callbacks, Call("announce", None))
      BY <1>2, <2>2 DEF StartModule, Announced
    <3>2. m_call_on_init' = Append(m_call_on_init, m) /\ node' = "booting"
      BY <1>2, <2>2 DEF StartModule
    <3>3. /\ m_callbacks' \in Seq(Callback) /\ Whole'
          /\ \A do, x : do # "announce" \/ x # None => At(do, x)' = At(do, x)
          /\ \A x \in Modules, msg \in Messages : Receipts(x, msg)' = Receipts(x, msg)
      BY <1>0, <1>1, <2>1, <3>1, Pushed
    <3>4. /\ m_call_on_init' \in Seq(Modules)
          /\ \A x : x # m => Waiting(x)' = Waiting(x)
          /\ \E n : Waiting(m)' = {n}
      BY <1>1, <1>4, <3>2, Waits
    <3> QED BY <1>4, <2>1, <3>2, <3>3, <3>4
  <2>3. CASE node = "ready"
    <3>1. m_callbacks' = Append(m_callbacks, Call("load", m))
      BY <1>2, <2>3 DEF StartModule, Announced
    <3>2. m_call_on_init' = m_call_on_init /\ node' = "ready"
      BY <1>2, <2>3 DEF StartModule
    <3>3. /\ m_callbacks' \in Seq(Callback) /\ Whole'
          /\ \A do, x : do # "load" \/ x # m => At(do, x)' = At(do, x)
          /\ \A x \in Modules, msg \in Messages : Receipts(x, msg)' = Receipts(x, msg)
          /\ At("load", m)' = At("load", m) \cup {Len(m_callbacks) + 1}
      BY <1>0, <1>1, <2>1, <3>1, Pushed
    <3>4. m_call_on_init' \in Seq(Modules) /\ \A x : Waiting(x)' = Waiting(x)
      BY <1>1, <3>2, Stays DEF TypeOK
    <3>5. node' = "ready" => m_call_on_init' = << >>
      BY <1>0, <2>3, <3>2 DEF Loads
    <3> QED BY <1>4, <3>3, <3>4, <3>5
  <2>4. CASE node \notin {"none", "ready"}
    <3>1. m_callbacks' = m_callbacks
      BY <1>2, <2>4 DEF StartModule, Announced
    <3>2. m_call_on_init' = Append(m_call_on_init, m) /\ node' = node
      BY <1>2, <2>4 DEF StartModule
    <3>3. /\ m_callbacks' \in Seq(Callback) /\ Whole'
          /\ \A do, x : At(do, x)' = At(do, x)
          /\ \A x, msg : Receipts(x, msg)' = Receipts(x, msg)
      BY <1>0, <1>1, <3>1, Unmoved DEF TypeOK
    <3>4. /\ m_call_on_init' \in Seq(Modules)
          /\ \A x : x # m => Waiting(x)' = Waiting(x)
          /\ \E n : Waiting(m)' = {n}
      BY <1>1, <1>4, <3>2, Waits
    <3> QED BY <1>4, <2>4, <3>2, <3>3, <3>4
  <2> QED BY <2>2, <2>3, <2>4
<1>7. Types'
  <2>1. host' \in Callback /\ node' \in {"none", "booting", "announced", "ready"}
    BY <1>1, <1>2, CallsAre DEF TypeOK
  <2>2. DOMAIN m_modules' \subseteq Modules /\ \A x \in DOMAIN m_modules' : m_modules'[x] \in Handle
    BY <1>1, <1>5 DEF TypeOK
  <2>3. TypeOK'
    BY <1>1, <1>2, <1>6, <2>1, <2>2 DEF TypeOK
  <2> QED BY <1>5, <2>3 DEF Types
<1>8. /\ \A x \in Modules \ {m} : (HasModule(x)' <=> HasModule(x))
      /\ \A x \in Modules \ {m} : HasModule(x) => m_modules'[x] = m_modules[x]
      /\ HasModule(m)' /\ m_modules'[m] = NewHandle
  BY <1>5 DEF HasModule
<1>9. Managed'
  BY <1>0, <1>2, <1>3, <1>8 DEF Managed, Fresh, Within, HasModule, NewHandle
<1>10. Loads'
  <2>1. ASSUME NEW x \in Modules, x # m
        PROVE  /\ At("load", x)' = At("load", x) /\ Waiting(x)' = Waiting(x)
               /\ Fresh(x)' = Fresh(x) /\ Within("loaded", x)' = Within("loaded", x)
               /\ js'[x] = js[x]
    BY <1>2, <1>3, <1>6, <2>1 DEF Fresh, Within
  <2>2. ~Fresh(m)' /\ Within("loaded", m)' = Within("loaded", m) /\ js'[m] = js[m]
    BY <1>2 DEF Fresh, Within
  <2>3. ~Within("loaded", m)
    BY <1>0, <1>4 DEF Managed
  <2> QED BY <1>0, <1>4, <1>6, <2>1, <2>2, <2>3 DEF Loads, Single
<1>11. Removals'
  <2>1. \A x \in Modules : At("quit", x)' = At("quit", x)
    BY <1>6
  <2> QED BY <1>0, <1>2, <2>1, RemovalsStay DEF Within
<1>12. Begins'
  <2>1. \A x \in Modules : At("start", x)' = At("start", x)
    BY <1>6
  <2>2. \A x \in Modules : Owed(x)' => Owed(x)
    BY <1>2, <1>6, <1>8 DEF Owed, Within, NewHandle
  <2> QED BY <1>0, <1>1, <1>2, <2>1, <2>2, BeginsStay
<1>13. Accepted'
  <2>1. \A x \in Modules : At("receive", x)' = At("receive", x)
    BY <1>6
  <2> QED BY <1>0, <1>2, <1>8, <2>1, AcceptedStays DEF Within, NewHandle
<1>14. Clones'
  BY <1>0, <1>2, <1>6, ClonesStay
<1>15. PublishKeepsMessage'
  BY <1>1, <1>2, Published DEF Inv
<1> QED BY <1>6, <1>7, <1>9, <1>10, <1>11, <1>12, <1>13, <1>14, <1>15 DEF Inv
\* StartNode is refused.
LEMMA StartFails ==
  ASSUME Inv, NEW m \in Modules, StartNodeFails(m)
  PROVE  Inv'
<1>0. Types /\ Whole /\ Managed /\ Loads /\ Removals /\ Begins /\ Accepted /\ Clones
  BY DEF Inv
<1>1. TypeOK
  BY <1>0 DEF Types
<1>2. /\ host = Idle /\ life[m] = "unborn" /\ life' = [life EXCEPT ![m] = "refused"]
      /\ node = "none" /\ m_callbacks' = Append(m_callbacks, Call("announce", None))
      /\ UNCHANGED <<script, host, starts, sent, m_modules, node, m_call_on_init,
                     running, js, clones, wire, crashed>>
  BY DEF StartNodeFails, Announced
<1>3. \A x \in Modules : host # Call("load", x)
  BY <1>2, CallsAre
<1>4. \A x \in Modules : life'[x] = IF x = m THEN "refused" ELSE life[x]
  BY <1>1, <1>2 DEF TypeOK
<1>5. /\ m_callbacks' \in Seq(Callback) /\ Whole'
      /\ \A x \in Modules : /\ At("load", x)' = At("load", x) /\ At("quit", x)' = At("quit", x)
                            /\ At("start", x)' = At("start", x)
                            /\ At("receive", x)' = At("receive", x)
                            /\ Waiting(x)' = Waiting(x)
                            /\ \A msg \in Messages : Receipts(x, msg)' = Receipts(x, msg)
  <2>1. /\ Call("announce", None) \in Callback /\ Call("announce", None).do = "announce"
        /\ Call("announce", None).module = None /\ None \notin Modules
        /\ \A x \in Modules, msg \in Messages : Call("announce", None) # Receipt(x, msg)
    BY CallsAre, NoneAssumption
  <2>2. \A x : Waiting(x)' = Waiting(x)
    BY <1>2, Stays
  <2> QED BY <1>0, <1>1, <1>2, <2>1, <2>2, Pushed
<1>6. Types'
  <2>1. life' \in [Modules -> {"unborn", "attached", "leaving", "gone", "refused"}]
    BY <1>1, <1>2 DEF TypeOK
  <2> QED BY <1>0, <1>1, <1>2, <1>5, <2>1 DEF Types, TypeOK
<1>7. \A x \in Modules : Fresh(x)' <=> Fresh(x)
  BY <1>2, <1>3, <1>4 DEF Fresh
<1>8. Managed'
  BY <1>0, <1>2, <1>3, <1>4, <1>7 DEF Managed, Within, HasModule
<1>9. Loads'
  BY <1>0, <1>2, <1>5, <1>7, LoadsStay DEF Loads, Within
<1>10. Removals'
  BY <1>0, <1>2, <1>4, <1>5, RemovalsStay DEF Within
<1>11. Begins'
  BY <1>0, <1>1, <1>2, <1>5, BeginsStay DEF Owed, Within, HasModule
<1>12. Accepted'
  BY <1>0, <1>2, <1>5, AcceptedStays DEF Within, HasModule
<1>13. Clones' /\ PublishKeepsMessage'
  BY <1>0, <1>1, <1>2, <1>5, ClonesStay, Published DEF Inv
<1> QED BY <1>5, <1>6, <1>8, <1>9, <1>10, <1>11, <1>12, <1>13 DEF Inv

LEMMA Creates ==
  ASSUME Inv, NEW m \in Modules, NODEJS_Create(m)
  PROVE  Inv'
<1>0. Types /\ Whole /\ Managed /\ Loads /\ Removals /\ Begins /\ Accepted /\ Clones
  BY DEF Inv
<1>1. TypeOK /\ m_modules \in [DOMAIN m_modules -> Handle]
  BY <1>0 DEF Types
<1>2. /\ host = Call("load", m) /\ host' = Idle
      /\ life' = [life EXCEPT ![m] = "attached"]
      /\ m_modules' = [m_modules EXCEPT ![m].state = "initializing"]
      /\ UNCHANGED <<script, starts, sent, node, m_call_on_init, m_callbacks,
                     running, js, clones, wire, crashed>>
  BY DEF NODEJS_Create
<1>3. /\ \A x \in Modules : host' # Call("load", x)
      /\ \A x \in Modules : host = Call("load", x) <=> x = m
      /\ life[m] = "unborn" /\ HasModule(m)
  BY <1>0, <1>2, CallsAre DEF Managed
<1>4. \A x \in Modules : life'[x] = IF x = m THEN "attached" ELSE life[x]
  BY <1>1, <1>2 DEF TypeOK
<1>5. /\ DOMAIN m_modules' = DOMAIN m_modules /\ m_modules' \in [DOMAIN m_modules' -> Handle]
      /\ m_modules'[m].state = "initializing"
      /\ \A x \in DOMAIN m_modules : /\ m_modules'[x].id = m_modules[x].id
                                     /\ m_modules'[x].pending = m_modules[x].pending
                                     /\ x # m => m_modules'[x] = m_modules[x]
  BY <1>1, <1>2, <1>3 DEF HasModule, Handle
<1>6. /\ Whole' /\ \A do, x : At(do, x)' = At(do, x)
      /\ \A x : Waiting(x)' = Waiting(x)
      /\ \A x, msg : Receipts(x, msg)' = Receipts(x, msg)
  BY <1>0, <1>2, Unmoved, Stays
<1>7. Types'
  <2>1. life' \in [Modules -> {"unborn", "attached", "leaving", "gone", "refused"}]
    BY <1>1, <1>2 DEF TypeOK
  <2>2. DOMAIN m_modules' \subseteq Modules /\ \A x \in DOMAIN m_modules' : m_modules'[x] \in Handle
    BY <1>1, <1>5 DEF TypeOK
  <2> QED BY <1>0, <1>1, <1>2, <1>5, <2>1, <2>2 DEF Types, TypeOK
<1>8. \A x \in Modules : Fresh(x)' <=> Fresh(x)
  BY <1>3, <1>4 DEF Fresh
<1>9. Managed'
  BY <1>0, <1>2, <1>3, <1>4, <1>5, <1>8 DEF Managed, Within, HasModule
<1>10. Loads'
  BY <1>0, <1>2, <1>6, <1>8, LoadsStay DEF Loads, Within
<1>11. Removals'
  BY <1>0, <1>2, <1>3, <1>4, <1>6, RemovalsStay DEF Within
<1>12. Begins'
  <2>1. \A x \in Modules : Owed(x)' => Owed(x)
    BY <1>2, <1>5, <1>6 DEF Owed, Within, HasModule
  <2> QED BY <1>0, <1>1, <1>2, <1>6, <2>1, BeginsStay
<1>13. Accepted'
  BY <1>0, <1>2, <1>5, <1>6, AcceptedStays DEF Within, HasModule
<1>14. Clones' /\ PublishKeepsMessage'
  BY <1>0, <1>1, <1>2, <1>6, ClonesStay, Published DEF Inv
<1> QED BY <1>6, <1>7, <1>9, <1>10, <1>11, <1>12, <1>13, <1>14 DEF Inv

LEMMA Starts ==
  ASSUME Inv, NEW m \in Modules, NODEJS_Start(m)
  PROVE  Inv'
<1>0. Types /\ Whole /\ Managed /\ Loads /\ Removals /\ Begins /\ Accepted /\ Clones
  BY DEF Inv
<1>1. TypeOK
  BY <1>0 DEF Types
<1>2. /\ starts[m] < MaxStarts /\ starts' = [starts EXCEPT ![m] = @ + 1]
      /\ m_callbacks' = Append(m_callbacks, Call("start", m))
      /\ UNCHANGED <<script, host, life, sent, m_modules, node, m_call_on_init,
                     running, js, clones, wire, crashed>>
  BY DEF NODEJS_Start, AddCallback
<1>3. /\ \A x \in Modules : starts'[x] = IF x = m THEN starts[x] + 1 ELSE starts[x]
      /\ starts' \in [Modules -> 0..MaxStarts]
  BY <1>1, <1>2, BoundAssumption DEF TypeOK
<1>4. /\ m_callbacks' \in Seq(Callback) /\ Whole'
      /\ \A x \in Modules : /\ At("load", x)' = At("load", x) /\ At("quit", x)' = At("quit", x)
                            /\ At("receive", x)' = At("receive", x)
                            /\ Waiting(x)' = Waiting(x)
                            /\ \A msg \in Messages : Receipts(x, msg)' = Receipts(x, msg)
                            /\ Cardinality(At("start", x)') =
                                 Cardinality(At("start", x)) + (IF x = m THEN 1 ELSE 0)
  <2>1. /\ Call("start", m) \in Callback /\ Call("start", m).do = "start"
        /\ Call("start", m).module = m
        /\ \A x \in Modules, msg \in Messages : Call("start", m) # Receipt(x, msg)
    BY CallsAre
  <2>2. \A x : Waiting(x)' = Waiting(x)
    BY <1>2, Stays
  <2> QED BY <1>0, <1>1, <1>2, <2>1, <2>2, Pushed
<1>5. Types'
  BY <1>0, <1>1, <1>2, <1>3, <1>4 DEF Types, TypeOK
<1>6. \A x \in Modules : (Fresh(x)' <=> Fresh(x)) /\ (Owed(x)' <=> Owed(x))
  BY <1>2, <1>4 DEF Fresh, Owed, Within, HasModule
<1>7. Managed'
  BY <1>0, <1>2, <1>6 DEF Managed, Within, HasModule
<1>8. Loads'
  BY <1>0, <1>2, <1>4, <1>6, LoadsStay DEF Loads, Within
<1>9. Removals'
  BY <1>0, <1>2, <1>4, RemovalsStay DEF Within
<1>10. Begins'
  <2> SUFFICES ASSUME NEW x \in Modules
               PROVE  js'[x].started + Cardinality(At("start", x)')
                      + (IF Owed(x)' THEN 1 ELSE 0) <= starts'[x]
    BY DEF Begins
  <2>1. /\ js[x].started \in Nat /\ starts[x] \in Int /\ Cardinality(At("start", x)) \in Nat
        /\ js[x].started + Cardinality(At("start", x)) + (IF Owed(x) THEN 1 ELSE 0) <= starts[x]
    <3>1. js[x].started \in Nat /\ starts[x] \in Int
      BY <1>1, BoundAssumption DEF TypeOK
    <3>2. Cardinality(At("start", x)) \in Nat
      BY <1>1, AtIs
    <3> QED BY <1>0, <3>1, <3>2 DEF Begins
  <2> DEFINE c == Cardinality(At("start", x))
             s == js[x].started
             t == starts[x]
  <2>2. /\ c \in Nat /\ s \in Nat /\ t \in Int /\ s + c + (IF Owed(x) THEN 1 ELSE 0) <= t
        /\ Cardinality(At("start", x)') = c + (IF x = m THEN 1 ELSE 0)
        /\ js'[x].started = s /\ starts'[x] = IF x = m THEN t + 1 ELSE t
        /\ Owed(x)' <=> Owed(x)
    BY <1>2, <1>3, <1>4, <1>6, <2>1
  <2> HIDE DEF c, s, t
  <2> QED BY <2>2
<1>11. Accepted'
  BY <1>0, <1>2, <1>4, AcceptedStays DEF Within, HasModule
<1>12. Clones' /\ PublishKeepsMessage'
  BY <1>0, <1>1, <1>2, <1>4, ClonesStay, Published DEF Inv
<1> QED BY <1>4, <1>5, <1>7, <1>8, <1>9, <1>10, <1>11, <1>12 DEF Inv

LEMMA Receives ==
  ASSUME Inv, NEW m \in Modules, NEW msg \in Messages, NODEJS_Receive(m, msg)
  PROVE  Inv'
<1>0. Types /\ Whole /\ Managed /\ Loads /\ Removals /\ Begins /\ Accepted /\ Clones
  BY DEF Inv
<1>1. TypeOK
  BY <1>0 DEF Types
<1>2. /\ life[m] = "attached" /\ msg \notin sent[m]
      /\ sent' = [sent EXCEPT ![m] = @ \cup {msg}]
      /\ UNCHANGED <<script, host, life, starts, m_modules, node, m_call_on_init,
                     running, js, wire, crashed>>
  BY DEF NODEJS_Receive
<1>3. /\ \A x \in Modules : sent'[x] = IF x = m THEN sent[x] \cup {msg} ELSE sent[x]
      /\ sent' \in [Modules -> SUBSET Messages]
  BY <1>1, <1>2 DEF TypeOK
<1>4. HasModule(m) /\ Receipts(m, msg) = {}
  BY <1>0, <1>2 DEF Managed, Clones
<1>5. \A x : Waiting(x)' = Waiting(x)
  BY <1>2, Stays
<1>6. \/ /\ m_callbacks' = m_callbacks /\ clones' = clones
      \/ /\ m_modules[m].state = "initialized" /\ clones' = clones \cup {<<m, msg>>}
         /\ m_callbacks' = Append(m_callbacks, Receipt(m, msg))
  BY DEF NODEJS_Receive, AddCallback, Receipt
<1>7. /\ Receipt(m, msg) \in Callback /\ Receipt(m, msg).do = "receive"
      /\ Receipt(m, msg).module = m /\ Receipt(m, msg).message = msg
      /\ \A x \in Modules, y \in Messages : Receipt(m, msg) = Receipt(x, y) <=> x = m /\ y = msg
  BY CallsAre
<1>8. /\ m_callbacks' \in Seq(Callback) /\ Whole'
      /\ \A x \in Modules : /\ At("load", x)' = At("load", x) /\ At("quit", x)' = At("quit", x)
                            /\ At("start", x)' = At("start", x)
                            /\ x # m => At("receive", x)' = At("receive", x)
      /\ \A x \in Modules, y \in Messages :
           x # m \/ y # msg => Receipts(x, y)' = Receipts(x, y)
  <2>1. CASE m_callbacks' = m_callbacks
    BY <1>0, <1>1, <2>1, Unmoved DEF TypeOK
  <2>2. CASE m_callbacks' = Append(m_callbacks, Receipt(m, msg))
    BY <1>0, <1>1, <1>7, <2>2, Pushed
  <2> QED BY <1>6, <2>1, <2>2
<1>9. \/ /\ At("receive", m)' = At("receive", m) /\ clones' = clones
         /\ Receipts(m, msg)' = {}
      \/ /\ m_modules[m].state = "initialized" /\ clones' = clones \cup {<<m, msg>>}
         /\ Receipts(m, msg)' = {Len(m_callbacks) + 1}
  <2>1. CASE m_callbacks' = m_callbacks /\ clones' = clones
    BY <1>4, <2>1, Unmoved
  <2>2. CASE /\ m_modules[m].state = "initialized" /\ clones' = clones \cup {<<m, msg>>}
             /\ m_callbacks' = Append(m_callbacks, Receipt(m, msg))
    <3>1. Receipts(m, msg)' = Receipts(m, msg) \cup {Len(m_callbacks) + 1}
      BY <1>0, <1>1, <1>7, <2>2, Pushed
    <3> QED BY <1>4, <2>2, <3>1
  <2> QED BY <1>6, <2>1, <2>2
<1>10. Types'
  <2>1. clones' \subseteq Modules \X Messages
    BY <1>1, <1>6 DEF TypeOK
  <2> QED BY <1>0, <1>1, <1>2, <1>3, <1>8, <2>1 DEF Types, TypeOK
<1>11. \A x \in Modules : (Fresh(x)' <=> Fresh(x)) /\ (Owed(x)' <=> Owed(x))
  BY <1>2, <1>5, <1>8 DEF Fresh, Owed, Within, HasModule
<1>12. Managed'
  BY <1>0, <1>2, <1>11 DEF Managed, Within, HasModule
<1>13. Loads'
  BY <1>0, <1>2, <1>5, <1>8, <1>11, LoadsStay DEF Loads, Within
<1>14. Removals'
  BY <1>0, <1>2, <1>8, RemovalsStay DEF Within
<1>15. Begins'
  BY <1>0, <1>1, <1>2, <1>8, <1>11, BeginsStay
<1>16. Accepted'
  <2> SUFFICES ASSUME NEW x \in Modules
               PROVE  At("receive", x)' # {} => js[x].ok
    BY <1>0, <1>2 DEF Accepted, Within, HasModule
  <2> QED BY <1>0, <1>4, <1>8, <1>9 DEF Accepted
<1>17. Clones'
  <2> SUFFICES ASSUME NEW x \in Modules, NEW y \in Messages
               PROVE  /\ Receipts(x, y)' # {} => y \in sent'[x]
                      /\ ~crashed' => /\ <<x, y>> \in clones' <=> Receipts(x, y)' # {}
                                     /\ Single(Receipts(x, y))'
    BY DEF Clones
  <2>1. CASE x = m /\ y = msg
    BY <1>0, <1>2, <1>3, <1>4, <1>9, <2>1 DEF Clones, Single
  <2>2. CASE x # m \/ y # msg
    <3>1. <<x, y>> \in clones' <=> <<x, y>> \in clones
      BY <1>6, <2>2
    <3> QED BY <1>0, <1>2, <1>3, <1>8, <2>2, <3>1 DEF Clones, Single
  <2> QED BY <2>1, <2>2
<1>18. PublishKeepsMessage'
  BY <1>1, <1>2, Published DEF Inv
<1> QED BY <1>8, <1>10, <1>12, <1>13, <1>14, <1>15, <1>16, <1>17, <1>18 DEF Inv

LEMMA Destroys ==
  ASSUME Inv, NEW m \in Modules, NODEJS_Destroy(m)
  PROVE  Inv'
<1>0. Types /\ Whole /\ Managed /\ Loads /\ Removals /\ Begins /\ Accepted /\ Clones
  BY DEF Inv
<1>1. TypeOK
  BY <1>0 DEF Types
<1>2. /\ host = Idle /\ life[m] = "attached" /\ host' = Call("quit", m)
      /\ life' = [life EXCEPT ![m] = "leaving"]
      /\ m_callbacks' = Append(m_callbacks, Call("quit", m))
      /\ UNCHANGED <<script, starts, sent, m_modules, node, m_call_on_init,
                     running, js, clones, wire, crashed>>
  BY DEF NODEJS_Destroy, AddCallback
<1>3. /\ Call("quit", m) \in Callback /\ Call("quit", m).do = "quit"
      /\ Call("quit", m).module = m
      /\ \A x \in Modules : host # Call("load", x) /\ host' # Call("load", x)
      /\ \A x \in Modules, msg \in Messages : Call("quit", m) # Receipt(x, msg)
  BY <1>2, CallsAre
<1>4. \A x \in Modules : life'[x] = IF x = m THEN "leaving" ELSE life[x]
  BY <1>1, <1>2 DEF TypeOK
<1>5. /\ m_callbacks' \in Seq(Callback) /\ Whole'
      /\ \A x \in Modules : /\ At("load", x)' = At("load", x)
                            /\ At("start", x)' = At("start", x)
                            /\ At("receive", x)' = At("receive", x)
                            /\ x # m => At("quit", x)' = At("quit", x)
                            /\ Waiting(x)' = Waiting(x)
                            /\ \A msg \in Messages : Receipts(x, msg)' = Receipts(x, msg)
      /\ At("quit", m)' = At("quit", m) \cup {Len(m_callbacks) + 1}
  <2>1. \A x : Waiting(x)' = Waiting(x)
    BY <1>2, Stays
  <2> QED BY <1>0, <1>1, <1>2, <1>3, <2>1, Pushed
<1>6. Types'
  <2>1. life' \in [Modules -> {"unborn", "attached", "leaving", "gone", "refused"}]
    BY <1>1, <1>2 DEF TypeOK
  <2> QED BY <1>0, <1>1, <1>2, <1>3, <1>5, <2>1 DEF Types, TypeOK
<1>7. \A x \in Modules : (Fresh(x)' <=> Fresh(x)) /\ (Owed(x)' <=> Owed(x))
  BY <1>2, <1>3, <1>4, <1>5 DEF Fresh, Owed, Within, HasModule
<1>8. Managed'
  BY <1>0, <1>2, <1>3, <1>4, <1>7 DEF Managed, Within, HasModule
<1>9. Loads'
  BY <1>0, <1>2, <1>5, <1>7, LoadsStay DEF Loads, Within
<1>10. Removals'
  <2> SUFFICES ASSUME NEW x \in Modules
               PROVE  /\ Single(At("quit", x))'
                      /\ \/ At("quit", x)' # {} \/ Within("quitting", x) \/ js[x].destroyed > 0
                         => life'[x] \in {"leaving", "gone"}
                      /\ Within("quitting", x) \/ js[x].destroyed > 0 => At("quit", x)' = {}
                      /\ js[x].destroyed <= 1
    BY <1>2 DEF Removals, Within
  <2>1. CASE x = m
    <3>1. At("quit", m) = {} /\ ~Within("quitting", m) /\ ~(js[m].destroyed > 0)
      BY <1>0, <1>2 DEF Removals
    <3>2. At("quit", m)' = {Len(m_callbacks) + 1}
      BY <1>5, <3>1
    <3> QED BY <1>0, <1>4, <2>1, <3>1, <3>2 DEF Removals, Single
  <2>2. CASE x # m
    BY <1>0, <1>4, <1>5, <2>2 DEF Removals, Single
  <2> QED BY <2>1, <2>2
<1>11. Begins'
  BY <1>0, <1>1, <1>2, <1>5, <1>7, BeginsStay
<1>12. Accepted'
  BY <1>0, <1>2, <1>5, AcceptedStays DEF Within, HasModule
<1>13. Clones' /\ PublishKeepsMessage'
  BY <1>0, <1>1, <1>2, <1>5, ClonesStay, Published DEF Inv
<1> QED BY <1>5, <1>6, <1>8, <1>9, <1>10, <1>11, <1>12, <1>13 DEF Inv

LEMMA Returns ==
  ASSUME Inv, NEW m \in Modules, DestroyReturns(m)
  PROVE  Inv'
<1>0. Types /\ Whole /\ Managed /\ Loads /\ Removals /\ Begins /\ Accepted /\ Clones
  BY DEF Inv
<1>1. TypeOK
  BY <1>0 DEF Types
<1>2. /\ host = Call("quit", m) /\ host' = Idle
      /\ life' = [life EXCEPT ![m] = "gone"]
      /\ UNCHANGED <<script, starts, sent, m_modules, node, m_call_on_init, m_callbacks,
                     running, js, clones, wire, crashed>>
  BY DEF DestroyReturns
<1>3. \A x \in Modules : host # Call("load", x) /\ host' # Call("load", x)
  BY <1>2, CallsAre
<1>4. \A x \in Modules : life'[x] = IF x = m THEN "gone" ELSE life[x]
  BY <1>1, <1>2 DEF TypeOK
<1>5. /\ Whole' /\ \A do, x : At(do, x)' = At(do, x)
      /\ \A x : Waiting(x)' = Waiting(x)
      /\ \A x, msg : Receipts(x, msg)' = Receipts(x, msg)
  BY <1>0, <1>2, Unmoved, Stays
<1>6. Types'
  <2>1. life' \in [Modules -> {"unborn", "attached", "leaving", "gone", "refused"}]
    BY <1>1, <1>2 DEF TypeOK
  <2> QED BY <1>0, <1>1, <1>2, <2>1 DEF Types, TypeOK
<1>7. \A x \in Modules : (Fresh(x)' => Fresh(x)) /\ (Owed(x)' <=> Owed(x))
  BY <1>2, <1>3, <1>4, <1>5 DEF Fresh, Owed, Within, HasModule
<1>8. Managed'
  BY <1>0, <1>2, <1>3, <1>4, <1>7 DEF Managed, Within, HasModule
<1>9. Loads'
  BY <1>0, <1>2, <1>5, <1>7, LoadsStay DEF Loads, Within
<1>10. Removals'
  BY <1>0, <1>2, <1>4, <1>5, RemovalsStay DEF Within
<1>11. Begins'
  BY <1>0, <1>1, <1>2, <1>5, <1>7, BeginsStay
<1>12. Accepted'
  BY <1>0, <1>2, <1>5, AcceptedStays DEF Within, HasModule
<1>13. Clones' /\ PublishKeepsMessage'
  BY <1>0, <1>1, <1>2, <1>5, ClonesStay, Published DEF Inv
<1> QED BY <1>5, <1>6, <1>8, <1>9, <1>10, <1>11, <1>12, <1>13 DEF Inv

LEMMA Publishes ==
  ASSUME Inv, NEW m \in Modules, NEW p \in Posts, broker_publish(m, p)
  PROVE  Inv'
<1>0. Types /\ Whole /\ Managed /\ Loads /\ Removals /\ Begins /\ Accepted /\ Clones
  BY DEF Inv
<1>1. TypeOK
  BY <1>0 DEF Types
<1> DEFINE E == [by |-> m, post |-> p, properties |-> CopiedProperties(p),
                 content |-> HasContent(p) /\ CopiedContents(p)]
<1>2. /\ js[m].created > 0 /\ js[m].said = "nothing"
      /\ UNCHANGED <<script, host, life, starts, sent, m_modules, node, m_call_on_init,
                     m_callbacks, running, clones, crashed>>
  BY DEF broker_publish, gatewayVars
<1>3. \/ \E s \in {"false", "undefined"} : js' = [js EXCEPT ![m].said = s] /\ wire' = wire
      \/ js' = [js EXCEPT ![m].said = "true"] /\ wire' = wire \cup {E}
  BY DEF broker_publish, Says
<1>4. /\ E.by = m /\ E.post = p
      /\ E.content = ("content" \in p.fields /\ p.bytes)
      /\ "properties" \in p.fields => E.properties = p.properties \cap {"text", "blank"}
      /\ E \in [by : Modules, post : Posts, content : BOOLEAN,
                properties : SUBSET {"text", "blank", "number"}]
  <2>1. p \in Post
    BY ShapeAssumption
  <2>2. p.properties \subseteq {"text", "blank", "number"} /\ p.bytes \in BOOLEAN
    BY <2>1 DEF Post
  <2>3. /\ CopiedProperties(p) \subseteq {"text", "blank", "number"}
        /\ "properties" \in p.fields =>
             CopiedProperties(p) = p.properties \cap {"text", "blank"}
    BY <2>2 DEF CopiedProperties
  <2>4. (HasContent(p) /\ CopiedContents(p)) = ("content" \in p.fields /\ p.bytes)
    BY DEF HasContent, CopiedContents
  <2>5. ("content" \in p.fields /\ p.bytes) \in BOOLEAN
    OBVIOUS
  <2> QED BY <2>3, <2>4, <2>5
<1> HIDE DEF E
<1>5. /\ \A x \in Modules : /\ js'[x].created = js[x].created /\ js'[x].ok = js[x].ok
                            /\ js'[x].started = js[x].started
                            /\ js'[x].destroyed = js[x].destroyed
                            /\ js'[x].got = js[x].got
                            /\ x # m => js'[x].said = js[x].said
      /\ js' \in [Modules -> [created : Nat, ok : BOOLEAN, started : Nat, destroyed : Nat,
                              got : Seq(Messages),
                              said : {"nothing", "true", "false", "undefined"}]]
  <2>1. PICK s \in {"false", "undefined", "true"} : js' = [js EXCEPT ![m].said = s]
    BY <1>3
  <2>2. js \in [Modules -> [created : Nat, ok : BOOLEAN, started : Nat, destroyed : Nat,
                            got : Seq(Messages),
                            said : {"nothing", "true", "false", "undefined"}]]
    BY <1>1 DEF TypeOK
  <2> QED BY <2>1, <2>2
<1>6. /\ Whole' /\ \A do, x : At(do, x)' = At(do, x)
      /\ \A x : Waiting(x)' = Waiting(x)
      /\ \A x, msg : Receipts(x, msg)' = Receipts(x, msg)
  BY <1>0, <1>2, Unmoved, Stays
<1>7. Types'
  <2>1. wire' \subseteq [by : Modules, post : Posts, content : BOOLEAN,
                         properties : SUBSET {"text", "blank", "number"}]
    BY <1>1, <1>3, <1>4 DEF TypeOK
  <2> QED BY <1>0, <1>1, <1>2, <1>5, <2>1 DEF Types, TypeOK
<1>8. \A x \in Modules : (Fresh(x)' <=> Fresh(x)) /\ (Owed(x)' <=> Owed(x))
  BY <1>2, <1>6 DEF Fresh, Owed, Within, HasModule
<1>9. Managed'
  BY <1>0, <1>2, <1>8 DEF Managed, Within, HasModule
<1>10. Loads'
  BY <1>0, <1>2, <1>5, <1>6, <1>8, LoadsStay DEF Loads, Within
<1>11. Removals'
  BY <1>0, <1>2, <1>5, <1>6, RemovalsStay DEF Within
<1>12. Begins'
  BY <1>0, <1>1, <1>2, <1>5, <1>6, <1>8, BeginsStay
<1>13. Accepted'
  BY <1>0, <1>2, <1>5, <1>6, AcceptedStays DEF Within, HasModule
<1>14. Clones'
  BY <1>0, <1>2, <1>6, ClonesStay
<1>15. PublishKeepsMessage'
  <2>1. \A e \in wire : /\ e.by \in Modules /\ e.by # m
                        /\ js[e.by].said = "true" /\ js[e.by].created > 0
                        /\ e.content = ("content" \in e.post.fields /\ e.post.bytes)
                        /\ "properties" \in e.post.fields =>
                             e.properties = e.post.properties \cap {"text", "blank"}
    BY <1>1, <1>2 DEF Inv, PublishKeepsMessage, TypeOK
  <2>2. ASSUME NEW e \in wire
        PROVE  js'[e.by].said = "true" /\ js'[e.by].created > 0
    BY <1>5, <2>1
  <2>3. CASE wire' = wire
    BY <2>1, <2>2, <2>3 DEF PublishKeepsMessage
  <2>4. CASE js' = [js EXCEPT ![m].said = "true"] /\ wire' = wire \cup {E}
    <3>1. js'[E.by].said = "true" /\ js'[E.by].created > 0
      BY <1>1, <1>2, <1>4, <1>5, <2>4 DEF TypeOK
    <3> QED BY <1>4, <2>1, <2>2, <2>4, <3>1 DEF PublishKeepsMessage
  <2> QED BY <1>3, <2>3, <2>4
<1> QED BY <1>6, <1>7, <1>9, <1>10, <1>11, <1>12, <1>13, <1>14, <1>15 DEF Inv
-----------------------------------------------------------------------------
(* The Node.js thread *)

LEMMA Announces ==
  ASSUME Inv, NEW cb, Announce(cb)
  PROVE  Inv'
<1>0. Types /\ Whole /\ Managed /\ Loads /\ Removals /\ Begins /\ Accepted /\ Clones
  BY DEF Inv
<1>1. TypeOK
  BY <1>0 DEF Types
<1>2. /\ Take(cb) /\ cb.do = "announce"
      /\ node' = IF node = "booting" THEN "announced" ELSE node
      /\ UNCHANGED <<script, host, life, starts, sent, m_modules, m_call_on_init, running, js,
                     clones, wire, crashed>>
  BY DEF Announce, gatewayVars
<1>3. /\ m_callbacks' \in Seq(Callback) /\ Whole'
      /\ \A x \in Modules : /\ At("load", x)' = At("load", x) /\ At("quit", x)' = At("quit", x)
                            /\ At("start", x)' = At("start", x)
                            /\ At("receive", x)' = At("receive", x)
                            /\ Waiting(x)' = Waiting(x)
                            /\ \A msg \in Messages : Receipts(x, msg)' = Receipts(x, msg)
  <2>1. \A x : Waiting(x)' = Waiting(x)
    BY <1>2, Stays
  <2>2. \A x \in Modules, msg \in Messages : cb # Receipt(x, msg)
    BY <1>2, CallsAre
  <2>3. /\ m_callbacks' \in Seq(Callback) /\ Whole'
        /\ \A do, x : /\ At(do, x)' = At(do, x) \ {Len(m_callbacks)}
                      /\ Len(m_callbacks) \in At(do, x) => do = cb.do
        /\ \A x, msg : /\ Receipts(x, msg)' = Receipts(x, msg) \ {Len(m_callbacks)}
                       /\ Len(m_callbacks) \in Receipts(x, msg) <=> cb = Receipt(x, msg)
    BY <1>0, <1>1, <1>2, Popped
  <2> QED BY <1>2, <2>1, <2>2, <2>3
<1>4. Types'
  BY <1>0, <1>1, <1>2, <1>3 DEF Types, TypeOK
<1>5. \A x \in Modules : (Fresh(x)' <=> Fresh(x)) /\ (Owed(x)' <=> Owed(x))
  BY <1>2, <1>3 DEF Fresh, Owed, Within, HasModule
<1>6. Managed'
  BY <1>0, <1>2, <1>5 DEF Managed, Within, HasModule
<1>7. Loads'
  BY <1>0, <1>2, <1>3, <1>5, LoadsStay DEF Loads, Within
<1>8. Removals'
  BY <1>0, <1>2, <1>3, RemovalsStay DEF Within
<1>9. Begins'
  BY <1>0, <1>1, <1>2, <1>3, <1>5, BeginsStay
<1>10. Accepted'
  BY <1>0, <1>2, <1>3, AcceptedStays DEF Within, HasModule
<1>11. Clones' /\ PublishKeepsMessage'
  BY <1>0, <1>1, <1>2, <1>3, ClonesStay, Published DEF Inv
<1> QED BY <1>3, <1>4, <1>6, <1>7, <1>8, <1>9, <1>10, <1>11 DEF Inv

\* A callback that concerns a module that was removed does nothing.
LEMMA Misses ==
  ASSUME Inv, NEW cb, ModuleIsGone(cb)
  PROVE  Inv'
<1>0. Types /\ Whole /\ Managed /\ Loads /\ Removals /\ Begins /\ Accepted /\ Clones
  BY DEF Inv
<1>1. TypeOK
  BY <1>0 DEF Types
<1>2. /\ Take(cb) /\ cb.do \in {"load", "start", "quit"}
      /\ UNCHANGED <<script, host, life, starts, sent, m_modules, node, m_call_on_init,
                     running, js, clones, wire, crashed>>
  BY DEF ModuleIsGone, gatewayVars
<1>3. /\ m_callbacks' \in Seq(Callback) /\ Whole'
      /\ \A do, x : At(do, x)' \subseteq At(do, x)
      /\ \A x : Cardinality(At("start", x)') \in {Cardinality(At("start", x)),
                                                  Cardinality(At("start", x)) - 1}
      /\ \A x : Waiting(x)' = Waiting(x)
      /\ \A x \in Modules, msg \in Messages : Receipts(x, msg)' = Receipts(x, msg)
  <2>1. \A x : Waiting(x)' = Waiting(x)
    BY <1>2, Stays
  <2>2. \A x \in Modules, msg \in Messages : cb # Receipt(x, msg)
    BY <1>2, CallsAre
  <2>3. \A x : Cardinality(At("start", x)) \in Nat
    BY <1>1, AtIs
  <2>4. /\ m_callbacks' \in Seq(Callback) /\ Whole'
        /\ \A do, x : At(do, x)' = At(do, x) \ {Len(m_callbacks)}
        /\ \A x, msg : /\ Receipts(x, msg)' = Receipts(x, msg) \ {Len(m_callbacks)}
                       /\ Len(m_callbacks) \in Receipts(x, msg) <=> cb = Receipt(x, msg)
    BY <1>0, <1>1, <1>2, Popped
  <2>5. \A x : Cardinality(At("start", x)') =
                Cardinality(At("start", x))
                - (IF cb.do = "start" /\ cb.module = x THEN 1 ELSE 0)
    BY <1>0, <1>1, <1>2, Popped
  <2>6. \A x : Cardinality(At("start", x)') \in {Cardinality(At("start", x)),
                                                 Cardinality(At("start", x)) - 1}
    BY <2>3, <2>5
  <2> QED BY <2>1, <2>2, <2>4, <2>6
<1>4. Types'
  BY <1>0, <1>1, <1>2, <1>3 DEF Types, TypeOK
<1>5. \A x \in Modules : (Fresh(x)' <=> Fresh(x)) /\ (Owed(x)' => Owed(x))
  BY <1>2, <1>3 DEF Fresh, Owed, Within, HasModule
<1>6. Managed'
  BY <1>0, <1>2, <1>5 DEF Managed, Within, HasModule
<1>7. Loads'
  BY <1>0, <1>2, <1>3, <1>5, LoadsStay DEF Loads, Within
<1>8. Removals'
  BY <1>0, <1>2, <1>3, RemovalsStay DEF Within
<1>9. Begins'
  BY <1>0, <1>1, <1>2, <1>3, <1>5, BeginsStay
<1>10. Accepted'
  BY <1>0, <1>2, <1>3, AcceptedStays DEF Within, HasModule
<1>11. Clones' /\ PublishKeepsMessage'
  BY <1>0, <1>1, <1>2, <1>3, ClonesStay, Published DEF Inv
<1> QED BY <1>3, <1>4, <1>6, <1>7, <1>8, <1>9, <1>10, <1>11 DEF Inv

\* A module that is there is looked up without anything being made up.
LEMMA Found ==
  ASSUME Types, NEW m, HasModule(m)
  PROVE  /\ Fetched(m) = m_modules /\ GetModuleFromId(m) = m_modules[m]
         /\ m \in Modules /\ m_modules[m] \in Handle
<1>1. m \in DOMAIN m_modules /\ DOMAIN m_modules \cup {m} = DOMAIN m_modules
  BY DEF HasModule
<1>2. m \in Modules /\ m_modules[m] \in Handle /\ m_modules = [x \in DOMAIN m_modules |-> m_modules[x]]
  BY <1>1 DEF Types, TypeOK
<1>3. [x \in DOMAIN m_modules |-> GetModuleFromId(x)] = [x \in DOMAIN m_modules |-> m_modules[x]]
  BY DEF GetModuleFromId
<1>4. Fetched(m) = [x \in DOMAIN m_modules |-> GetModuleFromId(x)]
  BY <1>1 DEF Fetched
<1> QED BY <1>1, <1>2, <1>3, <1>4 DEF GetModuleFromId

\* Node.js is up: what waited for it is queued.
LEMMA Ready ==
  ASSUME Inv, OnNodeInitComplete
  PROVE  Inv'
<1>0. Types /\ Whole /\ Managed /\ Loads /\ Removals /\ Begins /\ Accepted /\ Clones
  BY DEF Inv
<1>1. TypeOK /\ m_callbacks \in Seq(Callback) /\ m_call_on_init \in Seq(Modules)
  BY <1>0 DEF Types, TypeOK
<1> DEFINE n == Len(m_callbacks)
           k == Len(m_call_on_init)
           L == [i \in 1..k |-> Call("load", m_call_on_init[i])]
<1>2. /\ node' = "ready" /\ m_callbacks' = m_callbacks \o L /\ m_call_on_init' = << >>
      /\ UNCHANGED <<script, host, life, starts, sent, m_modules, running, js, clones, wire,
                     crashed>>
  BY DEF OnNodeInitComplete, gatewayVars
<1>3. /\ L \in Seq(Callback) /\ Len(L) = k
      /\ \A i \in 1..k : L[i] = Call("load", m_call_on_init[i]) /\ m_call_on_init[i] \in Modules
      /\ DOMAIN m_callbacks = 1..n /\ DOMAIN m_call_on_init = 1..k /\ n \in Nat /\ k \in Nat
  BY <1>1, CallsAre
<1> HIDE DEF L
<1>4. /\ m_callbacks' \in Seq(Callback) /\ DOMAIN m_callbacks' = 1..(n + k)
      /\ \A i \in 1..n : m_callbacks'[i] = m_callbacks[i]
      /\ \A i \in (n + 1)..(n + k) : m_callbacks'[i] = Call("load", m_call_on_init[i - n])
  <2>1. /\ m_callbacks \o L \in Seq(Callback)
        /\ Len(m_callbacks \o L) = n + k
        /\ \A i \in 1..(n + k) : (m_callbacks \o L)[i] = IF i <= n THEN m_callbacks[i] ELSE L[i - n]
    <3>1. /\ m_callbacks \o L \in Seq(Callback)
          /\ Len(m_callbacks \o L) = Len(m_callbacks) + Len(L)
          /\ \A i \in 1..(Len(m_callbacks) + Len(L)) :
               (m_callbacks \o L)[i] = IF i <= Len(m_callbacks) THEN m_callbacks[i]
                                       ELSE L[i - Len(m_callbacks)]
      <4>1. m_callbacks \in Seq(Callback) /\ L \in Seq(Callback)
        BY <1>1, <1>3
      <4> HIDE DEF n, k
      <4> QED BY ONLY <4>1, ConcatProperties
    <3> QED BY <1>3, <3>1
  <2>2. \A i \in (n + 1)..(n + k) : i \in 1..(n + k) /\ ~(i <= n) /\ i - n \in 1..k
    BY <1>3
  <2>3. \A i \in 1..n : i \in 1..(n + k) /\ i <= n
    BY <1>3
  <2>4. DOMAIN (m_callbacks \o L) = 1..(n + k)
    BY <2>1
  <2> QED BY <1>2, <1>3, <2>1, <2>2, <2>3, <2>4
<1> HIDE DEF n, k
<1>5. \A i \in DOMAIN m_callbacks' : i \in 1..n \/ (i \in (n + 1)..(n + k) /\ i - n \in 1..k)
  BY <1>3, <1>4
<1>6. \A i \in (n + 1)..(n + k) :
        /\ m_callbacks'[i].do = "load" /\ m_callbacks'[i].module = m_call_on_init[i - n]
        /\ \A x \in Modules, msg \in Messages : m_callbacks'[i] # Receipt(x, msg)
  BY <1>3, <1>4, <1>5, CallsAre
<1>7. 1..n \subseteq 1..(n + k) /\ (n + 1)..(n + k) \subseteq 1..(n + k)
  BY <1>3
<1>8. /\ Whole' /\ \A do, x : do # "load" => At(do, x)' = At(do, x)
      /\ \A x \in Modules, msg \in Messages : Receipts(x, msg)' = Receipts(x, msg)
  <2>1. Whole'
    BY <1>0, <1>3, <1>4, <1>5, <1>6 DEF Whole
  <2>2. ASSUME NEW do, NEW x, do # "load" PROVE At(do, x)' = At(do, x)
    BY <1>3, <1>4, <1>5, <1>6, <1>7, <2>2 DEF At
  <2>3. \A x \in Modules, msg \in Messages : Receipts(x, msg)' = Receipts(x, msg)
    BY <1>3, <1>4, <1>5, <1>6, <1>7 DEF Receipts
  <2> QED BY <2>1, <2>2, <2>3
<1>9. \A x : Waiting(x)' = {}
  BY <1>2 DEF Waiting
<1>10. \A x : \A i \in At("load", x)' : i \in At("load", x) \/ (i - n \in Waiting(x) /\ i \in Int)
  BY <1>3, <1>4, <1>5, <1>6 DEF At, Waiting
<1>11. \A x \in Modules : /\ \A i, j \in At("load", x)' : i = j
                          /\ At("load", x) = {} /\ Waiting(x) = {} => At("load", x)' = {}
  <2> SUFFICES ASSUME NEW x \in Modules
               PROVE  /\ \A i, j \in At("load", x)' : i = j
                      /\ At("load", x) = {} /\ Waiting(x) = {} => At("load", x)' = {}
    OBVIOUS
  <2>1. /\ \A i, j \in At("load", x) : i = j
        /\ \A i, j \in Waiting(x) : i = j
        /\ At("load", x) = {} \/ Waiting(x) = {}
    BY <1>0 DEF Loads, Single
  <2>2. ASSUME NEW i \in At("load", x)', NEW j \in At("load", x)' PROVE i = j
    <3>1. CASE At("load", x) = {}
      <4>1. /\ i - n \in Waiting(x) /\ j - n \in Waiting(x) /\ i \in Int /\ j \in Int
        BY <1>10, <3>1
      <4>2. i - n = j - n
        BY <2>1, <4>1
      <4> QED BY <1>3, <4>1, <4>2
    <3>2. CASE Waiting(x) = {}
      BY <1>10, <2>1, <3>2
    <3> QED BY <2>1, <3>1, <3>2
  <2> QED BY <1>10, <2>2
<1>12. Types'
  BY <1>0, <1>1, <1>2, <1>4 DEF Types, TypeOK
<1>13. \A x \in Modules : (Fresh(x)' <=> Fresh(x)) /\ (Owed(x)' => Owed(x))
  BY <1>2, <1>9, <1>11 DEF Fresh, Owed, Within, HasModule
<1>14. Managed'
  BY <1>0, <1>2, <1>13 DEF Managed, Within, HasModule
<1>15. Loads'
  <2> SUFFICES ASSUME NEW x \in Modules
               PROVE  /\ Single(At("load", x))' /\ Single(Waiting(x))'
                      /\ At("load", x)' = {} \/ Waiting(x)' = {}
                      /\ Fresh(x)' \/ js'[x].created > 0 \/ Within("loaded", x)' =>
                           At("load", x)' = {} /\ Waiting(x)' = {}
                      /\ Fresh(x)' => js'[x].created = 0
                      /\ js'[x].created <= 1
    BY <1>2 DEF Loads
  <2>1. Within("loaded", x)' <=> Within("loaded", x)
    BY <1>2 DEF Within
  <2> QED BY <1>0, <1>2, <1>9, <1>11, <1>13, <2>1 DEF Loads, Single
<1>16. Removals'
  BY <1>0, <1>2, <1>8, RemovalsStay DEF Within
<1>17. Begins'
  BY <1>0, <1>1, <1>2, <1>8, <1>13, BeginsStay
<1>18. Accepted'
  BY <1>0, <1>2, <1>8, AcceptedStays DEF Within, HasModule
<1>19. Clones' /\ PublishKeepsMessage'
  BY <1>0, <1>1, <1>2, <1>8, ClonesStay, Published DEF Inv
<1> QED BY <1>8, <1>12, <1>14, <1>15, <1>16, <1>17, <1>18, <1>19 DEF Inv

\* The callback that is loaded is the only one of its module.
LEMMA LoadBegins ==
  ASSUME Inv, NEW cb, on_module_start(cb)
  PROVE  Inv'
<1>0. Types /\ Whole /\ Managed /\ Loads /\ Removals /\ Begins /\ Accepted /\ Clones
  BY DEF Inv
<1>1. TypeOK
  BY <1>0 DEF Types
<1> DEFINE m == cb.module
<1>2. /\ Take(cb) /\ cb.do = "load" /\ HasModule(m) /\ register_module(m)
      /\ running' = Call("loaded", m)
      /\ UNCHANGED <<script, host, life, starts, sent, node, m_call_on_init, clones, wire,
                     crashed>>
  BY DEF on_module_start, gatewayVars
<1> HIDE DEF m
<1>3. /\ m \in Modules /\ m_modules[m] \in Handle /\ Fetched(m) = m_modules
  BY <1>0, <1>2, Found
<1>4. /\ m_callbacks' \in Seq(Callback) /\ Whole' /\ running = Idle
      /\ Len(m_callbacks) \in At("load", m)
      /\ \A do, x : /\ At(do, x)' = At(do, x) \ {Len(m_callbacks)}
                    /\ Len(m_callbacks) \in At(do, x) => do = "load" /\ x = m
      /\ \A x, msg : /\ Receipts(x, msg)' = Receipts(x, msg) \ {Len(m_callbacks)}
                     /\ Len(m_callbacks) \in Receipts(x, msg) <=> cb = Receipt(x, msg)
  BY <1>0, <1>1, <1>2, Popped DEF m
<1>5. /\ ~Fresh(m) /\ js[m].created = 0 /\ Waiting(m) = {} /\ At("load", m)' = {}
  <2>1. At("load", m) # {} /\ \A i, j \in At("load", m) : i = j
    BY <1>0, <1>3, <1>4 DEF Loads, Single
  <2>2. js[m].created \in Nat
    BY <1>1, <1>3 DEF TypeOK
  <2> QED BY <1>0, <1>3, <1>4, <2>1, <2>2 DEF Loads
<1>6. /\ \A x \in Modules : /\ x # m => At("load", x)' = At("load", x)
                            /\ At("quit", x)' = At("quit", x)
                            /\ At("start", x)' = At("start", x)
                            /\ At("receive", x)' = At("receive", x)
                            /\ Waiting(x)' = Waiting(x)
      /\ \A x \in Modules, msg \in Messages : Receipts(x, msg)' = Receipts(x, msg)
  <2>1. \A x : Waiting(x)' = Waiting(x)
    BY <1>2, Stays
  <2>2. \A x \in Modules, msg \in Messages : cb # Receipt(x, msg)
    BY <1>2, CallsAre
  <2>3. ASSUME NEW do, NEW x, do # "load" \/ x # m PROVE At(do, x)' = At(do, x)
    BY <1>4, <2>3
  <2>4. \A x \in Modules, msg \in Messages : Receipts(x, msg)' = Receipts(x, msg)
    BY <1>4, <2>2
  <2> QED BY <2>1, <2>3, <2>4
<1>7. /\ DOMAIN m_modules' = DOMAIN m_modules /\ m_modules' \in [DOMAIN m_modules' -> Handle]
      /\ \A x \in DOMAIN m_modules : /\ m_modules'[x].id = m_modules[x].id
                                     /\ m_modules'[x].pending = m_modules[x].pending
                                     /\ m_modules'[x].state = m_modules[x].state
  <2>1. m_modules' = m_modules \/ m_modules' = [m_modules EXCEPT ![m].object = TRUE]
    BY <1>2, <1>3 DEF register_module
  <2>2. m_modules \in [DOMAIN m_modules -> Handle]
    BY <1>0 DEF Types
  <2>3. CASE m_modules' = m_modules
    BY <2>2, <2>3
  <2>4. CASE m_modules' = [m_modules EXCEPT ![m].object = TRUE]
    <3>1. m \in DOMAIN m_modules
      BY <1>2 DEF HasModule
    <3> QED BY <2>2, <2>4, <3>1 DEF Handle
  <2> QED BY <2>1, <2>3, <2>4
<1>8. /\ js' \in [Modules -> [created : Nat, ok : BOOLEAN, started : Nat, destroyed : Nat,
                              got : Seq(Messages),
                              said : {"nothing", "true", "false", "undefined"}]]
      /\ \A x \in Modules : /\ x # m => js'[x] = js[x]
                            /\ js'[x].started = js[x].started /\ js'[x].said = js[x].said
                            /\ js'[x].destroyed = js[x].destroyed /\ js'[x].got = js[x].got
      /\ js'[m].created \in {0, 1}
      /\ \/ js'[m].ok = js[m].ok /\ ~Registers(script[m])
         \/ js'[m].ok = Registers(script[m])
  <2>1. js \in [Modules -> [created : Nat, ok : BOOLEAN, started : Nat, destroyed : Nat,
                            got : Seq(Messages),
                            said : {"nothing", "true", "false", "undefined"}]]
    BY <1>1 DEF TypeOK
  <2>2. CASE ValidGateway(script[m])
    <3> DEFINE r == Registers(script[m])
    <3>1. js' = [js EXCEPT ![m].created = @ + 1, ![m].ok = r] /\ r \in BOOLEAN
      BY <1>2, <2>2 DEF register_module, Registers
    <3> HIDE DEF r
    <3>2. js[m].created = 0
      BY <1>5
    <3>3. /\ js' \in [Modules -> [created : Nat, ok : BOOLEAN, started : Nat, destroyed : Nat,
                              got : Seq(Messages),
                              said : {"nothing", "true", "false", "undefined"}]]
          /\ \A x \in Modules : /\ x # m => js'[x] = js[x]
                                /\ js'[x].started = js[x].started /\ js'[x].said = js[x].said
                                /\ js'[x].destroyed = js[x].destroyed /\ js'[x].got = js[x].got
          /\ js'[m].created = 1 /\ js'[m].ok = r
      <4> DEFINE o == js[m]
                 p == js'[m]
      <4>1. /\ \A x \in Modules : x # m => js'[x] = js[x]
            /\ js' = [x \in Modules |-> js'[x]]
            /\ p = [[o EXCEPT !.created = @ + 1] EXCEPT !.ok = r]
        BY <1>3, <2>1, <3>1
      <4>2. /\ o \in [created : Nat, ok : BOOLEAN, started : Nat, destroyed : Nat,
                      got : Seq(Messages),
                      said : {"nothing", "true", "false", "undefined"}]
            /\ o.created = 0
        BY <1>3, <2>1, <3>2
      <4> HIDE DEF o, p
      <4>3. /\ p \in [created : Nat, ok : BOOLEAN, started : Nat, destroyed : Nat,
                      got : Seq(Messages),
                      said : {"nothing", "true", "false", "undefined"}]
            /\ p.created = 1 /\ p.ok = r /\ p.started = o.started /\ p.said = o.said
            /\ p.destroyed = o.destroyed /\ p.got = o.got
        <5> DEFINE q == [o EXCEPT !.created = @ + 1]
        <5>1. /\ q \in [created : Nat, ok : BOOLEAN, started : Nat, destroyed : Nat,
                        got : Seq(Messages),
                        said : {"nothing", "true", "false", "undefined"}]
              /\ q.created = 1 /\ q.started = o.started /\ q.said = o.said
              /\ q.destroyed = o.destroyed /\ q.got = o.got
          BY <4>2
        <5>2. p = [q EXCEPT !.ok = r] /\ r \in BOOLEAN
          BY <3>1, <4>1
        <5> HIDE DEF q
        <5> QED BY <5>1, <5>2
      <4>4. \A x \in Modules :
              js'[x] \in [created : Nat, ok : BOOLEAN, started : Nat, destroyed : Nat,
                         got : Seq(Messages),
                         said : {"nothing", "true", "false", "undefined"}]
        BY <2>1, <4>1, <4>3 DEF p
      <4> QED BY <4>1, <4>3, <4>4 DEF o, p
    <3> QED BY <3>3 DEF r
  <2>3. CASE ~ValidGateway(script[m])
    <3>1. js' = js /\ ~Registers(script[m])
      BY <1>2, <2>3 DEF register_module, Registers
    <3> QED BY <1>5, <2>1, <3>1
  <2> QED BY <2>2, <2>3
<1>9. \A x \in Modules : js[x].ok => js'[x].ok
  BY <1>0, <1>8 DEF Accepted
<1>10. /\ \A x \in Modules : /\ Within("loaded", x)' <=> x = m
                             /\ ~Within("loaded", x) /\ ~Within("quitting", x)'
       /\ running' \in Callback /\ running'.module \in Modules
  BY <1>2, <1>3, <1>4, CallsAre DEF Within, Idle
<1>11. Types'
  <2>1. DOMAIN m_modules' \subseteq Modules /\ \A x \in DOMAIN m_modules' : m_modules'[x] \in Handle
    BY <1>1, <1>7 DEF TypeOK
  <2> QED BY <1>1, <1>2, <1>4, <1>7, <1>8, <1>10, <2>1 DEF Types, TypeOK
<1>12. \A x \in Modules : (Fresh(x)' <=> Fresh(x)) /\ (Owed(x)' => Owed(x))
  <2>1. At("load", m) # {}
    BY <1>4
  <2> QED BY <1>2, <1>6, <1>7, <1>10, <2>1 DEF Fresh, Owed, HasModule
<1>13. Managed'
  BY <1>0, <1>2, <1>7, <1>10, <1>12 DEF Managed, HasModule
<1>14. Loads'
  <2> SUFFICES ASSUME NEW x \in Modules
               PROVE  /\ Single(At("load", x))' /\ Single(Waiting(x))'
                      /\ At("load", x)' = {} \/ Waiting(x)' = {}
                      /\ Fresh(x)' \/ js'[x].created > 0 \/ Within("loaded", x)' =>
                           At("load", x)' = {} /\ Waiting(x)' = {}
                      /\ Fresh(x)' => js'[x].created = 0
                      /\ js'[x].created <= 1
    BY <1>0, <1>2 DEF Loads
  <2>1. CASE x = m
    BY <1>5, <1>6, <1>8, <1>12, <2>1 DEF Single
  <2>2. CASE x # m
    BY <1>0, <1>6, <1>8, <1>10, <1>12, <2>2 DEF Loads, Single
  <2> QED BY <2>1, <2>2
<1>15. Removals'
  BY <1>0, <1>2, <1>6, <1>8, <1>10, RemovalsStay
<1>16. Begins'
  BY <1>0, <1>1, <1>2, <1>6, <1>8, <1>12, BeginsStay
<1>17. Accepted'
  <2> SUFFICES ASSUME NEW x \in Modules
               PROVE  /\ js'[x].ok => Registers(script[x])
                      /\ HasModule(x)' /\ m_modules'[x].state = "initialized" => js'[x].ok
                      /\ Within("loaded", x)' /\ Registers(script[x]) => js'[x].ok
                      /\ At("receive", x)' # {} => js'[x].ok
                      /\ js'[x].started + js'[x].destroyed + Len(js'[x].got) > 0 => js'[x].ok
    BY <1>2 DEF Accepted
  <2>1. js'[x].ok => Registers(script[x])
    BY <1>0, <1>8 DEF Accepted
  <2>2. HasModule(x)' /\ m_modules'[x].state = "initialized" => js'[x].ok
    BY <1>0, <1>7, <1>9 DEF Accepted, HasModule
  <2>3. Within("loaded", x)' /\ Registers(script[x]) => js'[x].ok
    BY <1>8, <1>10
  <2>4. At("receive", x)' # {} => js'[x].ok
    BY <1>0, <1>6, <1>9 DEF Accepted
  <2>5. js'[x].started + js'[x].destroyed + Len(js'[x].got) > 0 => js'[x].ok
    BY <1>0, <1>8, <1>9 DEF Accepted
  <2> QED BY <2>1, <2>2, <2>3, <2>4, <2>5
<1>18. Clones'
  BY <1>0, <1>2, <1>6, ClonesStay
<1>19. PublishKeepsMessage'
  <2>1. \A x \in Modules : js[x].created > 0 => js'[x].created > 0
    <3>1. ASSUME NEW x \in Modules, js[x].created > 0 PROVE js'[x].created > 0
      <4>1. x # m
        BY <1>5, <3>1
      <4> QED BY <1>8, <3>1, <4>1
    <3> QED BY <3>1
  <2> QED BY <1>1, <1>2, <1>8, <2>1, Published DEF Inv
<1> QED BY <1>4, <1>11, <1>13, <1>14, <1>15, <1>16, <1>17, <1>18, <1>19 DEF Inv

LEMMA LoadEnds ==
  ASSUME Inv, NEW cb, ModuleStarted(cb)
  PROVE  Inv'
<1>0. Types /\ Whole /\ Managed /\ Loads /\ Removals /\ Begins /\ Accepted /\ Clones
  BY DEF Inv
<1>1. TypeOK
  BY <1>0 DEF Types
<1> DEFINE m == cb.module
           ok == Registers(script[m])
           pending == m_modules[m].pending
<1>2. /\ cb = running /\ cb.do = "loaded" /\ running' = Idle
      /\ m_modules' = [m_modules EXCEPT ![m].state = IF ok THEN "initialized" ELSE "error"]
      /\ \/ ok /\ pending /\ m_callbacks' = Append(m_callbacks, Call("start", m))
         \/ ~(ok /\ pending) /\ m_callbacks' = m_callbacks
      /\ UNCHANGED <<script, host, life, starts, sent, node, m_call_on_init, js, clones, wire,
                     crashed>>
  BY DEF ModuleStarted, gatewayVars, AddCallback
<1> HIDE DEF m, ok
<1>3. m \in Modules /\ Within("loaded", m) /\ HasModule(m)
  BY <1>0, <1>2 DEF Managed, Within, m
<1>4. /\ DOMAIN m_modules' = DOMAIN m_modules /\ m_modules' \in [DOMAIN m_modules' -> Handle]
      /\ m_modules'[m].state = "initialized" => ok
      /\ \A x \in DOMAIN m_modules : /\ m_modules'[x].id = m_modules[x].id
                                     /\ m_modules'[x].pending = m_modules[x].pending
                                     /\ x # m => m_modules'[x] = m_modules[x]
  <2>1. PICK s \in {"initialized", "error"} : /\ m_modules' = [m_modules EXCEPT ![m].state = s]
                                              /\ s = "initialized" => ok
    BY <1>2
  <2>2. m_modules \in [DOMAIN m_modules -> Handle] /\ m \in DOMAIN m_modules
    BY <1>0, <1>3 DEF Types, HasModule
  <2> QED BY <2>1, <2>2 DEF Handle
<1>5. /\ m_callbacks' \in Seq(Callback) /\ Whole'
      /\ \A x \in Modules : /\ At("load", x)' = At("load", x) /\ At("quit", x)' = At("quit", x)
                            /\ At("receive", x)' = At("receive", x)
                            /\ Waiting(x)' = Waiting(x)
                            /\ \A msg \in Messages : Receipts(x, msg)' = Receipts(x, msg)
      /\ \A x \in Modules :
           Cardinality(At("start", x)') =
             Cardinality(At("start", x)) + (IF x = m /\ ok /\ pending THEN 1 ELSE 0)
  <2>1. /\ Call("start", m) \in Callback /\ Call("start", m).do = "start"
        /\ Call("start", m).module = m
        /\ \A x \in Modules, msg \in Messages : Call("start", m) # Receipt(x, msg)
    BY <1>3, CallsAre
  <2>2. \A x : Waiting(x)' = Waiting(x)
    BY <1>2, Stays
  <2>3. CASE ok /\ pending /\ m_callbacks' = Append(m_callbacks, Call("start", m))
    BY <1>0, <1>1, <2>1, <2>2, <2>3, Pushed
  <2>4. CASE ~(ok /\ pending) /\ m_callbacks' = m_callbacks
    <3>1. \A x : Cardinality(At("start", x)) \in Nat
      BY <1>1, AtIs
    <3> QED BY <1>0, <1>1, <2>2, <2>4, <3>1, Unmoved DEF TypeOK
  <2> QED BY <1>2, <2>3, <2>4
<1>6. Types'
  <2>1. DOMAIN m_modules' \subseteq Modules /\ \A x \in DOMAIN m_modules' : m_modules'[x] \in Handle
    BY <1>1, <1>4 DEF TypeOK
  <2> QED BY <1>1, <1>2, <1>4, <1>5, <2>1 DEF Types, TypeOK
<1>7. \A x \in Modules : /\ ~Within("loaded", x)' /\ ~Within("quitting", x)'
                         /\ Fresh(x)' <=> Fresh(x)
                         /\ HasModule(x)' <=> HasModule(x)
  BY <1>2, <1>4 DEF Within, Idle, Fresh, HasModule
<1>8. /\ \A x \in Modules : Owed(x)' => Owed(x)
      /\ ~Owed(m)'
  <2>1. At("load", m)' = {} /\ Waiting(m)' = {}
    BY <1>0, <1>3, <1>5 DEF Loads
  <2>2. \A x \in Modules : Owed(x)' => Owed(x)
    BY <1>4, <1>5, <1>7 DEF Owed, HasModule
  <2> QED BY <1>3, <1>7, <2>1, <2>2 DEF Owed
<1>9. Managed'
  <2>1. running'.do = "idle"
    BY <1>2 DEF Idle
  <2> QED BY <1>0, <1>2, <1>4, <1>7, <2>1 DEF Managed, HasModule
<1>10. Loads'
  BY <1>0, <1>2, <1>5, <1>7, LoadsStay DEF Loads
<1>11. Removals'
  BY <1>0, <1>2, <1>5, <1>7, RemovalsStay
<1>12. Begins'
  <2> SUFFICES ASSUME NEW x \in Modules
               PROVE  js'[x].started + Cardinality(At("start", x)')
                      + (IF Owed(x)' THEN 1 ELSE 0) <= starts'[x]
    BY DEF Begins
  <2>1. js[x].started \in Nat /\ starts[x] \in Int /\ Cardinality(At("start", x)) \in Nat
    <3>1. js[x].started \in Nat /\ starts[x] \in Int
      BY <1>1, BoundAssumption DEF TypeOK
    <3> QED BY <1>1, <3>1, AtIs
  <2>2. js[x].started + Cardinality(At("start", x)) + (IF Owed(x) THEN 1 ELSE 0) <= starts[x]
    BY <1>0 DEF Begins
  <2>3. x = m /\ ok /\ pending => Owed(x) /\ ~Owed(x)'
    BY <1>3, <1>8 DEF Owed
  <2> DEFINE c == Cardinality(At("start", x))
             s == js[x].started
             t == starts[x]
  <2>4. /\ c \in Nat /\ s \in Nat /\ t \in Int /\ s + c + (IF Owed(x) THEN 1 ELSE 0) <= t
        /\ Cardinality(At("start", x)') = c + (IF x = m /\ ok /\ pending THEN 1 ELSE 0)
        /\ js'[x].started = s /\ starts'[x] = t /\ (Owed(x)' => Owed(x))
    BY <1>2, <1>5, <1>8, <2>1, <2>2
  <2> HIDE DEF c, s, t, pending
  <2> QED BY <2>3, <2>4
<1>13. Accepted'
  <2> SUFFICES ASSUME NEW x \in Modules
               PROVE  HasModule(x)' /\ m_modules'[x].state = "initialized" => js[x].ok
    BY <1>0, <1>2, <1>5, <1>7 DEF Accepted
  <2>1. CASE x = m
    BY <1>0, <1>3, <1>4, <2>1 DEF Accepted, ok
  <2>2. CASE x # m
    BY <1>0, <1>4, <1>7, <2>2 DEF Accepted, HasModule
  <2> QED BY <2>1, <2>2
<1>14. Clones' /\ PublishKeepsMessage'
  BY <1>0, <1>1, <1>2, <1>5, ClonesStay, Published DEF Inv
<1> QED BY <1>5, <1>6, <1>9, <1>10, <1>11, <1>12, <1>13, <1>14 DEF Inv

\* A start is taken: it comes too early and is remembered, or in time, or in vain.
LEMMA StartRuns ==
  ASSUME Inv, NEW cb, on_start_callback(cb)
  PROVE  Inv'
<1>0. Types /\ Whole /\ Managed /\ Loads /\ Removals /\ Begins /\ Accepted /\ Clones
  BY DEF Inv
<1>1. TypeOK
  BY <1>0 DEF Types
<1> DEFINE m == cb.module
           early == m_modules[m].state = "initializing"
           ready == m_modules[m].state = "initialized"
<1>2. /\ Take(cb) /\ cb.do = "start" /\ HasModule(m)
      /\ UNCHANGED <<script, host, life, starts, sent, node, m_call_on_init, running, clones,
                     wire, crashed>>
  BY DEF on_start_callback, gatewayVars
<1>3. /\ m \in Modules /\ m_modules[m] \in Handle /\ Fetched(m) = m_modules
      /\ GetModuleFromId(m) = m_modules[m]
  BY <1>0, <1>2, Found
<1>4. /\ \/ early /\ m_modules' = [m_modules EXCEPT ![m].pending = TRUE]
         \/ ready /\ m_modules' = [m_modules EXCEPT ![m].pending = FALSE]
         \/ ~early /\ ~ready /\ m_modules' = [m_modules EXCEPT ![m].pending = @]
      /\ js' = js \/ (ready /\ js' = [js EXCEPT ![m].started = @ + 1])
  BY <1>3 DEF on_start_callback
<1> HIDE DEF m
<1>5. /\ m_callbacks' \in Seq(Callback) /\ Whole'
      /\ \A do, x : /\ At(do, x)' = At(do, x) \ {Len(m_callbacks)}
                    /\ Len(m_callbacks) \in At(do, x) => do = "start" /\ x = m
      /\ \A x, msg : /\ Receipts(x, msg)' = Receipts(x, msg) \ {Len(m_callbacks)}
                     /\ Len(m_callbacks) \in Receipts(x, msg) <=> cb = Receipt(x, msg)
      /\ \A x : Cardinality(At("start", x)') =
                  Cardinality(At("start", x)) - (IF x = m THEN 1 ELSE 0)
  <2>1. /\ m_callbacks' \in Seq(Callback) /\ Whole'
        /\ \A do, x : /\ At(do, x)' = At(do, x) \ {Len(m_callbacks)}
                      /\ Len(m_callbacks) \in At(do, x) => do = cb.do /\ x = cb.module
        /\ \A x, msg : /\ Receipts(x, msg)' = Receipts(x, msg) \ {Len(m_callbacks)}
                       /\ Len(m_callbacks) \in Receipts(x, msg) <=> cb = Receipt(x, msg)
    BY <1>0, <1>1, <1>2, Popped
  <2>2. \A x : Cardinality(At("start", x)') =
                 Cardinality(At("start", x))
                 - (IF cb.do = "start" /\ cb.module = x THEN 1 ELSE 0)
    BY <1>0, <1>1, <1>2, Popped
  <2>3. cb.do = "start" /\ cb.module = m
    BY <1>2 DEF m
  <2> QED BY <2>1, <2>2, <2>3
<1>6. /\ \A x : /\ At("load", x)' = At("load", x) /\ At("quit", x)' = At("quit", x)
                /\ At("receive", x)' = At("receive", x) /\ Waiting(x)' = Waiting(x)
      /\ \A x \in Modules, msg \in Messages : Receipts(x, msg)' = Receipts(x, msg)
  <2>1. \A x : Waiting(x)' = Waiting(x)
    BY <1>2, Stays
  <2>2. \A x \in Modules, msg \in Messages : cb # Receipt(x, msg)
    BY <1>2, CallsAre
  <2>3. ASSUME NEW do, NEW x, do # "start" PROVE At(do, x)' = At(do, x)
    BY <1>5, <2>3
  <2>4. \A x \in Modules, msg \in Messages : Receipts(x, msg)' = Receipts(x, msg)
    BY <1>5, <2>2
  <2> QED BY <2>1, <2>3, <2>4
<1>7. /\ DOMAIN m_modules' = DOMAIN m_modules /\ m_modules' \in [DOMAIN m_modules' -> Handle]
      /\ \A x \in DOMAIN m_modules : /\ m_modules'[x].id = m_modules[x].id
                                     /\ m_modules'[x].state = m_modules[x].state
                                     /\ x # m => m_modules'[x] = m_modules[x]
      /\ ready => ~m_modules'[m].pending
      /\ ~early /\ ~ready => m_modules'[m].pending = m_modules[m].pending
  <2>1. PICK p \in BOOLEAN : /\ m_modules' = [m_modules EXCEPT ![m].pending = p]
                             /\ ready => ~p
                             /\ ~early /\ ~ready => p = m_modules[m].pending
    <3>1. m_modules[m].pending \in BOOLEAN
      BY <1>3 DEF Handle
    <3> HIDE DEF early, ready
    <3>2. CASE early /\ m_modules' = [m_modules EXCEPT ![m].pending = TRUE]
      BY <1>4, <3>2 DEF early, ready
    <3>3. CASE ready /\ m_modules' = [m_modules EXCEPT ![m].pending = FALSE]
      BY <3>3
    <3>4. CASE ~early /\ ~ready /\ m_modules' = [m_modules EXCEPT ![m].pending = @]
      BY <3>1, <3>4
    <3> QED BY <1>4, <3>2, <3>3, <3>4 DEF early, ready
  <2>2. m_modules \in [DOMAIN m_modules -> Handle] /\ m \in DOMAIN m_modules
    BY <1>0, <1>2 DEF Types, HasModule
  <2>3. /\ DOMAIN m_modules' = DOMAIN m_modules /\ m_modules' \in [DOMAIN m_modules' -> Handle]
        /\ \A x \in DOMAIN m_modules : /\ m_modules'[x].id = m_modules[x].id
                                       /\ m_modules'[x].state = m_modules[x].state
                                       /\ x # m => m_modules'[x] = m_modules[x]
        /\ m_modules'[m].pending = p
    BY <2>1, <2>2 DEF Handle
  <2> QED BY <2>1, <2>3
<1>8. /\ js' \in [Modules -> [created : Nat, ok : BOOLEAN, started : Nat, destroyed : Nat,
                              got : Seq(Messages),
                              said : {"nothing", "true", "false", "undefined"}]]
      /\ \A x \in Modules : /\ x # m => js'[x] = js[x]
                            /\ js'[x].created = js[x].created /\ js'[x].said = js[x].said
                            /\ js'[x].destroyed = js[x].destroyed /\ js'[x].got = js[x].got
                            /\ js'[x].ok = js[x].ok
      /\ \/ js'[m].started = js[m].started
         \/ js'[m].started = js[m].started + 1 /\ ready
  <2>1. js \in [Modules -> [created : Nat, ok : BOOLEAN, started : Nat, destroyed : Nat,
                            got : Seq(Messages),
                            said : {"nothing", "true", "false", "undefined"}]]
    BY <1>1 DEF TypeOK
  <2> HIDE DEF ready
  <2>2. CASE js' = js
    BY <2>1, <2>2
  <2>3. CASE ready /\ js' = [js EXCEPT ![m].started = @ + 1]
    <3> DEFINE k == js[m].started + 1
    <3>1. k \in Nat /\ js' = [js EXCEPT ![m].started = k]
      BY <1>3, <2>1, <2>3
    <3> HIDE DEF k
    <3>2. /\ js' \in [Modules -> [created : Nat, ok : BOOLEAN, started : Nat, destroyed : Nat,
                                  got : Seq(Messages),
                                  said : {"nothing", "true", "false", "undefined"}]]
          /\ \A x \in Modules : /\ x # m => js'[x] = js[x]
                                /\ js'[x].created = js[x].created /\ js'[x].said = js[x].said
                                /\ js'[x].destroyed = js[x].destroyed
                                /\ js'[x].got = js[x].got /\ js'[x].ok = js[x].ok
          /\ js'[m].started = k
      BY <1>3, <2>1, <3>1
    <3> QED BY <2>3, <3>2 DEF k
  <2> QED BY <1>4, <2>2, <2>3 DEF ready
<1> HIDE DEF early, ready
<1>9. Types'
  <2>1. DOMAIN m_modules' \subseteq Modules /\ \A x \in DOMAIN m_modules' : m_modules'[x] \in Handle
    BY <1>1, <1>7 DEF TypeOK
  <2> QED BY <1>1, <1>2, <1>5, <1>7, <1>8, <2>1 DEF Types, TypeOK
<1>10. /\ \A x \in Modules : /\ Fresh(x)' <=> Fresh(x)
                             /\ Within("loaded", x)' <=> Within("loaded", x)
                             /\ Within("quitting", x)' <=> Within("quitting", x)
       /\ \A x \in Modules : x # m => (Owed(x)' <=> Owed(x))
       /\ ready => ~Owed(m)'
       /\ ~early /\ ~ready => (Owed(m)' <=> Owed(m))
  <2>1. \A x \in Modules : /\ Fresh(x)' <=> Fresh(x)
                           /\ Within("loaded", x)' <=> Within("loaded", x)
                           /\ Within("quitting", x)' <=> Within("quitting", x)
    BY <1>2 DEF Fresh, Within
  <2>2. m \in DOMAIN m_modules
    BY <1>2 DEF HasModule
  <2>3. ASSUME NEW x \in Modules, x # m PROVE Owed(x)' <=> Owed(x)
    BY <1>6, <1>7, <2>1, <2>3 DEF Owed, HasModule
  <2>4. ready => ~Owed(m)'
    BY <1>7 DEF Owed
  <2>5. ~early /\ ~ready => (Owed(m)' <=> Owed(m))
    BY <1>3, <1>6, <1>7, <2>1 DEF Owed, HasModule
  <2> QED BY <2>1, <2>3, <2>4, <2>5
<1>11. Managed'
  BY <1>0, <1>2, <1>7, <1>10 DEF Managed, HasModule
<1>12. Loads'
  <2>1. node' = "ready" => m_call_on_init' = << >>
    BY <1>0, <1>2 DEF Loads
  <2>2. ASSUME NEW x \in Modules
        PROVE  /\ At("load", x)' \subseteq At("load", x) /\ Waiting(x)' = Waiting(x)
               /\ Fresh(x)' => Fresh(x)
               /\ Within("loaded", x)' => Within("loaded", x)
               /\ js'[x].created = js[x].created
    BY <1>6, <1>8, <1>10
  <2> QED BY <1>0, <2>1, <2>2, LoadsStay
<1>13. Removals'
  BY <1>0, <1>2, <1>6, <1>8, <1>10, RemovalsStay
<1>14. Begins'
  <2> SUFFICES ASSUME NEW x \in Modules
               PROVE  js'[x].started + Cardinality(At("start", x)')
                      + (IF Owed(x)' THEN 1 ELSE 0) <= starts'[x]
    BY DEF Begins
  <2>1. js[x].started \in Nat /\ starts[x] \in Int /\ Cardinality(At("start", x)) \in Nat
    <3>1. js[x].started \in Nat /\ starts[x] \in Int
      BY <1>1, BoundAssumption DEF TypeOK
    <3> QED BY <1>1, <3>1, AtIs
  <2>2. js[x].started + Cardinality(At("start", x)) + (IF Owed(x) THEN 1 ELSE 0) <= starts[x]
    BY <1>0 DEF Begins
  <2> DEFINE c == Cardinality(At("start", x))
             s == js[x].started
             t == starts[x]
  <2>3. /\ c \in Nat /\ s \in Nat /\ t \in Int /\ s + c + (IF Owed(x) THEN 1 ELSE 0) <= t
        /\ Cardinality(At("start", x)') = c - (IF x = m THEN 1 ELSE 0) /\ starts'[x] = t
    BY <1>2, <1>5, <2>1, <2>2
  <2>4. x # m => js'[x].started = s /\ (Owed(x)' <=> Owed(x))
    BY <1>8, <1>10
  <2>5. x = m => /\ js'[x].started = s \/ (js'[x].started = s + 1 /\ ready)
                 /\ ready => ~Owed(x)'
                 /\ ~early /\ ~ready => (Owed(x)' <=> Owed(x))
    BY <1>8, <1>10
  <2> HIDE DEF c, s, t
  <2>6. CASE x # m
    BY <2>3, <2>4, <2>6
  <2>7. CASE x = m
    <3>1. early => ~ready
      BY DEF early, ready
    <3> QED BY <2>3, <2>5, <2>7, <3>1
  <2> QED BY <2>6, <2>7
<1>15. Accepted'
  <2> SUFFICES ASSUME NEW x \in Modules
               PROVE  /\ HasModule(x)' /\ m_modules'[x].state = "initialized" => js[x].ok
                      /\ js'[x].started + js'[x].destroyed + Len(js'[x].got) > 0 => js[x].ok
    BY <1>0, <1>2, <1>6, <1>8, <1>10 DEF Accepted
  <2>1. HasModule(x)' /\ m_modules'[x].state = "initialized" => js[x].ok
    BY <1>0, <1>7 DEF Accepted, HasModule
  <2>2. \/ js'[x].started = js[x].started
        \/ x = m /\ ready
    BY <1>8
  <2>3. x = m /\ ready => js[x].ok
    BY <1>0, <1>2, <1>3 DEF Accepted, ready
  <2>4. js'[x].started + js'[x].destroyed + Len(js'[x].got) > 0 => js[x].ok
    BY <1>0, <1>8, <2>2, <2>3 DEF Accepted
  <2> QED BY <2>1, <2>4
<1>16. Clones' /\ PublishKeepsMessage'
  BY <1>0, <1>1, <1>2, <1>6, <1>8, ClonesStay, Published DEF Inv
<1> QED BY <1>5, <1>9, <1>11, <1>12, <1>13, <1>14, <1>15, <1>16 DEF Inv

\* A message reaches the object, or its handle is gone.
LEMMA Gets ==
  ASSUME Inv, ~crashed, NEW cb, on_run_receive_message(cb)
  PROVE  Inv'
<1>0. Types /\ Whole /\ Managed /\ Loads /\ Removals /\ Begins /\ Accepted /\ Clones
  BY DEF Inv
<1>1. TypeOK
  BY <1>0 DEF Types
<1> DEFINE m == cb.module
           msg == cb.message
<1>2. /\ Take(cb) /\ cb.do = "receive"
      /\ UNCHANGED <<script, host, life, starts, sent, m_modules, node, m_call_on_init, running,
                     wire>>
      /\ \/ crashed' = TRUE /\ js' = js /\ clones' = clones
         \/ /\ js' = js \/ js' = [js EXCEPT ![m].got = Append(@, msg)]
            /\ clones' = clones \ {<<m, msg>>} /\ crashed' = crashed
  BY DEF on_run_receive_message, gatewayVars
<1> HIDE DEF m, msg
<1>3. /\ m_callbacks' \in Seq(Callback) /\ Whole' /\ m \in Modules /\ msg \in Messages
      /\ cb \in Callback /\ Len(m_callbacks) \in At("receive", m)
      /\ \A do, x : /\ At(do, x)' = At(do, x) \ {Len(m_callbacks)}
                    /\ Len(m_callbacks) \in At(do, x) => do = "receive" /\ x = m
      /\ \A x, y : /\ Receipts(x, y)' = Receipts(x, y) \ {Len(m_callbacks)}
                   /\ Len(m_callbacks) \in Receipts(x, y) <=> cb = Receipt(x, y)
  BY <1>0, <1>1, <1>2, Popped DEF m, msg
<1>4. \A x \in Modules, y \in Messages : cb = Receipt(x, y) <=> x = m /\ y = msg
  BY <1>2, <1>3, CallsAre DEF m, msg
<1>5. /\ \A do, x : do # "receive" => At(do, x)' = At(do, x)
      /\ \A do, x : At(do, x)' \subseteq At(do, x)
      /\ \A x : Waiting(x)' = Waiting(x)
      /\ \A x \in Modules, y \in Messages :
           ~(x = m /\ y = msg) => Receipts(x, y)' = Receipts(x, y)
      /\ Len(m_callbacks) \in Receipts(m, msg)
      /\ Receipts(m, msg)' = Receipts(m, msg) \ {Len(m_callbacks)}
  <2>1. \A x : Waiting(x)' = Waiting(x)
    BY <1>2, Stays
  <2>2. ASSUME NEW do, NEW x, do # "receive" PROVE At(do, x)' = At(do, x)
    BY <1>3, <2>2
  <2>3. \A do, x : At(do, x)' \subseteq At(do, x)
    BY <1>3
  <2>4. \A x \in Modules, y \in Messages :
          ~(x = m /\ y = msg) => Receipts(x, y)' = Receipts(x, y)
    BY <1>3, <1>4
  <2>5. /\ Len(m_callbacks) \in Receipts(m, msg)
        /\ Receipts(m, msg)' = Receipts(m, msg) \ {Len(m_callbacks)}
    BY <1>3, <1>4
  <2> QED BY <2>1, <2>2, <2>3, <2>4, <2>5
<1>6. /\ js' \in [Modules -> [created : Nat, ok : BOOLEAN, started : Nat, destroyed : Nat,
                              got : Seq(Messages),
                              said : {"nothing", "true", "false", "undefined"}]]
      /\ \A x \in Modules : /\ x # m => js'[x] = js[x]
                            /\ js'[x].created = js[x].created /\ js'[x].said = js[x].said
                            /\ js'[x].destroyed = js[x].destroyed
                            /\ js'[x].started = js[x].started /\ js'[x].ok = js[x].ok
  <2>1. js \in [Modules -> [created : Nat, ok : BOOLEAN, started : Nat, destroyed : Nat,
                            got : Seq(Messages),
                            said : {"nothing", "true", "false", "undefined"}]]
    BY <1>1 DEF TypeOK
  <2>2. Append(js[m].got, msg) \in Seq(Messages)
    BY <1>3, <2>1
  <2>3. CASE js' = js
    BY <2>1, <2>3
  <2>4. CASE js' = [js EXCEPT ![m].got = Append(@, msg)]
    <3> DEFINE g == Append(js[m].got, msg)
    <3>1. js' = [js EXCEPT ![m].got = g] /\ g \in Seq(Messages)
      BY <2>2, <2>4
    <3> HIDE DEF g
    <3> QED BY <1>3, <2>1, <3>1
  <2> QED BY <1>2, <2>3, <2>4
<1>7. Types'
  <2>1. clones' \subseteq Modules \X Messages /\ crashed' \in BOOLEAN
    BY <1>1, <1>2 DEF TypeOK
  <2> QED BY <1>0, <1>1, <1>2, <1>3, <1>6, <2>1 DEF Types, TypeOK
<1>8. \A x \in Modules : (Fresh(x)' <=> Fresh(x)) /\ (Owed(x)' <=> Owed(x))
  BY <1>2, <1>5 DEF Fresh, Owed, Within, HasModule
<1>9. Managed'
  BY <1>0, <1>2, <1>8 DEF Managed, Within, HasModule
<1>10. Loads'
  BY <1>0, <1>2, <1>5, <1>6, <1>8, LoadsStay DEF Loads, Within
<1>11. Removals'
  BY <1>0, <1>2, <1>5, <1>6, RemovalsStay DEF Within
<1>12. Begins'
  BY <1>0, <1>1, <1>2, <1>5, <1>6, <1>8, BeginsStay
<1>13. Accepted'
  <2> SUFFICES ASSUME NEW x \in Modules
               PROVE  /\ At("receive", x)' # {} => js[x].ok
                      /\ js[x].started + js[x].destroyed + Len(js'[x].got) > 0 => js[x].ok
    BY <1>0, <1>2, <1>6 DEF Accepted, Within, HasModule
  <2>1. At("receive", x)' # {} => js[x].ok
    BY <1>0, <1>5 DEF Accepted
  <2>2. CASE x = m
    <3>1. js[x].ok
      BY <1>0, <1>3, <2>2 DEF Accepted
    <3> QED BY <3>1
  <2>3. CASE x # m
    BY <1>0, <1>6, <2>1, <2>3 DEF Accepted
  <2> QED BY <2>2, <2>3
<1>14. Clones'
  <2> SUFFICES ASSUME NEW x \in Modules, NEW y \in Messages
               PROVE  /\ Receipts(x, y)' # {} => y \in sent'[x]
                      /\ ~crashed' => /\ <<x, y>> \in clones' <=> Receipts(x, y)' # {}
                                     /\ Single(Receipts(x, y))'
    BY DEF Clones
  <2>1. CASE x = m /\ y = msg
    <3>1. Receipts(m, msg)' = {}
      <4>1. \A i, j \in Receipts(m, msg) : i = j
        BY <1>0, <1>3 DEF Clones, Single
      <4> QED BY <1>5, <4>1
    <3>2. ~crashed' => <<m, msg>> \notin clones'
      BY <1>2
    <3> QED BY <2>1, <3>1, <3>2 DEF Single
  <2>2. CASE ~(x = m /\ y = msg)
    <3>1. <<x, y>> \in clones' <=> <<x, y>> \in clones
      BY <1>2, <2>2
    <3>2. Receipts(x, y)' = Receipts(x, y)
      BY <1>5, <2>2
    <3> QED BY <1>0, <1>2, <3>1, <3>2 DEF Clones, Single
  <2> QED BY <2>1, <2>2
<1>15. PublishKeepsMessage'
  BY <1>1, <1>2, <1>6, Published DEF Inv
<1> QED BY <1>3, <1>7, <1>9, <1>10, <1>11, <1>12, <1>13, <1>14, <1>15 DEF Inv

\* The object is told to go, once, because the gateway destroys its module once.
LEMMA QuitBegins ==
  ASSUME Inv, NEW cb, on_quit_node(cb)
  PROVE  Inv'
<1>0. Types /\ Whole /\ Managed /\ Loads /\ Removals /\ Begins /\ Accepted /\ Clones
  BY DEF Inv
<1>1. TypeOK
  BY <1>0 DEF Types
<1> DEFINE m == cb.module
<1>2. /\ Take(cb) /\ cb.do = "quit" /\ HasModule(m) /\ running' = Call("quitting", m)
      /\ UNCHANGED <<script, host, life, starts, sent, node, m_call_on_init, clones, wire,
                     crashed>>
  BY DEF on_quit_node, gatewayVars
<1>3. /\ m \in Modules /\ m_modules[m] \in Handle /\ Fetched(m) = m_modules
      /\ GetModuleFromId(m) = m_modules[m]
  BY <1>0, <1>2, Found
<1>4. /\ m_modules' = m_modules
      /\ \/ js' = js
         \/ /\ m_modules[m].state = "initialized"
            /\ js' = [js EXCEPT ![m].destroyed = @ + 1]
  BY <1>3 DEF on_quit_node
<1> HIDE DEF m
<1>5. /\ m_callbacks' \in Seq(Callback) /\ Whole' /\ running = Idle
      /\ Len(m_callbacks) \in At("quit", m)
      /\ \A do, x : /\ At(do, x)' = At(do, x) \ {Len(m_callbacks)}
                    /\ Len(m_callbacks) \in At(do, x) => do = "quit" /\ x = m
      /\ \A x, msg : /\ Receipts(x, msg)' = Receipts(x, msg) \ {Len(m_callbacks)}
                     /\ Len(m_callbacks) \in Receipts(x, msg) <=> cb = Receipt(x, msg)
  BY <1>0, <1>1, <1>2, Popped DEF m
<1>6. /\ At("quit", m)' = {} /\ js[m].destroyed = 0 /\ life[m] \in {"leaving", "gone"}
  <2>1. At("quit", m) # {} /\ \A i, j \in At("quit", m) : i = j
    BY <1>0, <1>3, <1>5 DEF Removals, Single
  <2>2. js[m].destroyed \in Nat
    BY <1>1, <1>3 DEF TypeOK
  <2> QED BY <1>0, <1>3, <1>5, <2>1, <2>2 DEF Removals
<1>7. /\ \A x : /\ At("load", x)' = At("load", x) /\ At("start", x)' = At("start", x)
                /\ At("receive", x)' = At("receive", x) /\ Waiting(x)' = Waiting(x)
                /\ x # m => At("quit", x)' = At("quit", x)
      /\ \A x \in Modules, msg \in Messages : Receipts(x, msg)' = Receipts(x, msg)
  <2>1. \A x : Waiting(x)' = Waiting(x)
    BY <1>2, Stays
  <2>2. \A x \in Modules, msg \in Messages : cb # Receipt(x, msg)
    BY <1>2, CallsAre
  <2>3. ASSUME NEW do, NEW x, do # "quit" \/ x # m PROVE At(do, x)' = At(do, x)
    BY <1>5, <2>3
  <2>4. \A x \in Modules, msg \in Messages : Receipts(x, msg)' = Receipts(x, msg)
    BY <1>5, <2>2
  <2> QED BY <2>1, <2>3, <2>4
<1>8. /\ js' \in [Modules -> [created : Nat, ok : BOOLEAN, started : Nat, destroyed : Nat,
                              got : Seq(Messages),
                              said : {"nothing", "true", "false", "undefined"}]]
      /\ \A x \in Modules : /\ x # m => js'[x] = js[x]
                            /\ js'[x].created = js[x].created /\ js'[x].said = js[x].said
                            /\ js'[x].started = js[x].started /\ js'[x].got = js[x].got
                            /\ js'[x].ok = js[x].ok
      /\ \/ js'[m].destroyed = 0
         \/ js'[m].destroyed = 1 /\ m_modules[m].state = "initialized"
  <2>1. js \in [Modules -> [created : Nat, ok : BOOLEAN, started : Nat, destroyed : Nat,
                            got : Seq(Messages),
                            said : {"nothing", "true", "false", "undefined"}]]
    BY <1>1 DEF TypeOK
  <2>2. CASE js' = js
    BY <1>6, <2>1, <2>2
  <2>3. CASE m_modules[m].state = "initialized" /\ js' = [js EXCEPT ![m].destroyed = @ + 1]
    <3> DEFINE k == js[m].destroyed + 1
    <3>1. k \in Nat /\ k = 1 /\ js' = [js EXCEPT ![m].destroyed = k]
      BY <1>6, <2>3
    <3> HIDE DEF k
    <3>2. /\ js' \in [Modules -> [created : Nat, ok : BOOLEAN, started : Nat, destroyed : Nat,
                                  got : Seq(Messages),
                                  said : {"nothing", "true", "false", "undefined"}]]
          /\ \A x \in Modules : /\ x # m => js'[x] = js[x]
                                /\ js'[x].created = js[x].created /\ js'[x].said = js[x].said
                                /\ js'[x].started = js[x].started
                                /\ js'[x].got = js[x].got /\ js'[x].ok = js[x].ok
          /\ js'[m].destroyed = k
      BY <1>3, <2>1, <3>1
    <3> QED BY <2>3, <3>1, <3>2
  <2> QED BY <1>4, <2>2, <2>3
<1>9. /\ \A x \in Modules : /\ Within("quitting", x)' <=> x = m
                            /\ ~Within("loaded", x)' /\ ~Within("quitting", x)
      /\ running' \in Callback /\ running'.module \in Modules
  BY <1>2, <1>3, <1>5, CallsAre DEF Within, Idle
<1>10. Types'
  BY <1>0, <1>1, <1>2, <1>4, <1>5, <1>8, <1>9 DEF Types, TypeOK
<1>11. \A x \in Modules : (Fresh(x)' <=> Fresh(x)) /\ (Owed(x)' => Owed(x))
  BY <1>2, <1>4, <1>7, <1>9 DEF Fresh, Owed, HasModule
<1>12. Managed'
  BY <1>0, <1>2, <1>4, <1>9, <1>11 DEF Managed, HasModule
<1>13. Loads'
  <2>1. node' = "ready" => m_call_on_init' = << >>
    BY <1>0, <1>2 DEF Loads
  <2>2. ASSUME NEW x \in Modules
        PROVE  /\ At("load", x)' \subseteq At("load", x) /\ Waiting(x)' = Waiting(x)
               /\ Fresh(x)' => Fresh(x)
               /\ Within("loaded", x)' => Within("loaded", x)
               /\ js'[x].created = js[x].created
    BY <1>7, <1>8, <1>9, <1>11
  <2> QED BY <1>0, <2>1, <2>2, LoadsStay
<1>14. Removals'
  <2> SUFFICES ASSUME NEW x \in Modules
               PROVE  /\ Single(At("quit", x))'
                      /\ \/ At("quit", x)' # {} \/ Within("quitting", x)' \/ js'[x].destroyed > 0
                         => life'[x] \in {"leaving", "gone"}
                      /\ Within("quitting", x)' \/ js'[x].destroyed > 0 => At("quit", x)' = {}
                      /\ js'[x].destroyed <= 1
    BY DEF Removals
  <2>1. CASE x = m
    BY <1>2, <1>6, <1>8, <2>1 DEF Single
  <2>2. CASE x # m
    <3>1. /\ At("quit", x)' = At("quit", x) /\ life'[x] = life[x]
          /\ ~Within("quitting", x)' /\ js'[x].destroyed = js[x].destroyed
      BY <1>2, <1>7, <1>8, <1>9, <2>2
    <3> QED BY <1>0, <3>1 DEF Removals, Single
  <2> QED BY <2>1, <2>2
<1>15. Begins'
  BY <1>0, <1>1, <1>2, <1>7, <1>8, <1>11, BeginsStay
<1>16. Accepted'
  <2> SUFFICES ASSUME NEW x \in Modules
               PROVE  js'[x].started + js'[x].destroyed + Len(js'[x].got) > 0 => js[x].ok
    BY <1>0, <1>2, <1>4, <1>7, <1>8, <1>9 DEF Accepted, HasModule
  <2>1. CASE x = m /\ m_modules[m].state = "initialized"
    BY <1>0, <1>2, <1>3, <2>1 DEF Accepted
  <2>2. CASE x = m /\ m_modules[m].state # "initialized"
    <3>1. js'[m].destroyed = js[m].destroyed
      BY <1>6, <1>8, <2>2
    <3> QED BY <1>0, <1>3, <1>8, <2>2, <3>1 DEF Accepted
  <2>3. CASE x # m
    BY <1>0, <1>8, <2>3 DEF Accepted
  <2> QED BY <2>1, <2>2, <2>3
<1>17. Clones' /\ PublishKeepsMessage'
  BY <1>0, <1>1, <1>2, <1>7, <1>8, ClonesStay, Published DEF Inv
<1> QED BY <1>5, <1>10, <1>12, <1>13, <1>14, <1>15, <1>16, <1>17 DEF Inv

LEMMA QuitEnds ==
  ASSUME Inv, NEW cb, RemoveModule(cb)
  PROVE  Inv'
<1>0. Types /\ Whole /\ Managed /\ Loads /\ Removals /\ Begins /\ Accepted /\ Clones
  BY DEF Inv
<1>1. TypeOK
  BY <1>0 DEF Types
<1> DEFINE m == cb.module
<1>2. /\ cb = running /\ cb.do = "quitting" /\ m_modules' = Without(m) /\ running' = Idle
      /\ UNCHANGED <<script, host, life, starts, sent, node, m_call_on_init, m_callbacks, js,
                     clones, wire, crashed>>
  BY DEF RemoveModule, gatewayVars
<1>3. m \in Modules /\ Within("quitting", m)
  BY <1>0, <1>2 DEF Managed, Within
<1> HIDE DEF m
<1>4. life[m] \in {"leaving", "gone"} /\ host # Call("load", m)
  <2>1. life[m] \in {"leaving", "gone"}
    BY <1>0, <1>3 DEF Removals
  <2> QED BY <1>0, <1>3, <2>1 DEF Managed
<1>5. /\ DOMAIN m_modules' = DOMAIN m_modules \ {m}
      /\ m_modules' \in [DOMAIN m_modules' -> Handle]
      /\ \A x \in DOMAIN m_modules' : m_modules'[x] = m_modules[x]
  BY <1>0, <1>2 DEF Types, Without
<1>6. /\ Whole' /\ \A do, x : At(do, x)' = At(do, x)
      /\ \A x : Waiting(x)' = Waiting(x)
      /\ \A x, msg : Receipts(x, msg)' = Receipts(x, msg)
  BY <1>0, <1>2, Unmoved, Stays
<1>7. Types'
  <2>1. DOMAIN m_modules' \subseteq Modules /\ \A x \in DOMAIN m_modules' : m_modules'[x] \in Handle
    BY <1>1, <1>5 DEF TypeOK
  <2> QED BY <1>1, <1>2, <1>5, <2>1 DEF Types, TypeOK
<1>8. /\ \A x \in Modules : /\ ~Within("loaded", x)' /\ ~Within("quitting", x)'
                            /\ Fresh(x)' <=> Fresh(x)
                            /\ HasModule(x)' <=> HasModule(x) /\ x # m
      /\ running'.do = "idle"
  BY <1>2, <1>5 DEF Within, Idle, Fresh, HasModule
<1>9. \A x \in Modules : Owed(x)' => Owed(x)
  BY <1>5, <1>6, <1>8 DEF Owed, HasModule
<1>10. Managed'
  BY <1>0, <1>2, <1>4, <1>5, <1>8 DEF Managed, HasModule
<1>11. Loads'
  BY <1>0, <1>2, <1>6, <1>8, LoadsStay DEF Loads
<1>12. Removals'
  BY <1>0, <1>2, <1>6, <1>8, RemovalsStay
<1>13. Begins'
  BY <1>0, <1>1, <1>2, <1>6, <1>9, BeginsStay
<1>14. Accepted'
  BY <1>0, <1>2, <1>5, <1>6, <1>8, AcceptedStays DEF HasModule
<1>15. Clones' /\ PublishKeepsMessage'
  BY <1>0, <1>1, <1>2, <1>6, ClonesStay, Published DEF Inv
<1> QED BY <1>6, <1>7, <1>10, <1>11, <1>12, <1>13, <1>14, <1>15 DEF Inv
-----------------------------------------------------------------------------
(* All steps *)

LEMMA StepInv ==
  ASSUME Inv, [Next]_vars
  PROVE  Inv'
<1>1. CASE UNCHANGED vars
  <2>1. /\ UNCHANGED <<script, host, life, starts, sent, m_modules, node, m_call_on_init,
                       m_callbacks, running, js, clones, wire, crashed>>
    BY <1>1 DEF vars, gatewayVars
  <2>2. /\ Types /\ Whole /\ Managed /\ Loads /\ Removals /\ Begins /\ Accepted /\ Clones
        /\ TypeOK /\ PublishKeepsMessage
    BY DEF Inv, Types
  <2>3. /\ Whole' /\ \A do, x : At(do, x)' = At(do, x)
        /\ \A x : Waiting(x)' = Waiting(x)
        /\ \A x, msg : Receipts(x, msg)' = Receipts(x, msg)
    BY <2>1, <2>2, Unmoved, Stays
  <2>4. \A x \in Modules : /\ Fresh(x)' <=> Fresh(x)
                           /\ Owed(x)' <=> Owed(x)
                           /\ Within("loaded", x)' <=> Within("loaded", x)
                           /\ Within("quitting", x)' <=> Within("quitting", x)
    BY <2>1, <2>3 DEF Fresh, Owed, Within, HasModule
  <2>5. Types'
    BY <2>1, <2>2 DEF Types, TypeOK
  <2>6. Managed'
    BY <2>1, <2>2, <2>4 DEF Managed, HasModule
  <2>7. Loads' /\ Removals'
    BY <2>1, <2>2, <2>3, <2>4, LoadsStay, RemovalsStay DEF Loads
  <2>8. Begins'
    BY <2>1, <2>2, <2>3, <2>4, BeginsStay
  <2>9. Accepted'
    BY <2>1, <2>2, <2>3, <2>4, AcceptedStays DEF HasModule
  <2>10. Clones' /\ PublishKeepsMessage'
    BY <2>1, <2>2, <2>3, ClonesStay, Published
  <2> QED BY <2>3, <2>5, <2>6, <2>7, <2>8, <2>9, <2>10 DEF Inv
<1>2. CASE Next
  <2>1. ~crashed /\ (GatewayNext \/ NodeNext)
    BY <1>2 DEF Next
  <2>2. ASSUME NEW m \in Modules,
               \/ AddModule(m) \/ StartNodeFails(m) \/ NODEJS_Create(m) \/ NODEJS_Start(m)
               \/ NODEJS_Destroy(m) \/ DestroyReturns(m)
        PROVE  Inv'
    BY <2>2, Adds, StartFails, Creates, Starts, Destroys, Returns
  <2>3. ASSUME NEW m \in Modules, NEW msg \in Messages, NODEJS_Receive(m, msg) PROVE Inv'
    BY <2>3, Receives
  <2>4. ASSUME NEW m \in Modules, NEW p \in Posts, broker_publish(m, p) PROVE Inv'
    BY <2>4, Publishes
  <2>5. CASE OnNodeInitComplete
    BY <2>5, Ready
  <2>6. ASSUME NEW cb,
               \/ Announce(cb) \/ ModuleIsGone(cb) \/ on_module_start(cb)
               \/ ModuleStarted(cb) \/ on_start_callback(cb)
               \/ on_run_receive_message(cb) \/ on_quit_node(cb) \/ RemoveModule(cb)
        PROVE  Inv'
    BY <2>1, <2>6, Announces, Misses, LoadBegins, LoadEnds, StartRuns, Gets, QuitBegins, QuitEnds
  <2> QED BY <2>1, <2>2, <2>3, <2>4, <2>5, <2>6 DEF GatewayNext, NodeNext
<1> QED BY <1>1, <1>2

LEMMA Always == Spec => []Inv
  BY InitInv, StepInv, PTL DEF Spec

\* The calls that an object sees, and the handles and clones that the invariant
\* accounts for.
LEMMA InvLife ==
  ASSUME Inv
  PROVE  JavaScriptLife
<1>1. TypeOK /\ Loads /\ Removals /\ Begins /\ Accepted
  BY DEF Inv, Types
<1> SUFFICES ASSUME NEW m \in Modules
             PROVE  /\ js[m].created <= 1 /\ js[m].destroyed <= 1
                    /\ js[m].started <= starts[m]
                    /\ js[m].started + js[m].destroyed + Len(js[m].got) > 0 => js[m].ok
  BY DEF JavaScriptLife
<1>2. js[m].started <= starts[m]
  <2>1. js[m].started \in Nat /\ starts[m] \in Int
    BY <1>1, BoundAssumption DEF TypeOK
  <2>2. Cardinality(At("start", m)) \in Nat
    BY <1>1, AtIs
  <2>3. js[m].started + Cardinality(At("start", m)) + (IF Owed(m) THEN 1 ELSE 0) <= starts[m]
    BY <1>1 DEF Begins
  <2> DEFINE c == Cardinality(At("start", m))
             s == js[m].started
             t == starts[m]
  <2> HIDE DEF c, s, t
  <2>4. c \in Nat /\ s \in Nat /\ t \in Int /\ s + c + (IF Owed(m) THEN 1 ELSE 0) <= t
    BY <2>1, <2>2, <2>3 DEF c, s, t
  <2>5. s <= t
    BY <2>4
  <2> QED BY <2>5 DEF s, t
<1> QED BY <1>1, <1>2 DEF Loads, Removals, Accepted

LEMMA InvNode ==
  ASSUME Inv
  PROVE  NodeInv
<1>1. Types /\ Whole /\ Managed /\ Clones
  BY DEF Inv
<1>2. TypeOK /\ \A i \in DOMAIN m_callbacks : m_callbacks[i] \in Callback
  BY <1>1 DEF Types, TypeOK
<1>3. HandlesAreReal
  BY <1>1, <1>2 DEF HandlesAreReal, Managed, Fresh, HasModule, TypeOK
<1>4. ClonesAreQueued
  <2> SUFFICES ASSUME ~crashed
               PROVE  /\ clones = {<<m_callbacks[i].module, m_callbacks[i].message>> :
                                    i \in {j \in DOMAIN m_callbacks :
                                             m_callbacks[j].do = "receive"}}
                      /\ \A m \in Modules, msg \in Messages :
                           Cardinality({i \in DOMAIN m_callbacks :
                             m_callbacks[i] = [do |-> "receive", module |-> m,
                                               message |-> msg]}) <= 1
    BY DEF ClonesAreQueued
  <2>1. ASSUME NEW m \in Modules, NEW msg \in Messages
        PROVE  Cardinality(Receipts(m, msg)) <= 1
    <3>1. \A i, j \in Receipts(m, msg) : i = j
      BY <1>1 DEF Clones, Single
    <3>2. CASE Receipts(m, msg) = {}
      BY <3>2, FS_EmptySet
    <3>3. CASE Receipts(m, msg) # {}
      <4>1. PICK i : Receipts(m, msg) = {i}
        BY <3>1, <3>3
      <4> QED BY <4>1, FS_Singleton
    <3> QED BY <3>2, <3>3
  <2>2. ASSUME NEW c \in clones
        PROVE  \E i \in DOMAIN m_callbacks :
                 /\ m_callbacks[i].do = "receive"
                 /\ c = <<m_callbacks[i].module, m_callbacks[i].message>>
    <3>1. PICK m \in Modules, msg \in Messages : c = <<m, msg>>
      BY <1>2 DEF TypeOK
    <3>2. PICK i \in DOMAIN m_callbacks : m_callbacks[i] = Receipt(m, msg)
      BY <1>1, <3>1 DEF Clones, Receipts
    <3> QED BY <3>1, <3>2 DEF Receipt
  <2>3. ASSUME NEW i \in DOMAIN m_callbacks, m_callbacks[i].do = "receive"
        PROVE  <<m_callbacks[i].module, m_callbacks[i].message>> \in clones
    <3> DEFINE m == m_callbacks[i].module
               msg == m_callbacks[i].message
    <3>1. m \in Modules /\ msg \in Messages
      BY <1>1, <2>3 DEF Whole
    <3>2. m_callbacks[i] = Receipt(m, msg)
      BY <1>2, <2>3, CallsAre
    <3> HIDE DEF m, msg
    <3>3. Receipts(m, msg) # {}
      BY <3>2 DEF Receipts
    <3>4. <<m, msg>> \in clones
      BY <1>1, <3>1, <3>3 DEF Clones
    <3> QED BY <3>4 DEF m, msg
  <2> QED BY <2>1, <2>2, <2>3 DEF Receipts, Receipt
<1> QED BY <1>2, <1>3, <1>4 DEF NodeInv

\* Handles belong to modules that the gateway created, however the callbacks of
\* NODEJS_Create, Start, Receive and Destroy are ordered, and each clone of a message
\* belongs to one queued callback of NODEJS_Receive.
THEOREM NodeCorrect == Spec => []NodeInv
  BY Always, InvNode, PTL

\* Create is called once for an object, start and receive only after it returned true,
\* destroy once, and start not more often than the gateway called NODEJS_Start, although
\* on_start_callback and on_module_start may put a start off and queue it again.
THEOREM LifeCorrect == Spec => []JavaScriptLife
  BY Always, InvLife, PTL

\* What broker_publish gives the broker has the strings and bytes of JavaScript.
THEOREM PostsAreKept == Spec => []PublishKeepsMessage
<1>1. Inv => PublishKeepsMessage
  BY DEF Inv
<1> QED BY <1>1, Always, PTL
-----------------------------------------------------------------------------
(* Nothing is called after destroy *)

\* The handle of an object that was told to go is being removed, or is gone.
Ended ==
  \A m \in Modules : js[m].destroyed > 0 => ~HasModule(m) \/ Within("quitting", m)

\* A step makes no call to an object; it may publish.
Quiet(m) ==
  /\ js'[m].created = js[m].created /\ js'[m].started = js[m].started
  /\ js'[m].destroyed = js[m].destroyed /\ js'[m].got = js[m].got

\* An object is called when Node.js was idle and the manager has its handle.
LEMMA QuietUnless ==
  ASSUME Types, NEW cb, NEW m \in Modules,
         \/ on_module_start(cb) \/ on_start_callback(cb)
         \/ on_run_receive_message(cb) \/ on_quit_node(cb)
  PROVE  running = Idle /\ (Quiet(m) \/ HasModule(m))
<1>1. js \in [Modules -> [created : Nat, ok : BOOLEAN, started : Nat, destroyed : Nat,
                          got : Seq(Messages),
                          said : {"nothing", "true", "false", "undefined"}]]
  BY DEF Types, TypeOK
<1>2. Take(cb)
  BY DEF on_module_start, on_start_callback, on_run_receive_message, on_quit_node
<1>3. running = Idle
  BY <1>2 DEF Take
<1> DEFINE k == cb.module
<1>4. CASE k = m
  <2>1. HasModule(m) \/ js' = js
    BY <1>4 DEF on_module_start, on_start_callback, on_run_receive_message, on_quit_node
  <2> QED BY <1>3, <2>1 DEF Quiet
<1>5. CASE k # m
  <2>1. CASE on_module_start(cb)
    <3>1. js' = js \/ \E c, r : js' = [js EXCEPT ![k].created = c, ![k].ok = r]
      BY <2>1 DEF on_module_start, register_module
    <3> QED BY <1>1, <1>3, <1>5, <3>1 DEF Quiet
  <2>2. CASE on_start_callback(cb)
    <3>1. js' = js \/ \E c : js' = [js EXCEPT ![k].started = c]
      BY <2>2 DEF on_start_callback
    <3> QED BY <1>1, <1>3, <1>5, <3>1 DEF Quiet
  <2>3. CASE on_run_receive_message(cb)
    <3>1. js' = js \/ \E c : js' = [js EXCEPT ![k].got = c]
      BY <2>3 DEF on_run_receive_message
    <3> QED BY <1>1, <1>3, <1>5, <3>1 DEF Quiet
  <2>4. CASE on_quit_node(cb)
    <3>1. js' = js \/ \E c : js' = [js EXCEPT ![k].destroyed = c]
      BY <2>4 DEF on_quit_node
    <3> QED BY <1>1, <1>3, <1>5, <3>1 DEF Quiet
  <2> QED BY <2>1, <2>2, <2>3, <2>4
<1> QED BY <1>4, <1>5

LEMMA InitEnded == Init => Ended
<1> SUFFICES ASSUME Init PROVE Ended
  OBVIOUS
<1>1. DOMAIN m_modules = {}
  BY DEF Init
<1> QED BY <1>1 DEF Ended, HasModule

LEMMA StepEnded ==
  ASSUME Inv, Ended, [Next]_vars
  PROVE  Ended' /\ \A m \in Modules : js[m].destroyed > 0 => Quiet(m)
<1>0. Types /\ Managed /\ Removals /\ TypeOK
  BY DEF Inv, Types
<1>1. Idle.do = "idle"
  BY DEF Idle
<1>2. ASSUME js' = js, running' = running, DOMAIN m_modules' = DOMAIN m_modules
      PROVE  Ended' /\ \A m \in Modules : Quiet(m)
  BY <1>2 DEF Ended, HasModule, Within, Quiet
<1>3. CASE UNCHANGED vars
  BY <1>2, <1>3 DEF vars, gatewayVars
<1>4. ASSUME NEW m \in Modules, AddModule(m)
      PROVE  Ended' /\ \A x \in Modules : Quiet(x)
  <2>1. /\ js' = js /\ running' = running /\ life[m] = "unborn"
        /\ DOMAIN m_modules' = DOMAIN m_modules \cup {m}
    BY <1>4 DEF AddModule
  <2>2. ~(js[m].destroyed > 0)
    BY <1>0, <2>1 DEF Removals
  <2> QED BY <2>1, <2>2 DEF Ended, HasModule, Within, Quiet
<1>5. ASSUME NEW m \in Modules,
             \/ StartNodeFails(m) \/ NODEJS_Create(m) \/ NODEJS_Start(m)
             \/ NODEJS_Destroy(m) \/ DestroyReturns(m)
             \/ \E msg \in Messages : NODEJS_Receive(m, msg)
      PROVE  Ended' /\ \A x \in Modules : Quiet(x)
  <2>1. js' = js /\ running' = running /\ DOMAIN m_modules' = DOMAIN m_modules
    BY <1>5 DEF StartNodeFails, NODEJS_Create, NODEJS_Start, NODEJS_Destroy, DestroyReturns,
                NODEJS_Receive
  <2> QED BY <1>2, <2>1
<1>6. ASSUME NEW m \in Modules, NEW p \in Posts, broker_publish(m, p)
      PROVE  Ended' /\ \A x \in Modules : Quiet(x)
  <2>1. /\ \E s : js' = [js EXCEPT ![m].said = s]
        /\ running' = running /\ m_modules' = m_modules
    BY <1>6 DEF broker_publish, Says
  <2>2. \A x \in Modules : Quiet(x)
    BY <1>0, <2>1 DEF Quiet, TypeOK
  <2> QED BY <2>1, <2>2 DEF Ended, HasModule, Within, Quiet
<1>7. CASE OnNodeInitComplete
  BY <1>2, <1>7 DEF OnNodeInitComplete
<1>8. ASSUME NEW cb, Announce(cb) \/ ModuleIsGone(cb)
      PROVE  Ended' /\ \A x \in Modules : Quiet(x)
  <2>1. js' = js /\ running' = running /\ DOMAIN m_modules' = DOMAIN m_modules
    BY <1>8 DEF Announce, ModuleIsGone
  <2> QED BY <1>2, <2>1
<1>9. ASSUME NEW cb,
             \/ on_module_start(cb) \/ on_start_callback(cb)
             \/ on_run_receive_message(cb) \/ on_quit_node(cb)
      PROVE  Ended' /\ \A x \in Modules : js[x].destroyed > 0 => Quiet(x)
  <2>1. running = Idle /\ \A x \in Modules : Quiet(x) \/ HasModule(x)
    <3>1. Take(cb)
      BY <1>9 DEF on_module_start, on_start_callback, on_run_receive_message, on_quit_node
    <3>2. ASSUME NEW x \in Modules PROVE Quiet(x) \/ HasModule(x)
      BY <1>0, <1>9, QuietUnless
    <3> QED BY <3>1, <3>2 DEF Take
  <2>2. \A x \in Modules : js[x].destroyed > 0 => ~HasModule(x)
    BY <1>1, <2>1 DEF Ended, Within
  <2>3. DOMAIN m_modules' = DOMAIN m_modules
    <3>1. CASE on_run_receive_message(cb)
      BY <3>1 DEF on_run_receive_message
    <3>2. CASE on_module_start(cb) \/ on_start_callback(cb) \/ on_quit_node(cb)
      <4>1. HasModule(cb.module)
        BY <3>2 DEF on_module_start, on_start_callback, on_quit_node
      <4>2. Fetched(cb.module) = m_modules
        BY <1>0, <4>1, Found
      <4> QED BY <3>2, <4>2 DEF on_module_start, register_module, on_start_callback, on_quit_node
    <3> QED BY <1>9, <3>1, <3>2
  <2>4. ASSUME NEW x \in Modules, js'[x].destroyed > 0, HasModule(x)
        PROVE  Within("quitting", x)'
    <3>1. js'[x] # js[x] /\ ~Quiet(x)
      BY <2>2, <2>4 DEF Quiet
    <3> QED
      <4>1. CASE on_quit_node(cb)
        <5>1. js' = js \/ \E c : js' = [js EXCEPT ![cb.module].destroyed = c]
          BY <4>1 DEF on_quit_node
        <5>2. x = cb.module
          BY <1>0, <3>1, <5>1 DEF TypeOK
        <5>3. running' = Call("quitting", x)
          BY <4>1, <5>2 DEF on_quit_node
        <5> QED BY <5>3 DEF Within, Call
      <4>2. CASE on_module_start(cb) \/ on_start_callback(cb) \/ on_run_receive_message(cb)
        <5>1. js'[x].destroyed = js[x].destroyed
          <6> DEFINE k == cb.module
          <6>1. js \in [Modules -> [created : Nat, ok : BOOLEAN, started : Nat, destroyed : Nat,
                                    got : Seq(Messages),
                                    said : {"nothing", "true", "false", "undefined"}]]
            BY <1>0 DEF TypeOK
          <6>2. \/ js' = js
                \/ \E c, r : js' = [js EXCEPT ![k].created = c, ![k].ok = r]
                \/ \E c : js' = [js EXCEPT ![k].started = c]
                \/ \E c : js' = [js EXCEPT ![k].got = c]
            <7>1. CASE on_module_start(cb)
              BY <7>1 DEF on_module_start, register_module
            <7>2. CASE on_start_callback(cb)
              BY <7>2 DEF on_start_callback
            <7>3. CASE on_run_receive_message(cb)
              BY <7>3 DEF on_run_receive_message
            <7> QED BY <4>2, <7>1, <7>2, <7>3
          <6> HIDE DEF k
          <6>3. ASSUME NEW c, NEW r, js' = [js EXCEPT ![k].created = c, ![k].ok = r]
                PROVE  js'[x].destroyed = js[x].destroyed
            <7> DEFINE js1 == [js EXCEPT ![k].created = c]
            <7>1. js1[x].destroyed = js[x].destroyed /\ DOMAIN js1 = Modules
              BY <6>1
            <7>2. js' = [js1 EXCEPT ![k].ok = r]
              BY <6>3
            <7> HIDE DEF js1
            <7> QED BY <7>1, <7>2
          <6>4. ASSUME NEW c,
                       \/ js' = [js EXCEPT ![k].started = c]
                       \/ js' = [js EXCEPT ![k].got = c]
                PROVE  js'[x].destroyed = js[x].destroyed
            <7>1. CASE js' = [js EXCEPT ![k].started = c]
              <8>1. js'[x] = js[x] \/ js'[x] = [js[x] EXCEPT !.started = c]
                BY <6>1, <7>1
              <8> QED BY <6>1, <8>1
            <7>2. CASE js' = [js EXCEPT ![k].got = c]
              <8>1. js'[x] = js[x] \/ js'[x] = [js[x] EXCEPT !.got = c]
                BY <6>1, <7>2
              <8> QED BY <6>1, <8>1
            <7> QED BY <6>4, <7>1, <7>2
          <6> QED BY <6>2, <6>3, <6>4
        <5> QED BY <2>2, <2>4, <5>1
      <4> QED BY <1>9, <4>1, <4>2
  <2>5. Ended'
    BY <2>3, <2>4 DEF Ended, HasModule
  <2> QED BY <2>1, <2>2, <2>5
<1>10. ASSUME NEW cb, ModuleStarted(cb)
       PROVE  Ended' /\ \A x \in Modules : Quiet(x)
  <2>1. js' = js /\ running.do = "loaded" /\ DOMAIN m_modules' = DOMAIN m_modules
    BY <1>10 DEF ModuleStarted
  <2> QED BY <2>1 DEF Ended, HasModule, Within, Quiet
<1>11. ASSUME NEW cb, RemoveModule(cb)
       PROVE  Ended' /\ \A x \in Modules : Quiet(x)
  <2>1. /\ js' = js /\ cb = running /\ DOMAIN m_modules' = DOMAIN m_modules \ {running.module}
    BY <1>11 DEF RemoveModule, Without
  <2> QED BY <2>1 DEF Ended, HasModule, Within, Quiet
<1> QED
  <2>1. CASE Next
    <3>1. GatewayNext \/ NodeNext
      BY <2>1 DEF Next
    <3> QED BY <3>1, <1>4, <1>5, <1>6, <1>7, <1>2, <1>8, <1>9, <1>10, <1>11
            DEF GatewayNext, NodeNext
  <2> QED BY <1>3, <2>1

\* Whatever is still queued when on_quit_node has called an object's destroy, no create,
\* start, receive or destroy reaches the object any more.
NothingAfterDestroy ==
  [][\A m \in Modules : js[m].destroyed > 0 => Quiet(m)]_vars

\* Calls come from handles only, on_quit_node removes the handle before Node.js takes
\* another callback, and AddModule is called once for a module.
THEOREM DestroyIsLast == Spec => NothingAfterDestroy
<1>1. Inv /\ Ended /\ [Next]_vars =>
        Ended' /\ [\A m \in Modules : js[m].destroyed > 0 => Quiet(m)]_vars
  BY StepEnded
<1> QED BY <1>1, InitEnded, Always, PTL DEF Spec, NothingAfterDestroy
=============================================================================
