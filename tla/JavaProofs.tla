----------------------------- MODULE JavaProofs -----------------------------
(***************************************************************************)
(* Proofs about JavaHost: whatever fails, and in whatever order modules    *)
(* come and go, the manager counts the modules and the machine is there    *)
(* for them, with their options.                                           *)
(***************************************************************************)
EXTENDS JavaHost, TLAPS, FiniteSetTheorems, SequenceTheorems

Threads == Hosts \cup {"gateway"}

\* What parse_jvm_options_internal returns.
Options == {parse_jvm_options_internal(c) : c \in Configs}

Copies == {options_copy(o) : o \in Options}

HostData ==
  [used : {TRUE}, jvm : BOOLEAN, env : Threads \cup {NULL}, counted : BOOLEAN,
   module : BOOLEAN, options : Options]

\* Where the gateway's thread has a host that the manager does not count, and
\* where it has one that the manager counts.
Uncounted == {"jvm", "add", "size", "unload", "manager"}
CountedAt == {"construct", "remove", "destroys"}

Counted == {h \in Hosts : host[h].used /\ host[h].counted}

Shapes ==
  /\ instance = NoManager \/ (instance.exists = TRUE /\ instance = [exists |-> TRUE,
       count |-> instance.count, options |-> instance.options]
       /\ instance.options \in Copies)
  /\ jvm = NoJvm \/ (jvm.exists = TRUE /\ DOMAIN jvm.args = 1 .. Cardinality(DOMAIN jvm.args))
  /\ attached \subseteq Threads
  /\ host \in [Hosts -> HostData \cup {Unused}]
  /\ gateway = Idle \/ gateway \in
       [at : Uncounted \cup CountedAt \cup {"starts", "crashed"}, host : Hosts]
  /\ worker \in [Hosts -> {"none", "idle", "calls"}]
  /\ lost \in Nat /\ created \in 0 .. MaxCreations /\ failing \in BOOLEAN

\* The host in the hands of the gateway's thread, and the others.
Hands ==
  /\ gateway.at \in Uncounted =>
       LET h == gateway.host IN host[h].used /\ ~host[h].counted
  /\ gateway.at \in CountedAt =>
       LET h == gateway.host IN host[h].used /\ host[h].counted
  /\ gateway.at \in Uncounted \cup CountedAt => worker[gateway.host] = "none"
  /\ gateway.at \in CountedAt \ {"destroys"} => ~host[gateway.host].module
  /\ gateway.at = "add" => jvm.exists /\ host[gateway.host].jvm
  /\ gateway.at = "unload" => instance.count = 0

Kept ==
  \A h \in Hosts :
    /\ worker[h] # "none" => host[h].used /\ host[h].counted
    /\ host[h].used /\ ~host[h].counted =>
         gateway.at \in Uncounted /\ gateway.host = h /\ ~host[h].module
    /\ host[h].used /\ host[h].counted => jvm.exists /\ host[h].jvm

\* A creation on its way will take a count.
Underway == IF gateway.at \in {"jvm", "add"} THEN 1 ELSE 0

Counts ==
  /\ instance.exists => instance.count = Cardinality(Counted) + lost
  /\ ~instance.exists => Cardinality(Counted) + lost = 0
  /\ Cardinality(Counted) + lost + Underway <= created

\* One set of options for all.
Same ==
  \A h \in Hosts : host[h].used =>
    instance.exists /\ instance.options = options_copy(host[h].options)

\* Of a process in which no library fails.
Works ==
  ~failing =>
    /\ jvm.exists => instance.exists /\ jvm.args = init_vm_options(instance.options)
    /\ gateway.at = "size" => host[gateway.host].jvm
    /\ gateway.at = "manager" /\ instance.count = 0 => ~jvm.exists
    /\ instance.exists /\ instance.count = 0 => gateway.at \in Uncounted

Inv == Shapes /\ Hands /\ Kept /\ Counts /\ Same /\ Works
-----------------------------------------------------------------------------
(* Options *)

\* The shape of the options of a host.
LEMMA OptionsAre ==
  ASSUME NEW o \in Options
  PROVE  /\ o = [class_path |-> o.class_path, debug |-> o.debug, verbose |-> o.verbose,
                 additional |-> o.additional]
         /\ {o.debug, o.verbose} \subseteq BOOLEAN
         /\ o.additional = NULL \/ (o.additional \in Seq(STRING) /\ o.additional # NULL)
         /\ NULL # <<>>
<1> PICK c \in Configs : o = parse_jvm_options_internal(c)
  BY DEF Options
<1>1. <<>> \in Seq(STRING)
  OBVIOUS
<1>2. /\ c = [class_path |-> c.class_path, debug |-> c.debug, verbose |-> c.verbose,
              additional |-> c.additional]
      /\ {c.debug, c.verbose} \subseteq BOOLEAN
      /\ c.additional \in Seq(STRING) /\ NULL \notin Seq(STRING)
  BY ConfigsAssumption DEF Configuration
<1>3. o = [class_path |-> c.class_path, debug |-> c.debug, verbose |-> c.verbose,
           additional |-> IF c.additional = <<>> THEN NULL ELSE c.additional]
  BY <1>2 DEF parse_jvm_options_internal
<1>4. /\ o.class_path = c.class_path /\ o.debug = c.debug /\ o.verbose = c.verbose
      /\ o.additional = IF c.additional = <<>> THEN NULL ELSE c.additional
  BY <1>3
<1>5. o = [class_path |-> o.class_path, debug |-> o.debug, verbose |-> o.verbose,
           additional |-> o.additional]
  BY <1>3, <1>4
<1> HIDE DEF Options, parse_jvm_options_internal
<1> QED BY <1>1, <1>2, <1>4, <1>5

\* A copy of the options has the same fields, and is made of what they say.
LEMMA CopyIs ==
  ASSUME NEW o \in Options
  PROVE  options_copy(o) = [class_path |-> o.class_path, debug |-> o.debug,
           verbose |-> o.verbose,
           additional |-> IF o.additional = NULL THEN <<>> ELSE o.additional]
<1> QED BY OptionsAre DEF options_copy

\* The additional options are a sequence.
LEMMA AdditionalAre ==
  ASSUME NEW o \in Options
  PROVE  options_copy(o).additional \in Seq(STRING)
<1>1. <<>> \in Seq(STRING)
  OBVIOUS
<1>2. options_copy(o).additional = IF o.additional = NULL THEN <<>> ELSE o.additional
  BY CopyIs
<1> QED BY <1>1, <1>2, OptionsAre

\* The machine does not tell options from their copy.
LEMMA CopyServes ==
  ASSUME NEW o \in Options
  PROVE  init_vm_options(options_copy(o)) = init_vm_options(o)
<1> DEFINE d == options_copy(o)
<1>1. /\ d.class_path = o.class_path /\ d.debug = o.debug /\ d.verbose = o.verbose
      /\ options_copy(d).additional = d.additional
  <2>1. d = [class_path |-> d.class_path, debug |-> d.debug,
             verbose |-> d.verbose, additional |-> d.additional]
        /\ d.additional # NULL
        /\ d.class_path = o.class_path /\ d.debug = o.debug /\ d.verbose = o.verbose
    BY CopyIs, OptionsAre
  <2> HIDE DEF d
  <2> QED BY <2>1 DEF options_copy
<1>2. options_count(d) = options_count(o) /\ options_strings(d) = options_strings(o)
  BY <1>1 DEF options_count, options_strings
<1> QED BY <1>2 DEF init_vm_options

\* Two configurations that compare equal have the same copy.
LEMMA ComparedEqual ==
  ASSUME NEW o \in Options, NEW p \in Options,
         config_options_compare(options_copy(p), o)
  PROVE  options_copy(o) = options_copy(p)
<1> QED BY CopyIs, OptionsAre DEF config_options_compare, VECTOR_compare

\* There is one string for each option that is counted.
LEMMA StringsCounted ==
  ASSUME NEW o \in Options
  PROVE  /\ options_count(o) \in Nat
         /\ Len(options_strings(o)) = options_count(o)
<1> DEFINE a == options_copy(o).additional
           S == STRING \cup {o.class_path, "-Xrs", "-Xdebug", "-Xrunjdwp", "-verbose:class"}
           path == <<o.class_path>>
           debug == IF o.debug THEN <<"-Xrs", "-Xdebug", "-Xrunjdwp">> ELSE <<>>
           verbose == IF o.verbose THEN <<"-verbose:class">> ELSE <<>>
<1>1. a \in Seq(S) /\ Len(a) \in Nat
  BY AdditionalAre
<1>2. path \in Seq(S) /\ Len(path) = 1
  OBVIOUS
<1>3. /\ debug \in Seq(S) /\ Len(debug) = IF o.debug THEN 3 ELSE 0
      /\ verbose \in Seq(S) /\ Len(verbose) = IF o.verbose THEN 1 ELSE 0
  <2>1. <<>> \in Seq(S) /\ Len(<<>>) = 0
    OBVIOUS
  <2>2. {"-Xrs", "-Xdebug", "-Xrunjdwp", "-verbose:class"} \subseteq S
    OBVIOUS
  <2> HIDE DEF S
  <2>3. <<"-Xrs", "-Xdebug", "-Xrunjdwp">> \in Seq(S) /\ <<"-verbose:class">> \in Seq(S)
    BY <2>2
  <2> QED BY <2>1, <2>3
<1>4. options_strings(o) = ((path \o debug) \o verbose) \o a
  BY DEF options_strings
<1> HIDE DEF a, S, path, debug, verbose
<1>5. path \o debug \in Seq(S) /\ Len(path \o debug) = Len(path) + Len(debug)
  BY <1>2, <1>3, ConcatProperties
<1> DEFINE first == path \o debug
<1>6. first \in Seq(S) /\ Len(first) = Len(path) + Len(debug)
  BY <1>5
<1>7. options_strings(o) = (first \o verbose) \o a
  BY <1>4
<1> HIDE DEF first
<1>8. first \o verbose \in Seq(S) /\ Len(first \o verbose) = Len(first) + Len(verbose)
  BY <1>3, <1>6, ConcatProperties
<1>9. Len((first \o verbose) \o a) = Len(first \o verbose) + Len(a)
  BY <1>1, <1>8, ConcatProperties
<1>10. options_count(o) = 1 + (IF o.debug THEN 3 ELSE 0) + (IF o.verbose THEN 1 ELSE 0) + Len(a)
  BY DEF options_count, a
<1>11. Len(options_strings(o)) = Len(path) + Len(debug) + Len(verbose) + Len(a)
  BY <1>6, <1>7, <1>8, <1>9
<1> QED BY <1>1, <1>2, <1>3, <1>10, <1>11

\* Each option of the machine has an entry of its own.
LEMMA ArgumentsAre ==
  ASSUME NEW o \in Options
  PROVE  DOMAIN init_vm_options(o) = 1 .. Cardinality(DOMAIN init_vm_options(o))
<1> DEFINE n == options_count(o)
<1>1. DOMAIN init_vm_options(o) = 1 .. n /\ n \in Nat
  BY StringsCounted DEF init_vm_options
<1>2. Cardinality(1 .. n) = n
  BY <1>1, FS_Interval
<1> QED BY <1>1, <1>2
-----------------------------------------------------------------------------
(* The hosts that are counted *)

\* A host that exists has the fields of JAVA_MODULE_HANDLE_DATA.
LEMMA HostIs ==
  ASSUME Shapes, NEW h \in Hosts
  PROVE  /\ host[h] \in HostData \cup {Unused} /\ host[h].used \in BOOLEAN
         /\ host[h].used => host[h] \in HostData
         /\ ~host[h].used => host[h] = Unused
<1>1. host[h] \in HostData \cup {Unused}
  BY DEF Shapes
<1>2. Unused.used = FALSE
  BY DEF Unused
<1>3. \A d \in HostData : d.used = TRUE
  BY DEF HostData
<1> QED BY <1>1, <1>2, <1>3

\* The hosts that are counted are finitely many.
LEMMA CountedFinite ==
  /\ IsFiniteSet(Counted) /\ Cardinality(Counted) \in Nat
  /\ \A h \in Counted : Cardinality(Counted) > 0
<1>1. IsFiniteSet(Counted) /\ Counted \subseteq Hosts
  BY HostsAssumption, FS_Subset DEF Counted
<1>2. Cardinality(Counted) \in Nat /\ (Cardinality(Counted) = 0 <=> Counted = {})
  BY <1>1, FS_CardinalityType, FS_EmptySet
<1> QED BY <1>1, <1>2

\* One host is changed: when it is counted before and after, or neither, so is
\* the number of those that are.
LEMMA OneChanges ==
  ASSUME NEW h \in Hosts, \A g \in Hosts \ {h} : host'[g] = host[g]
  PROVE  LET before == host[h].used /\ host[h].counted
             after == host'[h].used /\ host'[h].counted
         IN  /\ (after <=> before) => Counted' = Counted
             /\ ~before /\ after => Cardinality(Counted') = Cardinality(Counted) + 1
             /\ before /\ ~after => /\ Cardinality(Counted') = Cardinality(Counted) - 1
                                   /\ Cardinality(Counted) > 0
<1>1. \A g \in Hosts \ {h} : g \in Counted' <=> g \in Counted
  BY DEF Counted
<1>2. /\ h \in Counted <=> host[h].used /\ host[h].counted
      /\ h \in Counted' <=> host'[h].used /\ host'[h].counted
      /\ Counted \subseteq Hosts /\ Counted' \subseteq Hosts
  BY DEF Counted
<1>3. (h \in Counted' <=> h \in Counted) => Counted' = Counted
  BY <1>1, <1>2
<1>4. ASSUME h \notin Counted, h \in Counted'
      PROVE  Cardinality(Counted') = Cardinality(Counted) + 1
  <2>1. Counted' = Counted \cup {h}
    BY <1>1, <1>2, <1>4
  <2> QED BY <2>1, <1>4, CountedFinite, FS_AddElement
<1>5. ASSUME h \in Counted, h \notin Counted'
      PROVE  Cardinality(Counted') = Cardinality(Counted) - 1 /\ Cardinality(Counted) > 0
  <2>1. Counted' = Counted \ {h}
    BY <1>1, <1>2, <1>5
  <2> QED BY <2>1, <1>5, CountedFinite, FS_RemoveElement
<1> QED BY <1>2, <1>3, <1>4, <1>5

\* Where the gateway's thread is.
LEMMA GatewayIs ==
  ASSUME Shapes
  PROVE  /\ gateway = Idle <=> gateway.at = "idle"
         /\ gateway.at # "idle" => gateway.host \in Hosts
         /\ gateway.at \in Uncounted \cup CountedAt \cup {"idle", "starts", "crashed"}
<1> QED BY DEF Shapes, Idle, Uncounted, CountedAt

-----------------------------------------------------------------------------
(* Creation *)

LEMMA InitInv == Init => Inv
<1> SUFFICES ASSUME Init PROVE Inv
  OBVIOUS
<1>1. \A h \in Hosts : host[h] = Unused /\ ~host[h].used
  BY DEF Init, Unused
<1>2. Counted = {} /\ Cardinality(Counted) = 0
  BY <1>1, FS_EmptySet DEF Counted
<1>3. Shapes
  BY CreationsAssumption DEF Init, Shapes
<1>4. gateway.at = "idle" /\ instance.exists = FALSE /\ jvm.exists = FALSE
  BY DEF Init, Idle, NoManager, NoJvm
<1>5. Hands /\ Works
  BY <1>4 DEF Hands, Works, Uncounted, CountedAt
<1>6. Kept /\ Same
  BY <1>1 DEF Init, Kept, Same
<1>7. Counts
  BY <1>2, <1>4 DEF Init, Counts, Underway
<1> QED BY <1>3, <1>5, <1>6, <1>7 DEF Inv

\* A host that is new has nothing yet.
LEMMA NewIs ==
  ASSUME NEW o \in Options
  PROVE  /\ NewHost(o) \in HostData /\ NewHost(o).options = o
         /\ NewHost(o).used /\ ~NewHost(o).counted /\ ~NewHost(o).module
<1> QED BY DEF NewHost, HostData

LEMMA ManagerCreateKeeps ==
  ASSUME Inv, NEW h \in Hosts, JavaModuleHostManager_Create(h)
  PROVE  Inv'
<1> USE DEF Inv
<1>1. gateway = Idle /\ gateway.at = "idle" /\ ~host[h].used
  BY HostIs DEF JavaModuleHostManager_Create, Idle, Unused
<1>2. created' = created + 1 /\ created' \in 0 .. MaxCreations
  BY CreationsAssumption DEF JavaModuleHostManager_Create, Shapes
<1>3. CASE UNCHANGED <<instance, host, gateway>>
  <2>1. UNCHANGED <<instance, host, gateway, jvm, attached, worker, lost, failing>>
    BY <1>3 DEF JavaModuleHostManager_Create
  <2>2. Counted' = Counted /\ Underway' = Underway
    BY <2>1 DEF Counted, Underway
  <2>3. Shapes' /\ Hands' /\ Kept' /\ Same' /\ Works'
    BY <2>1, <1>2 DEF Shapes, Hands, Kept, Same, Works
  <2>4. Counts'
    BY <2>1, <2>2, <1>2, CountedFinite DEF Counts, Shapes, Underway
  <2> QED BY <2>3, <2>4
<1>5. CASE Goes("crashed", h) /\ UNCHANGED <<instance, host>>
  <2>1. UNCHANGED <<instance, host, jvm, attached, worker, lost, failing>>
    BY <1>5 DEF JavaModuleHostManager_Create
  <2>2. gateway' = [at |-> "crashed", host |-> h] /\ gateway'.at = "crashed"
    BY <1>5 DEF Goes
  <2>3. Counted' = Counted /\ Underway' = Underway
    BY <2>1, <2>2, <1>1 DEF Counted, Underway
  <2>4. Shapes'
    BY <2>1, <2>2, <1>2 DEF Shapes
  <2>5. Hands' /\ Kept' /\ Works'
    BY <2>1, <2>2, <1>1 DEF Hands, Kept, Works, Uncounted, CountedAt
  <2>6. Same'
    BY <2>1, <2>2, <1>1 DEF Same
  <2>7. Counts'
    BY <2>1, <2>3, <1>2, CountedFinite DEF Counts, Shapes, Underway
  <2> QED BY <2>4, <2>5, <2>6, <2>7
<1>4. ASSUME ~UNCHANGED <<instance, host, gateway>>,
             ~(Goes("crashed", h) /\ UNCHANGED <<instance, host>>)
      PROVE  Inv'
  <2>1. PICK c \in Configs : LET o == parse_jvm_options_internal(c) IN
          /\ \/ /\ ~instance.exists
                /\ instance' = [exists |-> TRUE, count |-> 0, options |-> options_copy(o)]
             \/ /\ instance.exists /\ config_options_compare(instance.options, o)
                /\ UNCHANGED instance
          /\ host' = [host EXCEPT ![h] = NewHost(o)] /\ Goes("jvm", h)
    BY <1>4 DEF JavaModuleHostManager_Create
  <2> DEFINE o == parse_jvm_options_internal(c)
  <2>2. o \in Options
    BY DEF Options
  <2>3. UNCHANGED <<jvm, attached, worker, lost, failing>>
    BY DEF JavaModuleHostManager_Create
  <2>4. /\ \/ /\ ~instance.exists
              /\ instance' = [exists |-> TRUE, count |-> 0, options |-> options_copy(o)]
           \/ /\ instance.exists /\ config_options_compare(instance.options, o)
              /\ UNCHANGED instance
        /\ host' = [host EXCEPT ![h] = NewHost(o)]
        /\ gateway' = [at |-> "jvm", host |-> h]
    BY <2>1 DEF Goes
  <2> HIDE DEF o
  <2>5. /\ host' \in [Hosts -> HostData \cup {Unused}] /\ host'[h] = NewHost(o)
        /\ \A g \in Hosts \ {h} : host'[g] = host[g]
    BY <2>2, <2>4, NewIs DEF Shapes
  <2>6. /\ host'[h].used /\ ~host'[h].counted /\ ~host'[h].module /\ host'[h].options = o
        /\ gateway'.at = "jvm" /\ gateway'.host = h /\ instance'.exists
    BY <2>2, <2>4, <2>5, NewIs
  <2>7. Counted' = Counted
    BY <1>1, <2>5, <2>6, OneChanges
  <2>8. CASE ~instance.exists
    <3>1. /\ instance' = [exists |-> TRUE, count |-> 0, options |-> options_copy(o)]
          /\ instance'.count = 0 /\ instance'.options = options_copy(o)
          /\ options_copy(o) \in Copies
      BY <2>2, <2>4, <2>8 DEF Copies
    <3>2. /\ \A g \in Hosts : ~host[g].used
          /\ Cardinality(Counted') + lost = 0
          /\ ~failing => ~jvm.exists
      BY <2>7, <2>8 DEF Same, Counts, Works
    <3>3. Shapes'
      BY <1>2, <2>3, <2>4, <2>5, <3>1 DEF Shapes, Uncounted
    <3>4. Hands' /\ Kept'
      BY <1>1, <2>3, <2>5, <2>6, <3>2, HostIs DEF Hands, Kept, Uncounted, CountedAt
    <3>5. Counts'
      BY <1>2, <2>3, <2>6, <3>1, <3>2, CountedFinite DEF Counts, Shapes, Underway
    <3>6. Same' /\ Works'
      BY <2>3, <2>5, <2>6, <3>1, <3>2 DEF Same, Works, Uncounted
    <3> QED BY <3>3, <3>4, <3>5, <3>6
  <2>9. CASE instance.exists
    <3>1. /\ UNCHANGED instance /\ instance.options = options_copy(o)
      BY <2>2, <2>4, <2>9, ComparedEqual, HostIs DEF Shapes, Copies, NoManager
    <3>2. Shapes'
      BY <1>2, <2>3, <2>4, <2>5, <3>1 DEF Shapes, Uncounted
    <3>3. Hands' /\ Kept'
      BY <1>1, <2>3, <2>5, <2>6, <3>1, HostIs DEF Hands, Kept, Uncounted, CountedAt
    <3>4. Counts'
      BY <1>1, <1>2, <2>3, <2>7, <2>6, <2>9, <3>1, CountedFinite DEF Counts, Shapes, Underway
    <3>5. Same' /\ Works'
      BY <1>1, <2>3, <2>5, <2>6, <2>9, <3>1 DEF Same, Works, Uncounted
    <3> QED BY <3>2, <3>3, <3>4, <3>5
  <2> QED BY <2>8, <2>9
<1> QED BY <1>3, <1>4, <1>5

\* Fields of one host's data are written.
LEMMA Written ==
  ASSUME Shapes, NEW h \in Hosts, host[h].used,
         NEW j \in BOOLEAN, NEW e \in Threads \cup {NULL}, NEW c \in BOOLEAN,
         NEW m \in BOOLEAN,
         host' = [host EXCEPT ![h] = [host[h] EXCEPT !.jvm = j, !.env = e, !.counted = c,
                                                     !.module = m]]
  PROVE  /\ host' \in [Hosts -> HostData \cup {Unused}]
         /\ \A g \in Hosts \ {h} : host'[g] = host[g]
         /\ host'[h].used /\ host'[h].jvm = j /\ host'[h].counted = c
         /\ host'[h].module = m /\ host'[h].options = host[h].options
<1>1. host[h] \in HostData
  BY HostIs
<1> DEFINE x == [host[h] EXCEPT !.jvm = j, !.env = e, !.counted = c, !.module = m]
<1>2. /\ x \in HostData /\ x.used /\ x.jvm = j /\ x.counted = c /\ x.module = m
      /\ x.options = host[h].options
  BY <1>1 DEF HostData
<1>3. host' = [host EXCEPT ![h] = x]
  OBVIOUS
<1> HIDE DEF x
<1> QED BY <1>2, <1>3 DEF Shapes

\* A host is given up.
LEMMA GivenUp ==
  ASSUME Shapes, NEW h \in Hosts, host' = [host EXCEPT ![h] = Unused]
  PROVE  /\ host' \in [Hosts -> HostData \cup {Unused}]
         /\ \A g \in Hosts \ {h} : host'[g] = host[g]
         /\ ~host'[h].used
<1> QED BY DEF Shapes, Unused

\* The gateway's thread goes on with host h.
LEMMA Went ==
  ASSUME NEW h \in Hosts, NEW a \in Uncounted \cup CountedAt \cup {"starts", "crashed"},
         Goes(a, h)
  PROVE  /\ gateway'.at = a /\ gateway'.host = h
         /\ gateway' \in
              [at : Uncounted \cup CountedAt \cup {"starts", "crashed"}, host : Hosts]
<1> QED BY DEF Goes

\* What a host keeps of its data when no more is written.
LEMMA FieldsAre ==
  ASSUME Shapes, NEW h \in Hosts, host[h].used
  PROVE  /\ host[h] = [used |-> TRUE, jvm |-> host[h].jvm, env |-> host[h].env,
              counted |-> host[h].counted, module |-> host[h].module,
              options |-> host[h].options]
         /\ {host[h].jvm, host[h].counted, host[h].module} \subseteq BOOLEAN
         /\ host[h].env \in Threads \cup {NULL} /\ host[h].options \in Options
<1> QED BY HostIs DEF HostData

\* A manager that exists has its count and its options.
LEMMA ManagerIs ==
  ASSUME Shapes, instance.exists
  PROVE  /\ instance = [exists |-> TRUE, count |-> instance.count,
                        options |-> instance.options]
         /\ instance.options \in Copies
<1> QED BY DEF Shapes, NoManager

\* A host that is counted has a manager with a count.
LEMMA CountedOnes ==
  ASSUME Inv, NEW h \in Hosts, host[h].used, host[h].counted
  PROVE  /\ instance.exists /\ instance.count \in Nat /\ instance.count > 0
         /\ instance.options = options_copy(host[h].options)
<1>1. instance.exists /\ instance.options = options_copy(host[h].options)
  BY DEF Inv, Same
<1>2. Cardinality(Counted) > 0 /\ Cardinality(Counted) \in Nat /\ lost \in Nat
  BY CountedFinite DEF Counted, Inv, Shapes
<1>3. instance.count = Cardinality(Counted) + lost
  BY <1>1 DEF Inv, Counts
<1> QED BY <1>1, <1>2, <1>3

LEMMA JvmCreateKeeps == ASSUME Inv, JVM_Create PROVE Inv'
<1> DEFINE h == gateway.host
<1> USE DEF Inv
<1>1. /\ gateway.at = "jvm" /\ h \in Hosts /\ host[h].used /\ ~host[h].counted
      /\ ~host[h].module /\ worker[h] = "none"
      /\ UNCHANGED <<instance, worker, lost, created, failing>>
  BY GatewayIs DEF JVM_Create, Hands, Kept, Uncounted
<1>2. host[h] \in HostData /\ instance.exists /\ instance.options = options_copy(host[h].options)
  BY <1>1, HostIs DEF Same
<1> HIDE DEF h
<1>3. ASSUME failing, Goes("size", h), UNCHANGED <<jvm, attached, host>>
      PROVE  Inv'
  <2>1. gateway'.at = "size" /\ gateway'.host = h /\ Counted' = Counted
    BY <1>1, <1>3, Went DEF Counted, Uncounted
  <2>2. Shapes'
    BY <1>1, <1>3, Went DEF Shapes, Uncounted
  <2>3. Hands' /\ Kept' /\ Same' /\ Works'
    BY <1>1, <1>3, <2>1 DEF Hands, Kept, Same, Works, Uncounted, CountedAt, h
  <2>4. Counts'
    BY <1>1, <2>1, CountedFinite DEF Counts, Underway, Shapes
  <2> QED BY <2>2, <2>3, <2>4
<1>4. ASSUME NEW e \in Threads \cup {NULL},
             host' = [host EXCEPT ![h].jvm = TRUE, ![h].env = e],
             jvm'.exists = TRUE, DOMAIN jvm'.args = 1 .. Cardinality(DOMAIN jvm'.args),
             ~failing => jvm'.args = init_vm_options(instance.options),
             attached' \subseteq Threads, Goes("add", h)
      PROVE  Inv'
  <2>1. /\ gateway'.at = "add" /\ gateway'.host = h
        /\ gateway' \in
             [at : Uncounted \cup CountedAt \cup {"starts", "crashed"}, host : Hosts]
    BY <1>1, <1>4, Went DEF Uncounted
  <2>2. host' = [host EXCEPT ![h] = [host[h] EXCEPT !.jvm = TRUE, !.env = e,
                   !.counted = FALSE, !.module = FALSE]]
    BY <1>1, <1>2, <1>4 DEF Shapes, HostData
  <2>3. /\ host' \in [Hosts -> HostData \cup {Unused}]
        /\ \A g \in Hosts \ {h} : host'[g] = host[g]
        /\ host'[h].used /\ host'[h].jvm /\ ~host'[h].counted
        /\ ~host'[h].module /\ host'[h].options = host[h].options
    BY <1>1, <1>4, <2>2, Written, ZenonT(30)
  <2>4. Counted' = Counted
    BY <1>1, <2>3, OneChanges
  <2>5. Shapes'
    BY <1>1, <1>4, <2>1, <2>3 DEF Shapes
  <2>6. Hands' /\ Kept'
    BY <1>1, <1>4, <2>1, <2>3 DEF Hands, Kept, Uncounted, CountedAt, h
  <2>7. Counts'
    BY <1>1, <2>1, <2>4, CountedFinite DEF Counts, Underway, Shapes
  <2>8. Same' /\ Works'
    BY <1>1, <1>2, <1>4, <2>1, <2>3 DEF Same, Works, Uncounted
  <2> QED BY <2>5, <2>6, <2>7, <2>8
<1>5. CASE /\ ~jvm.exists
           /\ jvm' = [exists |-> TRUE, args |-> init_vm_options(host[h].options)]
           /\ attached' = {"gateway"}
           /\ host' = [host EXCEPT ![h].jvm = TRUE, ![h].env = "gateway"]
           /\ Goes("add", h)
  <2>1. /\ jvm'.exists = TRUE /\ jvm'.args = init_vm_options(host[h].options)
        /\ host[h].options \in Options
    BY <1>2, <1>5 DEF HostData
  <2>2. /\ DOMAIN jvm'.args = 1 .. Cardinality(DOMAIN jvm'.args)
        /\ jvm'.args = init_vm_options(instance.options)
    BY <1>2, <2>1, ArgumentsAre, CopyServes
  <2> QED BY <1>4, <1>5, <2>1, <2>2 DEF Threads
<1>6. CASE /\ jvm.exists
           /\ host' = [host EXCEPT ![h].jvm = TRUE,
                         ![h].env = IF "gateway" \in attached THEN "gateway" ELSE NULL]
           /\ Goes("add", h)
           /\ UNCHANGED <<jvm, attached>>
  <2>1. /\ jvm'.exists = TRUE /\ DOMAIN jvm'.args = 1 .. Cardinality(DOMAIN jvm'.args)
        /\ attached' \subseteq Threads
    BY <1>6 DEF Shapes, NoJvm
  <2>2. ~failing => jvm'.args = init_vm_options(instance.options)
    BY <1>6 DEF Works
  <2> DEFINE e == IF "gateway" \in attached THEN "gateway" ELSE NULL
  <2>3. e \in Threads \cup {NULL} /\ host' = [host EXCEPT ![h].jvm = TRUE, ![h].env = e]
    BY <1>6 DEF Threads
  <2> HIDE DEF e
  <2> QED BY <1>4, <1>6, <2>1, <2>2, <2>3
<1> QED BY <1>3, <1>5, <1>6 DEF JVM_Create, h

LEMMA ManagerAddKeeps == ASSUME Inv, JavaModuleHostManager_Add PROVE Inv'
<1> DEFINE h == gateway.host
<1> USE DEF Inv
<1>1. /\ gateway.at = "add" /\ h \in Hosts /\ host[h].used /\ ~host[h].counted
      /\ ~host[h].module /\ worker[h] = "none" /\ jvm.exists /\ host[h].jvm
      /\ UNCHANGED <<jvm, attached, worker, lost, created, failing>>
  BY GatewayIs DEF JavaModuleHostManager_Add, Hands, Kept, Uncounted
<1>2. host[h] \in HostData /\ instance.exists /\ instance.options = options_copy(host[h].options)
  BY <1>1, HostIs DEF Same
<1> HIDE DEF h
<1>3. CASE failing /\ Goes("size", h) /\ UNCHANGED <<instance, host>>
  <2>1. gateway'.at = "size" /\ gateway'.host = h /\ Counted' = Counted
    BY <1>1, <1>3, Went DEF Counted, Uncounted
  <2>2. Shapes'
    BY <1>1, <1>3, Went DEF Shapes, Uncounted
  <2>3. Hands' /\ Kept' /\ Same' /\ Works'
    BY <1>1, <1>3, <2>1 DEF Hands, Kept, Same, Works, Uncounted, CountedAt, h
  <2>4. Counts'
    BY <1>1, <1>3, <2>1, CountedFinite DEF Counts, Underway, Shapes
  <2> QED BY <2>2, <2>3, <2>4
<1>4. CASE /\ instance' = [instance EXCEPT !.count = @ + 1]
           /\ host' = [host EXCEPT ![h].counted = TRUE]
           /\ Goes("construct", h)
  <2>1. /\ gateway'.at = "construct" /\ gateway'.host = h
        /\ gateway' \in
             [at : Uncounted \cup CountedAt \cup {"starts", "crashed"}, host : Hosts]
    BY <1>1, <1>4, Went DEF CountedAt
  <2>2. host' = [host EXCEPT ![h] = [host[h] EXCEPT !.jvm = TRUE, !.env = host[h].env,
                   !.counted = TRUE, !.module = FALSE]]
        /\ host[h].env \in Threads \cup {NULL}
    BY <1>1, <1>4, FieldsAre, ZenonT(30) DEF Shapes
  <2>3. /\ host' \in [Hosts -> HostData \cup {Unused}]
        /\ \A g \in Hosts \ {h} : host'[g] = host[g]
        /\ host'[h].used /\ host'[h].jvm /\ host'[h].counted
        /\ ~host'[h].module /\ host'[h].options = host[h].options
    BY <1>1, <2>2, Written
  <2>4. Cardinality(Counted') = Cardinality(Counted) + 1
    BY <1>1, <2>3, OneChanges
  <2>5. /\ instance' = [exists |-> TRUE, count |-> instance'.count,
                        options |-> instance'.options]
        /\ instance'.exists = TRUE /\ instance'.options = instance.options
        /\ instance'.count = instance.count + 1
        /\ instance.options \in Copies
    BY <1>2, <1>4, ManagerIs
  <2>6. Shapes'
    BY <1>1, <2>1, <2>3, <2>5 DEF Shapes
  <2>7. Hands' /\ Kept'
    BY <1>1, <2>1, <2>3 DEF Hands, Kept, Uncounted, CountedAt, h
  <2>8. Counts' /\ instance'.count > 0
    BY <1>1, <1>2, <2>1, <2>4, <2>5, CountedFinite DEF Counts, Underway, Shapes
  <2>9. Same'
    BY <1>1, <1>2, <2>3, <2>5 DEF Same
  <2>10. Works'
    BY <1>1, <1>2, <2>1, <2>5, <2>8, CountedFinite DEF Works, Shapes
  <2> QED BY <2>6, <2>7, <2>8, <2>9, <2>10
<1> QED BY <1>3, <1>4 DEF JavaModuleHostManager_Add, h

LEMMA ConstructKeeps == ASSUME Inv, Construct PROVE Inv'
<1> DEFINE h == gateway.host
<1> USE DEF Inv
<1>1. /\ gateway.at = "construct" /\ h \in Hosts /\ host[h].used /\ host[h].counted
      /\ ~host[h].module /\ worker[h] = "none" /\ jvm.exists /\ host[h].jvm
      /\ UNCHANGED <<instance, jvm, lost, attached, created, failing>>
  BY GatewayIs DEF Construct, Hands, Kept, CountedAt, machine
<1>2. /\ host[h] \in HostData /\ instance.exists /\ instance.count > 0
      /\ instance.options = options_copy(host[h].options)
  BY <1>1, HostIs, CountedOnes
<1> HIDE DEF h
<1>3. CASE UNCHANGED <<host, worker>> /\ \E a \in {"crashed", "remove"} : Goes(a, h)
  <2>1. PICK a \in {"crashed", "remove"} : Goes(a, h)
    BY <1>3
  <2>2. /\ gateway'.at = a /\ gateway'.host = h /\ Counted' = Counted
        /\ gateway' \in
             [at : Uncounted \cup CountedAt \cup {"starts", "crashed"}, host : Hosts]
    BY <1>1, <1>3, <2>1, Went DEF Counted, CountedAt
  <2>3. Shapes'
    BY <1>1, <1>3, <2>2 DEF Shapes
  <2>4. Hands' /\ Kept' /\ Same'
    BY <1>1, <1>3, <2>2 DEF Hands, Kept, Same, Uncounted, CountedAt, h
  <2>5. Works'
    BY <1>1, <1>2, <1>3, <2>2, CountedFinite DEF Works, Counts, Shapes
  <2>6. Counts'
    BY <1>1, <2>2, CountedFinite DEF Counts, Underway, Shapes
  <2> QED BY <2>3, <2>4, <2>5, <2>6
<1>4. CASE /\ host' = [host EXCEPT ![h].module = TRUE]
           /\ worker' = [worker EXCEPT ![h] = "idle"]
           /\ gateway' = Idle
  <2>1. host' = [host EXCEPT ![h] = [host[h] EXCEPT !.jvm = TRUE, !.env = host[h].env,
                   !.counted = TRUE, !.module = TRUE]]
        /\ host[h].env \in Threads \cup {NULL}
    BY <1>1, <1>4, FieldsAre, ZenonT(30) DEF Shapes
  <2>2. /\ host' \in [Hosts -> HostData \cup {Unused}]
        /\ \A g \in Hosts \ {h} : host'[g] = host[g]
        /\ host'[h].used /\ host'[h].jvm /\ host'[h].counted
        /\ host'[h].options = host[h].options
    BY <1>1, <2>1, Written
  <2>3. Counted' = Counted /\ gateway'.at = "idle"
    BY <1>1, <1>4, <2>2, OneChanges DEF Idle
  <2>4. \A g \in Hosts \ {h} : worker'[g] = worker[g]
    BY <1>4 DEF Shapes
  <2>5. Shapes'
    BY <1>1, <1>4, <2>2 DEF Shapes
  <2>6. Hands'
    BY <2>3 DEF Hands, Uncounted, CountedAt
  <2>7. Kept'
    BY <1>1, <2>2, <2>3, <2>4 DEF Kept, Uncounted
  <2>8. Counts'
    BY <1>1, <2>3, CountedFinite DEF Counts, Underway, Shapes
  <2>9. Same' /\ Works'
    BY <1>1, <1>2, <2>2, <2>3, CountedFinite DEF Same, Works, Counts, Shapes
  <2> QED BY <2>5, <2>6, <2>7, <2>8, <2>9
<1> QED BY <1>3, <1>4 DEF Construct, h

-----------------------------------------------------------------------------
(* destroy_module_internal *)

LEMMA ManagerRemoveKeeps == ASSUME Inv, ManagerRemove PROVE Inv'
<1> DEFINE h == gateway.host
<1> USE DEF Inv
<1>1. /\ gateway.at = "remove" /\ h \in Hosts /\ host[h].used /\ host[h].counted
      /\ ~host[h].module /\ worker[h] = "none" /\ jvm.exists /\ host[h].jvm
      /\ UNCHANGED <<jvm, attached, worker, created, failing>>
  BY GatewayIs DEF ManagerRemove, Hands, Kept, CountedAt
<1>2. /\ host[h] \in HostData /\ instance.exists /\ instance.count > 0
      /\ instance.options = options_copy(host[h].options)
  BY <1>1, HostIs, CountedOnes
<1>3. /\ Goes("size", h) /\ host' = [host EXCEPT ![h].counted = FALSE]
      /\ \/ instance' = [instance EXCEPT !.count = @ - 1] /\ UNCHANGED lost
         \/ failing /\ lost' = lost + 1 /\ UNCHANGED instance
  <2>1. instance.count # 0
    BY <1>1, CountedOnes
  <2> QED BY <2>1 DEF ManagerRemove
<1> HIDE DEF h
<1>4. /\ gateway'.at = "size" /\ gateway'.host = h
      /\ gateway' \in
           [at : Uncounted \cup CountedAt \cup {"starts", "crashed"}, host : Hosts]
  BY <1>1, <1>3, Went DEF Uncounted
<1>5. host' = [host EXCEPT ![h] = [host[h] EXCEPT !.jvm = TRUE, !.env = host[h].env,
                 !.counted = FALSE, !.module = FALSE]]
      /\ host[h].env \in Threads \cup {NULL}
  BY <1>1, <1>3, FieldsAre, ZenonT(30) DEF Shapes
<1>6. /\ host' \in [Hosts -> HostData \cup {Unused}]
      /\ \A g \in Hosts \ {h} : host'[g] = host[g]
      /\ host'[h].used /\ host'[h].jvm /\ ~host'[h].counted
      /\ ~host'[h].module /\ host'[h].options = host[h].options
  BY <1>1, <1>5, Written
<1>7. Cardinality(Counted') = Cardinality(Counted) - 1 /\ Cardinality(Counted) > 0
  BY <1>1, <1>6, OneChanges
<1>8. /\ instance' = [exists |-> TRUE, count |-> instance'.count,
                      options |-> instance'.options]
      /\ instance'.exists = TRUE /\ instance'.options = instance.options
      /\ instance.options \in Copies
      /\ \/ instance'.count = instance.count - 1 /\ lost' = lost
         \/ failing /\ instance'.count = instance.count /\ lost' = lost + 1
  BY <1>2, <1>3, ManagerIs
<1>9. lost' \in Nat
  BY <1>8 DEF Shapes
<1>10. Shapes'
  BY <1>1, <1>4, <1>6, <1>8, <1>9 DEF Shapes
<1>11. Hands' /\ Kept'
  BY <1>1, <1>4, <1>6 DEF Hands, Kept, Uncounted, CountedAt, h
<1>12. Counts'
  BY <1>1, <1>2, <1>4, <1>7, <1>8, CountedFinite DEF Counts, Underway, Shapes
<1>13. Same' /\ Works'
  BY <1>1, <1>2, <1>4, <1>6, <1>8 DEF Same, Works, Uncounted
<1> QED BY <1>10, <1>11, <1>12, <1>13

LEMMA ManagerSizeKeeps == ASSUME Inv, ManagerSize PROVE Inv'
<1> DEFINE h == gateway.host
<1> USE DEF Inv
<1>1. /\ gateway.at = "size" /\ h \in Hosts /\ host[h].used /\ ~host[h].counted
      /\ ~host[h].module /\ worker[h] = "none" /\ instance.exists
      /\ UNCHANGED <<instance, jvm, lost, attached, host, worker, created, failing>>
  BY GatewayIs DEF ManagerSize, Hands, Kept, Same, Uncounted, machine
<1>2. PICK a \in {"unload", "manager"} :
        /\ Goes(a, h) /\ (a = "unload" => instance.count = 0)
        /\ a = "manager" => instance.count # 0 \/ ~host[h].jvm \/ failing
  BY DEF ManagerSize
<1> HIDE DEF h
<1>3. /\ gateway'.at = a /\ gateway'.host = h /\ Counted' = Counted
      /\ gateway' \in
           [at : Uncounted \cup CountedAt \cup {"starts", "crashed"}, host : Hosts]
  BY <1>1, <1>2, Went DEF Counted, Uncounted
<1>4. Shapes'
  BY <1>1, <1>3 DEF Shapes
<1>5. Hands' /\ Kept' /\ Same'
  BY <1>1, <1>2, <1>3 DEF Hands, Kept, Same, Uncounted, CountedAt, h
<1>6. Counts'
  BY <1>1, <1>3, CountedFinite DEF Counts, Underway, Shapes
<1>7. Works'
  BY <1>1, <1>2, <1>3 DEF Works, Uncounted, h
<1> QED BY <1>4, <1>5, <1>6, <1>7

LEMMA JvmDestroyKeeps == ASSUME Inv, JVM_Destroy PROVE Inv'
<1> DEFINE h == gateway.host
<1> USE DEF Inv
<1>1. /\ gateway.at = "unload" /\ h \in Hosts /\ host[h].used /\ ~host[h].counted
      /\ ~host[h].module /\ worker[h] = "none" /\ instance.exists /\ instance.count = 0
      /\ Goes("manager", h)
      /\ UNCHANGED <<instance, lost, host, worker, created, failing>>
  BY GatewayIs DEF JVM_Destroy, Hands, Kept, Same, Uncounted
<1>2. \/ jvm' = NoJvm /\ attached' = {}
      \/ failing /\ UNCHANGED <<jvm, attached>>
  BY DEF JVM_Destroy
<1> HIDE DEF h
<1>3. /\ gateway'.at = "manager" /\ gateway'.host = h /\ Counted' = Counted
      /\ gateway' \in
           [at : Uncounted \cup CountedAt \cup {"starts", "crashed"}, host : Hosts]
  BY <1>1, Went DEF Counted, Uncounted
<1>4. \A g \in Hosts : ~(host[g].used /\ host[g].counted)
  BY <1>1, CountedOnes
<1>5. Shapes'
  BY <1>1, <1>2, <1>3 DEF Shapes
<1>6. Hands' /\ Kept' /\ Same'
  BY <1>1, <1>3, <1>4 DEF Hands, Kept, Same, Uncounted, CountedAt, h
<1>7. Counts'
  BY <1>1, <1>3, CountedFinite DEF Counts, Underway, Shapes
<1>8. Works'
  <2>1. ~failing => jvm'.exists = FALSE
    BY <1>2 DEF NoJvm
  <2> QED BY <1>1, <1>3, <2>1 DEF Works, Uncounted
<1> QED BY <1>5, <1>6, <1>7, <1>8

LEMMA ManagerDestroyKeeps == ASSUME Inv, JavaModuleHostManager_Destroy PROVE Inv'
<1> DEFINE h == gateway.host
<1> USE DEF Inv
<1>1. /\ gateway.at = "manager" /\ h \in Hosts /\ host[h].used /\ ~host[h].counted
      /\ worker[h] = "none" /\ instance.exists
      /\ host' = [host EXCEPT ![h] = Unused] /\ gateway' = Idle
      /\ UNCHANGED <<jvm, attached, worker, lost, created, failing>>
  BY GatewayIs DEF JavaModuleHostManager_Destroy, Hands, Same, Uncounted
<1>2. \/ instance.count = 0 /\ instance' = NoManager
      \/ (instance.count # 0 \/ failing) /\ UNCHANGED instance
  BY DEF JavaModuleHostManager_Destroy
<1>3. \A g \in Hosts \ {h} : host[g].used => host[g].counted
  BY <1>1 DEF Kept
<1> HIDE DEF h
<1>4. /\ host' \in [Hosts -> HostData \cup {Unused}]
      /\ \A g \in Hosts \ {h} : host'[g] = host[g]
      /\ ~host'[h].used
  BY <1>1, GivenUp
<1>5. Counted' = Counted /\ gateway'.at = "idle"
  BY <1>1, <1>4, OneChanges DEF Idle
<1>6. Hands' /\ Kept'
  BY <1>1, <1>3, <1>4, <1>5 DEF Hands, Kept, Uncounted, CountedAt
<1>7. CASE instance.count = 0 /\ instance' = NoManager
  <2>1. instance'.exists = FALSE
    BY <1>7 DEF NoManager
  <2>2. \A g \in Hosts : ~host'[g].used
    BY <1>3, <1>4, <1>7, CountedOnes
  <2>3. Shapes'
    BY <1>1, <1>4, <1>7 DEF Shapes
  <2>4. Counts'
    BY <1>1, <1>5, <1>7, <2>1, CountedFinite DEF Counts, Underway, Shapes
  <2>5. Same' /\ Works'
    BY <1>1, <1>5, <1>7, <2>1, <2>2 DEF Same, Works
  <2> QED BY <1>6, <2>3, <2>4, <2>5
<1>8. CASE (instance.count # 0 \/ failing) /\ UNCHANGED instance
  <2>1. Shapes'
    BY <1>1, <1>4, <1>8 DEF Shapes
  <2>2. Counts'
    BY <1>1, <1>5, <1>8, CountedFinite DEF Counts, Underway, Shapes
  <2>3. Same' /\ Works'
    BY <1>1, <1>4, <1>5, <1>8 DEF Same, Works
  <2> QED BY <1>6, <2>1, <2>2, <2>3
<1> QED BY <1>2, <1>7, <1>8

-----------------------------------------------------------------------------
(* Start, Receive and Destroy *)

\* A call that writes at most the environment of a host.
LEMMA EnvironmentWritten ==
  ASSUME Inv, NEW h \in Hosts, NEW e \in Threads,
         \/ UNCHANGED host
         \/ host[h].used /\ host' = [host EXCEPT ![h].env = e]
  PROVE  /\ host' \in [Hosts -> HostData \cup {Unused}]
         /\ \A g \in Hosts : /\ host'[g].used = host[g].used
                             /\ host'[g].counted = host[g].counted
                             /\ host'[g].jvm = host[g].jvm
                             /\ host'[g].module = host[g].module
                             /\ host'[g].options = host[g].options
         /\ Counted' = Counted
<1>1. Shapes
  BY DEF Inv
<1>2. CASE UNCHANGED host
  BY <1>1, <1>2 DEF Shapes, Counted
<1>3. CASE host[h].used /\ host' = [host EXCEPT ![h].env = e]
  <2> DEFINE x == [host[h] EXCEPT !.env = e]
  <2>1. /\ x \in HostData /\ x.used = host[h].used /\ x.jvm = host[h].jvm
        /\ x.counted = host[h].counted /\ x.module = host[h].module
        /\ x.options = host[h].options
    BY <1>1, <1>3, HostIs DEF HostData
  <2>2. /\ host' \in [Hosts -> HostData \cup {Unused}] /\ host'[h] = x
        /\ \A g \in Hosts \ {h} : host'[g] = host[g]
    BY <1>1, <1>3, <2>1 DEF Shapes
  <2> HIDE DEF x
  <2>3. Counted' = Counted
    BY <2>1, <2>2, OneChanges
  <2> QED BY <2>1, <2>2, <2>3
<1> QED BY <1>2, <1>3

\* Such a call keeps everything, wherever it takes a worker or leaves the thread.
LEMMA EnvironmentKeeps ==
  ASSUME Inv, NEW h \in Hosts, NEW e \in Threads,
         \/ UNCHANGED host
         \/ host[h].used /\ host' = [host EXCEPT ![h].env = e],
         attached' \subseteq Threads, UNCHANGED <<instance, jvm, lost, created, failing>>,
         worker' \in [Hosts -> {"none", "idle", "calls"}],
         \A g \in Hosts : worker'[g] = "none" <=> worker[g] = "none",
         UNCHANGED gateway \/ (gateway = Idle /\ Goes("starts", h))
           \/ (gateway.at = "starts" /\ gateway' = Idle)
  PROVE  Inv'
<1>1. /\ host' \in [Hosts -> HostData \cup {Unused}]
      /\ \A g \in Hosts : /\ host'[g].used = host[g].used
                          /\ host'[g].counted = host[g].counted
                          /\ host'[g].jvm = host[g].jvm
                          /\ host'[g].module = host[g].module
                          /\ host'[g].options = host[g].options
      /\ Counted' = Counted
  BY EnvironmentWritten
<1>2. \/ UNCHANGED gateway
      \/ {gateway.at, gateway'.at} \subseteq {"idle", "starts"}
  BY Went DEF Idle, Goes
<1>3. Shapes'
  BY <1>1, Went DEF Inv, Shapes
<1>4. Hands' /\ Kept' /\ Same' /\ Works'
  BY <1>1, <1>2, GatewayIs DEF Inv, Hands, Kept, Same, Works, Uncounted, CountedAt
<1>5. Counts'
  BY <1>1, <1>2, CountedFinite DEF Inv, Counts, Underway, Shapes
<1> QED BY <1>3, <1>4, <1>5 DEF Inv

LEMMA StartKeeps ==
  ASSUME Inv, NEW h \in Hosts, JavaModuleHost_Start(h)
  PROVE  Inv'
<1>1. /\ gateway = Idle /\ host[h].used
      /\ UNCHANGED <<instance, jvm, lost, worker, created, failing>>
      /\ \/ /\ attached' = attached \cup {"gateway"}
            /\ host' = [host EXCEPT ![h].env = "gateway"] /\ Goes("starts", h)
         \/ UNCHANGED <<attached, host, gateway>>
  BY DEF JavaModuleHost_Start, machine
<1>2. attached' \subseteq Threads /\ "gateway" \in Threads
      /\ worker' \in [Hosts -> {"none", "idle", "calls"}]
  BY <1>1 DEF Inv, Shapes, Threads
<1> QED BY <1>1, <1>2, EnvironmentKeeps

LEMMA StartReturnsKeeps == ASSUME Inv, StartReturns PROVE Inv'
<1>1. /\ gateway.at = "starts" /\ gateway' = Idle /\ gateway.host \in Hosts
      /\ UNCHANGED <<instance, jvm, lost, host, worker, created, failing>>
      /\ attached' = attached \ {"gateway"} \/ UNCHANGED attached
  BY GatewayIs DEF StartReturns, machine, Inv
<1>2. attached' \subseteq Threads /\ "gateway" \in Threads
      /\ worker' \in [Hosts -> {"none", "idle", "calls"}]
  BY <1>1 DEF Inv, Shapes, Threads
<1> QED BY <1>1, <1>2, EnvironmentKeeps

LEMMA ReceiveKeeps ==
  ASSUME Inv, NEW h \in Hosts, JavaModuleHost_Receive(h)
  PROVE  Inv'
<1>1. /\ worker[h] = "idle"
      /\ UNCHANGED <<instance, jvm, lost, gateway, created, failing>>
      /\ \/ /\ attached' = attached \cup {h}
            /\ host' = [host EXCEPT ![h].env = h]
            /\ worker' = [worker EXCEPT ![h] = "calls"]
         \/ UNCHANGED <<attached, host, worker>>
  BY DEF JavaModuleHost_Receive, machine
<1>2. host[h].used
  BY <1>1 DEF Inv, Kept
<1>3. /\ attached' \subseteq Threads /\ h \in Threads
      /\ worker' \in [Hosts -> {"none", "idle", "calls"}]
      /\ \A g \in Hosts : worker'[g] = "none" <=> worker[g] = "none"
  BY <1>1 DEF Inv, Shapes, Threads
<1> QED BY <1>1, <1>2, <1>3, EnvironmentKeeps

LEMMA ReceiveReturnsKeeps ==
  ASSUME Inv, NEW h \in Hosts, ReceiveReturns(h)
  PROVE  Inv'
<1>1. /\ worker[h] = "calls" /\ attached' = attached \ {h}
      /\ worker' = [worker EXCEPT ![h] = "idle"]
      /\ UNCHANGED <<instance, jvm, lost, host, gateway, created, failing>>
  BY DEF ReceiveReturns, machine
<1>2. /\ attached' \subseteq Threads /\ h \in Threads
      /\ worker' \in [Hosts -> {"none", "idle", "calls"}]
      /\ \A g \in Hosts : worker'[g] = "none" <=> worker[g] = "none"
  BY <1>1 DEF Inv, Shapes, Threads
<1> QED BY <1>1, <1>2, EnvironmentKeeps

\* A host that was counted is given up and its count is lost.
LEMMA LostKeeps ==
  ASSUME Inv, NEW h \in Hosts, host[h].used, host[h].counted,
         gateway = Idle \/ (gateway.at \in CountedAt /\ gateway.host = h),
         host' = [host EXCEPT ![h] = Unused], lost' = lost + 1, gateway' = Idle,
         attached' \subseteq Threads, UNCHANGED <<instance, jvm, created, failing>>,
         worker' = [worker EXCEPT ![h] = "none"]
  PROVE  Inv'
<1> USE DEF Inv
<1>1. /\ host' \in [Hosts -> HostData \cup {Unused}]
      /\ \A g \in Hosts \ {h} : host'[g] = host[g]
      /\ ~host'[h].used
  BY GivenUp
<1>2. Cardinality(Counted') = Cardinality(Counted) - 1 /\ Cardinality(Counted) > 0
  BY <1>1, OneChanges
<1>3. instance.exists /\ instance.count > 0 /\ instance.count \in Nat
  BY CountedOnes
<1>4. gateway'.at = "idle" /\ gateway.at \in CountedAt \cup {"idle"}
  BY DEF Idle
<1>5. /\ \A g \in Hosts \ {h} : worker'[g] = worker[g]
      /\ worker'[h] = "none" /\ worker' \in [Hosts -> {"none", "idle", "calls"}]
  BY DEF Shapes
<1>6. Shapes'
  BY <1>1, <1>5 DEF Shapes
<1>7. Hands' /\ Kept'
  BY <1>1, <1>4, <1>5 DEF Hands, Kept, Uncounted, CountedAt
<1>8. Counts'
  BY <1>2, <1>3, <1>4, CountedFinite DEF Counts, Underway, Shapes, CountedAt
<1>9. Same' /\ Works'
  BY <1>1, <1>3, <1>4 DEF Same, Works, Uncounted
<1> QED BY <1>6, <1>7, <1>8, <1>9

LEMMA DestroyKeeps ==
  ASSUME Inv, NEW h \in Hosts, JavaModuleHost_Destroy(h)
  PROVE  Inv'
<1> USE DEF Inv
<1>1. /\ gateway = Idle /\ gateway.at = "idle" /\ worker[h] = "idle"
      /\ host[h].used /\ host[h].counted /\ jvm.exists /\ host[h].jvm
      /\ worker' = [worker EXCEPT ![h] = "none"]
      /\ UNCHANGED <<instance, jvm, created, failing>>
  BY DEF JavaModuleHost_Destroy, Kept, Idle
<1>2. CASE /\ host' = [host EXCEPT ![h] = Unused] /\ lost' = lost + 1
           /\ UNCHANGED <<attached, gateway>>
  BY <1>1, <1>2, LostKeeps DEF Shapes
<1>3. CASE /\ attached' = attached \cup {"gateway"}
           /\ host' = [host EXCEPT ![h].env = "gateway"]
           /\ Goes("destroys", h) /\ UNCHANGED lost
  <2>1. /\ host' \in [Hosts -> HostData \cup {Unused}]
        /\ \A g \in Hosts : /\ host'[g].used = host[g].used
                            /\ host'[g].counted = host[g].counted
                            /\ host'[g].jvm = host[g].jvm
                            /\ host'[g].module = host[g].module
                            /\ host'[g].options = host[g].options
        /\ Counted' = Counted
    BY <1>1, <1>3, EnvironmentWritten DEF Threads
  <2>2. /\ gateway'.at = "destroys" /\ gateway'.host = h
        /\ gateway' \in
             [at : Uncounted \cup CountedAt \cup {"starts", "crashed"}, host : Hosts]
    BY <1>3, Went DEF CountedAt
  <2>3. /\ \A g \in Hosts \ {h} : worker'[g] = worker[g]
        /\ worker'[h] = "none" /\ worker' \in [Hosts -> {"none", "idle", "calls"}]
    BY <1>1 DEF Shapes
  <2>4. Shapes'
    BY <1>1, <1>3, <2>1, <2>2, <2>3 DEF Shapes, Threads
  <2>5. Hands' /\ Kept'
    BY <1>1, <2>1, <2>2, <2>3 DEF Hands, Kept, Uncounted, CountedAt
  <2>6. Counts'
    BY <1>1, <1>3, <2>1, <2>2, CountedFinite DEF Counts, Underway, Shapes
  <2>7. Same' /\ Works'
    <3>1. instance.exists /\ instance.count > 0 /\ instance.count \in Nat
      BY <1>1, CountedOnes
    <3> QED BY <1>1, <2>1, <2>2, <3>1 DEF Same, Works, Uncounted
  <2> QED BY <2>4, <2>5, <2>6, <2>7
<1> QED BY <1>2, <1>3 DEF JavaModuleHost_Destroy

LEMMA DestroyCallsKeeps == ASSUME Inv, DestroyCalls PROVE Inv'
<1> DEFINE h == gateway.host
<1> USE DEF Inv
<1>1. /\ gateway.at = "destroys" /\ h \in Hosts /\ host[h].used /\ host[h].counted
      /\ worker[h] = "none" /\ jvm.exists /\ host[h].jvm
      /\ UNCHANGED <<instance, jvm, worker, created, failing>>
  BY GatewayIs DEF DestroyCalls, Hands, Kept, CountedAt
<1>2. /\ instance.exists /\ instance.count > 0 /\ instance.count \in Nat
  BY <1>1, CountedOnes
<1> HIDE DEF h
<1>3. CASE /\ host' = [host EXCEPT ![h] = Unused] /\ lost' = lost + 1
           /\ gateway' = Idle /\ UNCHANGED attached
  <2>1. worker' = [worker EXCEPT ![h] = "none"]
    BY <1>1 DEF Shapes
  <2> QED BY <1>1, <1>3, <2>1, LostKeeps DEF Shapes, CountedAt, h
<1>4. CASE /\ host' = [host EXCEPT ![h].module = FALSE]
           /\ attached' = attached \ {"gateway"} \/ UNCHANGED attached
           /\ Goes("remove", h) /\ UNCHANGED lost
  <2>1. host' = [host EXCEPT ![h] = [host[h] EXCEPT !.jvm = TRUE, !.env = host[h].env,
                   !.counted = TRUE, !.module = FALSE]]
        /\ host[h].env \in Threads \cup {NULL}
    BY <1>1, <1>4, FieldsAre, ZenonT(30) DEF Shapes
  <2>2. /\ host' \in [Hosts -> HostData \cup {Unused}]
        /\ \A g \in Hosts \ {h} : host'[g] = host[g]
        /\ host'[h].used /\ host'[h].jvm /\ host'[h].counted
        /\ ~host'[h].module /\ host'[h].options = host[h].options
    BY <1>1, <2>1, Written
  <2>3. /\ gateway'.at = "remove" /\ gateway'.host = h
        /\ gateway' \in
             [at : Uncounted \cup CountedAt \cup {"starts", "crashed"}, host : Hosts]
    BY <1>1, <1>4, Went DEF CountedAt
  <2>4. Counted' = Counted
    BY <1>1, <2>2, OneChanges
  <2>5. Shapes'
    BY <1>1, <1>4, <2>2, <2>3 DEF Shapes
  <2>6. Hands' /\ Kept'
    BY <1>1, <2>2, <2>3 DEF Hands, Kept, Uncounted, CountedAt, h
  <2>7. Counts'
    BY <1>1, <1>4, <2>3, <2>4, CountedFinite DEF Counts, Underway, Shapes
  <2>8. Same' /\ Works'
    BY <1>1, <1>2, <2>2, <2>3 DEF Same, Works, Uncounted
  <2> QED BY <2>5, <2>6, <2>7, <2>8
<1> QED BY <1>3, <1>4 DEF DestroyCalls, h

-----------------------------------------------------------------------------
(* The theorem *)

LEMMA StepInv == Inv /\ [Next]_vars => Inv'
<1> SUFFICES ASSUME Inv, [Next]_vars PROVE Inv'
  OBVIOUS
<1>1. CASE UNCHANGED vars
  <2>1. Counted' = Counted /\ Underway' = Underway
    BY <1>1 DEF vars, Counted, Underway
  <2> QED BY <1>1, <2>1 DEF vars, Inv, Shapes, Hands, Kept, Counts, Same, Works
<1>2. CASE GatewayGoesOn
  BY <1>2, JvmCreateKeeps, ManagerAddKeeps, ConstructKeeps, ManagerRemoveKeeps,
     ManagerSizeKeeps, JvmDestroyKeeps, ManagerDestroyKeeps, StartReturnsKeeps,
     DestroyCallsKeeps DEF GatewayGoesOn
<1>3. ASSUME NEW h \in Hosts,
             \/ JavaModuleHostManager_Create(h) \/ JavaModuleHost_Start(h)
             \/ JavaModuleHost_Destroy(h) \/ JavaModuleHost_Receive(h)
             \/ ReceiveReturns(h)
      PROVE  Inv'
  BY <1>3, ManagerCreateKeeps, StartKeeps, DestroyKeeps, ReceiveKeeps,
     ReceiveReturnsKeeps
<1> QED BY <1>1, <1>2, <1>3 DEF Next

\* The invariant holds at all times.
THEOREM InvAlways == Spec => []Inv
<1> QED BY InitInv, StepInv, PTL DEF Spec

\* The machine has the options of the host, when no library fails.
LEMMA MachineServes ==
  ASSUME Inv, NEW h \in Hosts, host[h].used, jvm.exists, ~failing
  PROVE  jvm.args = init_vm_options(host[h].options)
<1>1. host[h].options \in Options
  BY FieldsAre DEF Inv
<1> QED BY <1>1, CopyServes DEF Inv, Same, Works

\* Whatever fails: the manager counts the modules that are added and not removed,
\* with those that were lost; a Java module has its machine and its manager, and,
\* when no library fails, a machine with its options; and machine and manager go
\* with the last module.
THEOREM HostsCorrect == Spec => []HostInv
<1>1. Inv => HostInv
  <2> SUFFICES ASSUME Inv PROVE HostInv
    OBVIOUS
  <2>1. TypeOK
    <3>1. instance.exists => instance.count \in 0 .. MaxCreations
      BY CountedFinite, CreationsAssumption DEF Inv, Counts, Shapes, Underway
    <3>2. \A h \in Hosts : host[h].used => host[h].env \in Hosts \cup {"gateway", NULL}
      BY FieldsAre DEF Inv, Threads
    <3>3. gateway.at \in {"idle", "jvm", "add", "construct", "remove", "size", "unload",
                          "manager", "starts", "destroys", "crashed"}
      BY GatewayIs DEF Inv, Uncounted, CountedAt
    <3>4. jvm.exists => DOMAIN jvm.args = 1 .. Cardinality(DOMAIN jvm.args)
      BY DEF Inv, Shapes, NoJvm
    <3> QED BY <3>1, <3>2, <3>3, <3>4 DEF TypeOK, Inv, Shapes, Threads
  <2>2. CountIsRight
    BY DEF Inv, Counts, Counted, CountIsRight
  <2>3. MachineUnderModules
    <3>1. \A h \in Hosts : host[h].used /\ host[h].module => host[h].counted
      BY DEF Inv, Kept
    <3> QED BY <3>1, CountedOnes, MachineServes DEF Inv, Kept, MachineUnderModules
  <2>4. NothingIsLeft
    <3> SUFFICES ASSUME gateway = Idle, ~failing, lost = 0, \A h \in Hosts : ~host[h].used
                 PROVE  ~jvm.exists /\ ~instance.exists
      BY DEF NothingIsLeft
    <3>1. Counted = {} /\ Cardinality(Counted) = 0 /\ gateway.at = "idle"
      BY FS_EmptySet DEF Counted, Idle
    <3> QED BY <3>1 DEF Inv, Counts, Works, Uncounted
  <2> QED BY <2>1, <2>2, <2>3, <2>4 DEF HostInv
<1> QED BY <1>1, InvAlways, PTL
=============================================================================
