------------------------------ MODULE JavaHost ------------------------------
(***************************************************************************)
(* bindings/java: modules written in Java, their hosts, the manager that   *)
(* counts them and the Java virtual machine they share.                    *)
(*                                                                         *)
(* One thread drives the gateway: it creates, starts and destroys hosts.   *)
(* Each host that was created has a worker of the broker, which calls      *)
(* JavaModuleHost_Receive until the gateway has joined it.  A call into    *)
(* Java needs the environment of the calling thread, which it has while it *)
(* is attached; a host keeps one environment, in its field env, for        *)
(* whichever thread attached last.                                         *)
(***************************************************************************)
EXTENDS Integers, Sequences, FiniteSets, SequencesExt

CONSTANTS
  Hosts,        \* names of Java modules
  Configs,      \* JSON configurations, see below
  MaxCreations, \* bound: calls of JavaModuleHost_Create
  NULL

ASSUME HostsAssumption ==
  IsFiniteSet(Hosts) /\ "gateway" \notin Hosts /\ NULL \notin Hosts \cup {"gateway"}
ASSUME CreationsAssumption == MaxCreations \in Nat

\* A JSON configuration.  The class path may be missing; options that are not
\* given are none.
Configuration(c) ==
  /\ c = [class_path |-> c.class_path, debug |-> c.debug, verbose |-> c.verbose,
          additional |-> c.additional]
  /\ {c.debug, c.verbose} \subseteq BOOLEAN
  /\ c.additional \in Seq(STRING)
ASSUME ConfigsAssumption ==
  (\A c \in Configs : Configuration(c)) /\ NULL \notin Seq(STRING)

VARIABLES
  instance,     \* the manager: its count and its copy of the options
  jvm,          \* the machine: the arguments it was created with
  attached,     \* threads attached to the machine
  host,         \* host[h]: JAVA_MODULE_HANDLE_DATA, or Unused
  gateway,      \* what the gateway's thread is doing, and for which host
  worker,       \* worker[h]: "none", "idle", "calls", "returns"
  lost,         \* counts of hosts that are not to be given back, a history
  created,      \* calls of Create, a history
  failing       \* whether calls of libraries fail in this behaviour

vars == <<instance, jvm, attached, host, gateway, worker, lost, created, failing>>
machine == <<instance, jvm, lost>>

NoManager == [exists |-> FALSE]
NoJvm == [exists |-> FALSE]
Unused == [used |-> FALSE]
NewHost(options) ==
  [used |-> TRUE, jvm |-> FALSE, env |-> NULL, counted |-> FALSE, module |-> FALSE,
   options |-> options]
Idle == [at |-> "idle"]

Init ==
  /\ instance = NoManager /\ jvm = NoJvm /\ attached = {}
  /\ host = [h \in Hosts |-> Unused]
  /\ gateway = Idle
  /\ worker = [h \in Hosts |-> "none"]
  /\ lost = 0 /\ created = 0 /\ failing \in BOOLEAN

----------------------------------------------------------------------------
(* Options.  A configuration is [class_path, debug, verbose, additional];  *)
(* the other fields of JVM_OPTIONS are treated as one of these.            *)

\* No additional options are no vector.
parse_jvm_options_internal(json) ==
  [json EXCEPT !.additional = IF @ = <<>> THEN NULL ELSE @]

\* The copy of no vector is an empty one.
options_copy(options) ==
  [options EXCEPT !.additional = IF @ = NULL THEN <<>> ELSE @]

VECTOR_compare(v, w) == v # NULL /\ w # NULL /\ v = w
config_options_compare(kept, options) ==
  /\ kept.class_path = options.class_path
  /\ kept.debug = options.debug /\ kept.verbose = options.verbose
  /\ VECTOR_compare(kept.additional, options.additional)

options_count(options) ==
  1 + (IF options.debug THEN 3 ELSE 0) + (IF options.verbose THEN 1 ELSE 0)
    + Len(options_copy(options).additional)
options_strings(options) ==
  <<options.class_path>>
    \o (IF options.debug THEN <<"-Xrs", "-Xdebug", "-Xrunjdwp">> ELSE <<>>)
    \o (IF options.verbose THEN <<"-verbose:class">> ELSE <<>>)
    \o options_copy(options).additional

\* The array has one entry for each option counted and is filled from its end.
init_vm_options(options) ==
  LET n == options_count(options)
  IN  [i \in (n + 1 - Len(options_strings(options))) .. n |->
         options_strings(options)[n + 1 - i]]

----------------------------------------------------------------------------
(* JavaModuleHost_Create                                                   *)

Goes(to, h) == gateway' = [at |-> to, host |-> h]

\* The singleton.  A second configuration must be equal to the first; one with
\* no class path, which strcmp is given, crashes the process.
JavaModuleHostManager_Create(h) ==
  /\ gateway = Idle /\ host[h] = Unused /\ created < MaxCreations
  /\ created' = created + 1
  /\ \E json \in Configs :
       LET options == parse_jvm_options_internal(json)
       IN  \/ /\ ~instance.exists /\ options.class_path # NULL
              /\ instance' = [exists |-> TRUE, count |-> 0, options |-> options_copy(options)]
              /\ host' = [host EXCEPT ![h] = NewHost(options)]
              /\ Goes("jvm", h)
           \/ /\ instance.exists /\ config_options_compare(instance.options, options)
              /\ host' = [host EXCEPT ![h] = NewHost(options)]
              /\ Goes("jvm", h) /\ UNCHANGED instance
           \/ /\ instance.exists /\ options.class_path = NULL
              /\ Goes("crashed", h) /\ UNCHANGED <<instance, host>>
           \/ /\ \/ failing
                 \/ ~instance.exists /\ options.class_path = NULL
                 \/ /\ instance.exists /\ options.class_path # NULL
                    /\ ~config_options_compare(instance.options, options)
              /\ UNCHANGED <<instance, host, gateway>>
  /\ UNCHANGED <<jvm, attached, worker, lost, failing>>

(* The first host creates the machine, which attaches the thread.  A later *)
(* one asks for the environment of the thread and does not look at the     *)
(* answer of GetEnv: a thread that is not attached gets none, and          *)
(* JVM_Create reports success.                                             *)
JVM_Create ==
  /\ gateway.at = "jvm"
  /\ LET h == gateway.host
     IN  \/ /\ ~jvm.exists
            /\ jvm' = [exists |-> TRUE, args |-> init_vm_options(host[h].options)]
            /\ attached' = {"gateway"}
            /\ host' = [host EXCEPT ![h].jvm = TRUE, ![h].env = "gateway"]
            /\ Goes("add", h)
         \/ /\ jvm.exists
            /\ host' = [host EXCEPT ![h].jvm = TRUE,
                          ![h].env = IF "gateway" \in attached THEN "gateway" ELSE NULL]
            /\ Goes("add", h)
            /\ UNCHANGED <<jvm, attached>>
         \/ failing /\ Goes("size", h) /\ UNCHANGED <<jvm, attached, host>>
  /\ UNCHANGED <<instance, worker, lost, created, failing>>

JavaModuleHostManager_Add ==
  /\ gateway.at = "add"
  /\ LET h == gateway.host
     IN  \/ /\ instance' = [instance EXCEPT !.count = @ + 1]
            /\ host' = [host EXCEPT ![h].counted = TRUE]
            /\ Goes("construct", h)
         \/ failing /\ Goes("size", h) /\ UNCHANGED <<instance, host>>
  /\ UNCHANGED <<jvm, attached, worker, lost, created, failing>>

\* FindClass up to NewGlobalRef.  A class may be missing and a constructor may
\* throw; without an environment the process crashes.
Construct ==
  /\ gateway.at = "construct"
  /\ LET h == gateway.host
     IN  \/ host[h].env = NULL /\ Goes("crashed", h) /\ UNCHANGED <<host, worker>>
         \/ /\ host[h].env # NULL
            /\ host' = [host EXCEPT ![h].module = TRUE]
            /\ worker' = [worker EXCEPT ![h] = "idle"]
            /\ gateway' = Idle
         \/ host[h].env # NULL /\ Goes("remove", h) /\ UNCHANGED <<host, worker>>
  /\ UNCHANGED <<machine, attached, created, failing>>

----------------------------------------------------------------------------
(* destroy_module_internal, in the steps of the manager and the machine    *)

\* Mutant: the count is given back twice.
ManagerRemove_twice ==
  /\ gateway.at = "remove" /\ instance.count >= 2
  /\ instance' = [instance EXCEPT !.count = @ - 2]
  /\ host' = [host EXCEPT ![gateway.host].counted = FALSE]
  /\ Goes("size", gateway.host)
  /\ UNCHANGED <<jvm, attached, worker, lost, created, failing>>
ManagerRemove ==
  /\ gateway.at = "remove"
  /\ \/ /\ instance.count > 0
        /\ instance' = [instance EXCEPT !.count = @ - 1] /\ UNCHANGED lost
     \/ (failing \/ instance.count = 0) /\ lost' = lost + 1 /\ UNCHANGED instance
  /\ host' = [host EXCEPT ![gateway.host].counted = FALSE]
  /\ Goes("size", gateway.host)
  /\ UNCHANGED <<jvm, attached, worker, created, failing>>

\* JavaModuleHostManager_Size is -1 when the lock cannot be taken.
ManagerSize ==
  /\ gateway.at = "size"
  /\ \/ instance.count = 0 /\ host[gateway.host].jvm /\ Goes("unload", gateway.host)
     \/ /\ instance.count # 0 \/ ~host[gateway.host].jvm \/ failing
        /\ Goes("manager", gateway.host)
  /\ UNCHANGED <<machine, attached, host, worker, created, failing>>

\* DestroyJavaVM waits for the other attached threads.
JVM_Destroy ==
  /\ gateway.at = "unload"
  /\ attached \subseteq {"gateway"}
  /\ \/ jvm' = NoJvm /\ attached' = {}
     \/ failing /\ UNCHANGED <<jvm, attached>>
  /\ Goes("manager", gateway.host)
  /\ UNCHANGED <<instance, host, worker, lost, created, failing>>

JavaModuleHostManager_Destroy ==
  /\ gateway.at = "manager"
  /\ \/ instance.count = 0 /\ instance' = NoManager
     \/ (instance.count # 0 \/ failing) /\ UNCHANGED instance
  /\ host' = [host EXCEPT ![gateway.host] = Unused]
  /\ gateway' = Idle
  /\ UNCHANGED <<jvm, attached, worker, lost, created, failing>>

----------------------------------------------------------------------------
(* Start, Receive and Destroy                                              *)

JavaModuleHost_Start(h) ==
  /\ gateway = Idle /\ host[h].used
  /\ \/ /\ attached' = attached \cup {"gateway"}
        /\ host' = [host EXCEPT ![h].env = "gateway"] /\ Goes("starts", h)
     \/ failing /\ UNCHANGED <<attached, host, gateway>>
  /\ UNCHANGED <<machine, worker, created, failing>>

\* start() is called if there is one, and may throw.
StartReturns ==
  /\ gateway.at = "starts"
  /\ attached' = attached \ {"gateway"} \/ (failing /\ UNCHANGED attached)
  /\ gateway' = Idle
  /\ UNCHANGED <<machine, host, worker, created, failing>>

JavaModuleHost_Receive(h) ==
  /\ worker[h] = "idle" /\ gateway.at # "crashed"
  /\ \/ /\ attached' = attached \cup {h}
        /\ host' = [host EXCEPT ![h].env = h]
        /\ worker' = [worker EXCEPT ![h] = "calls"]
     \/ failing /\ UNCHANGED <<attached, host, worker>>
  /\ UNCHANGED <<machine, gateway, created, failing>>

\* receive() is called if all that comes before succeeds, and may throw.
\* Mutant: an exception ends Receive at once.
ReceiveReturns_attached(h) ==
  /\ worker[h] = "calls" /\ gateway.at # "crashed"
  /\ attached' = attached \ {h} \/ UNCHANGED attached
  /\ worker' = [worker EXCEPT ![h] = "idle"]
  /\ UNCHANGED <<machine, host, gateway, created, failing>>
ReceiveReturns(h) ==
  /\ worker[h] = "calls" /\ gateway.at # "crashed"
  /\ attached' = attached \ {h}
  /\ worker' = [worker EXCEPT ![h] = "idle"]
  /\ UNCHANGED <<machine, host, gateway, created, failing>>

(* The gateway has joined the worker before.  A thread that cannot be      *)
(* attached ends Destroy: the host is not freed and stays counted.         *)
JavaModuleHost_Destroy(h) ==
  /\ gateway = Idle /\ worker[h] = "idle"
  /\ worker' = [worker EXCEPT ![h] = "none"]
  /\ \/ /\ attached' = attached \cup {"gateway"}
        /\ host' = [host EXCEPT ![h].env = "gateway"]
        /\ Goes("destroys", h) /\ UNCHANGED lost
     \/ /\ failing
        /\ host' = [host EXCEPT ![h] = Unused] /\ lost' = lost + 1
        /\ UNCHANGED <<attached, gateway>>
  /\ UNCHANGED <<instance, jvm, created, failing>>

\* So does a class without destroy(), which leaves the thread attached.
DestroyCalls ==
  /\ gateway.at = "destroys"
  /\ LET h == gateway.host
     IN  \/ /\ host' = [host EXCEPT ![h].module = FALSE]
            /\ attached' = attached \ {"gateway"} \/ (failing /\ UNCHANGED attached)
            /\ Goes("remove", h) /\ UNCHANGED lost
         \/ /\ host' = [host EXCEPT ![h] = Unused] /\ lost' = lost + 1
            /\ gateway' = Idle /\ UNCHANGED attached
  /\ UNCHANGED <<instance, jvm, worker, created, failing>>

GatewayGoesOn ==
  JVM_Create \/ JavaModuleHostManager_Add \/ Construct \/ ManagerRemove \/ ManagerSize
  \/ JVM_Destroy \/ JavaModuleHostManager_Destroy \/ StartReturns \/ DestroyCalls

Next ==
  \/ GatewayGoesOn
  \/ \E h \in Hosts :
       \/ JavaModuleHostManager_Create(h) \/ JavaModuleHost_Start(h) \/ JavaModuleHost_Destroy(h)
       \/ JavaModuleHost_Receive(h) \/ ReceiveReturns(h)

(* The threads go on with what they have begun; receive(), start() and     *)
(* destroy() of the modules return.                                        *)
Fairness == WF_vars(GatewayGoesOn) /\ \A h \in Hosts : WF_vars(ReceiveReturns(h))

Spec == Init /\ [][Next]_vars /\ Fairness

----------------------------------------------------------------------------
(* Properties                                                              *)

(* Every variable keeps its type; the arguments of the machine are the     *)
(* options counted for it, each in an entry of its own.                    *)
TypeOK ==
  /\ instance.exists => instance.count \in 0 .. MaxCreations
  /\ jvm.exists => DOMAIN jvm.args = 1 .. Cardinality(DOMAIN jvm.args)
  /\ attached \subseteq Hosts \cup {"gateway"}
  /\ \A h \in Hosts : host[h].used => host[h].env \in Hosts \cup {"gateway", NULL}
  /\ \A h \in Hosts : worker[h] \in {"none", "idle", "calls"}
  /\ gateway.at \in {"idle", "jvm", "add", "construct", "remove", "size", "unload",
                     "manager", "starts", "destroys", "crashed"}

(* The manager counts the hosts that have been added and not removed, and  *)
(* the lost ones: JavaModuleHost_Create gives a count back exactly when it *)
(* has taken one, on whichever of its paths it fails.                      *)
CountIsRight ==
  LET counted == Cardinality({h \in Hosts : host[h].used /\ host[h].counted})
  IN  IF instance.exists THEN instance.count = counted + lost ELSE counted + lost = 0

(* A Java module runs in a machine, and the manager counts it, as long as  *)
(* its host is in use: JVM_Destroy, by whichever host is destroyed last or *)
(* fails to be created, does not take the machine away from another.       *)
(* Unless a library fails, the machine runs with the options of every host.*)
MachineUnderModules ==
  \A h \in Hosts : host[h].used /\ host[h].module =>
    /\ jvm.exists /\ instance.exists /\ instance.count > 0
    /\ ~failing => jvm.args = init_vm_options(host[h].options)

(* When the last host is gone so are the machine and the manager, unless   *)
(* a host was lost (SRS_JAVA_MODULE_HOST_14_029).                          *)
NothingIsLeft ==
  gateway = Idle /\ ~failing /\ lost = 0 /\ (\A h \in Hosts : ~host[h].used)
    => ~jvm.exists /\ ~instance.exists

(* The manager and the machine are those the hosts that are left need.     *)
HostInv == TypeOK /\ CountIsRight /\ MachineUnderModules /\ NothingIsLeft

(* JavaModuleHost_Destroy returns: DestroyJavaVM never waits for a thread  *)
(* that no longer runs.                                                    *)
DestroyReturns == gateway.at = "destroys" ~> gateway.at = "idle"
=============================================================================
