------------------------------ MODULE Devices ------------------------------
(***************************************************************************)
(* The modules that publish on their own:                                  *)
(* modules/simulated_device/src/simulated_device.c and                     *)
(* modules/hello_world/src/hello_world.c.                                  *)
(*                                                                         *)
(* Each has one thread, created by its Start; Destroy tells it to stop and *)
(* joins it.  helloWorldThread looks at stopThread and publishes under the *)
(* module's lock.  The simulated device uses no lock, and all of them have *)
(* one static text in which they make up the contents of their messages.   *)
(***************************************************************************)
EXTENDS IdentityMap, Integers

CONSTANTS
  SimulatedDevices, HelloWorlds,  \* names of modules
  Mac,          \* Mac[d]: the address simulated device d is configured with
  MaxMessages   \* bound: MaxMessages[d] messages the thread of d publishes

ASSUME DevicesAssumption ==
  /\ SimulatedDevices \cap HelloWorlds = {}
  /\ Mac \in [SimulatedDevices -> Spellings]
  /\ MaxMessages \in [SimulatedDevices \cup HelloWorlds -> Nat]

Publishers == SimulatedDevices \cup HelloWorlds

VARIABLES
  data,         \* data[d]: the allocated handle of a module, or NoData
  thread,       \* thread[d]: "none", "looks", "writes", "copies",
                \* "publishes", "ended"
  msgText,      \* the text of all simulated devices: whose reading it is
  held,         \* held[d]: the content of the message that d publishes
  sent          \* sent[d]: messages published, a history

deviceVars == <<data, thread, msgText, held, sent>>

NoData == [allocated |-> FALSE]
NewData == [allocated |-> TRUE, stop |-> FALSE]
Torn == <<"several", 0>>    \* a text with pieces of more than one reading
Nothing == <<"none", 0>>

DevicesInit ==
  /\ data = [d \in Publishers |-> NoData]
  /\ thread = [d \in Publishers |-> "none"]
  /\ msgText = Nothing /\ held = [d \in Publishers |-> Nothing]
  /\ sent = [d \in Publishers |-> 0]

\* SimulatedDevice_Create and HelloWorld_Create, for those of a gateway.
CreateDevices(D) ==
  /\ data' = [d \in Publishers |-> IF d \in D THEN NewData ELSE NoData]
  /\ UNCHANGED <<thread, msgText, held, sent>>

\* SimulatedDevice_Start and HelloWorld_Start.  ThreadAPI_Create may fail,
\* and so may HelloWorld's Lock, which then sets stopThread.
StartDevice(d, canFail) ==
  /\ \/ thread' = [thread EXCEPT ![d] = "looks"] /\ UNCHANGED data
     \/ canFail /\ UNCHANGED <<data, thread>>
     \/ canFail /\ d \in HelloWorlds
        /\ data' = [data EXCEPT ![d].stop = TRUE] /\ UNCHANGED thread
  /\ UNCHANGED <<msgText, held, sent>>

(* A turn of the thread's loop.  A simulated device begins to write its    *)
(* text, over whatever another one is writing there.                       *)
Writing(d) == {e \in SimulatedDevices \ {d} : thread[e] = "writes"}

\* Mutant: the thread does not look at the flag.
ThreadLooks_deaf(d) ==
  /\ thread[d] = "looks" /\ sent[d] < MaxMessages[d]
  /\ IF d \in SimulatedDevices
     THEN /\ thread' = [thread EXCEPT ![d] = "writes"]
          /\ msgText' = IF Writing(d) = {} THEN <<d, sent[d] + 1>> ELSE Torn
          /\ UNCHANGED held
     ELSE /\ thread' = [thread EXCEPT ![d] = "publishes"]
          /\ held' = [held EXCEPT ![d] = <<d, sent[d] + 1>>]
          /\ UNCHANGED msgText
  /\ UNCHANGED <<data, sent>>
ThreadLooks(d) ==
  /\ thread[d] = "looks"
  /\ \/ data[d].stop /\ thread' = [thread EXCEPT ![d] = "ended"] /\ UNCHANGED <<msgText, held>>
     \/ /\ ~data[d].stop /\ sent[d] < MaxMessages[d]
        /\ IF d \in SimulatedDevices
           THEN /\ thread' = [thread EXCEPT ![d] = "writes"]
                /\ msgText' = IF Writing(d) = {} THEN <<d, sent[d] + 1>> ELSE Torn
                /\ UNCHANGED held
           ELSE /\ thread' = [thread EXCEPT ![d] = "publishes"]
                /\ held' = [held EXCEPT ![d] = <<d, sent[d] + 1>>]
                /\ UNCHANGED msgText
  /\ UNCHANGED <<data, sent>>

\* sprintf_s returns.
ThreadWrites(d) ==
  /\ thread[d] = "writes"
  /\ thread' = [thread EXCEPT ![d] = "copies"]
  /\ UNCHANGED <<data, msgText, held, sent>>

\* Message_Create copies the text as it is, or fails.
ThreadCopies(d, canFail) ==
  /\ thread[d] = "copies"
  /\ \/ /\ thread' = [thread EXCEPT ![d] = "publishes"]
        /\ held' = [held EXCEPT ![d] = IF Writing(d) = {} THEN msgText ELSE Torn]
     \/ canFail /\ thread' = [thread EXCEPT ![d] = "looks"] /\ UNCHANGED held
  /\ UNCHANGED <<data, msgText, sent>>

\* The message of the turn; "of" names it in the histories.
Reading(d) ==
  [properties |-> IF d \in SimulatedDevices
                  THEN [source |-> "bleTelemetry", macAddress |-> Mac[d]]
                  ELSE [helloWorld |-> "text"],
   content |-> held[d], of |-> <<d, sent[d] + 1>>]

\* simulated_device_worker and helloWorldThread go on after Broker_Publish.
ThreadPublishes(d) ==
  /\ thread[d] = "publishes"
  /\ thread' = [thread EXCEPT ![d] = "looks"]
  /\ held' = [held EXCEPT ![d] = Nothing]
  /\ sent' = [sent EXCEPT ![d] = @ + 1]
  /\ UNCHANGED <<data, msgText>>

(* Destroy.  HelloWorld_Destroy sets stopThread with the lock, or without  *)
(* when Lock fails; SimulatedDevice_Destroy has no lock.                   *)
StopDevice(d, canFail) ==
  /\ data[d].allocated /\ ~data[d].stop
  /\ d \in HelloWorlds => thread[d] # "publishes" \/ canFail
  /\ data' = [data EXCEPT ![d].stop = TRUE]
  /\ UNCHANGED <<thread, msgText, held, sent>>

JoinDevice(d) ==
  /\ data[d].allocated /\ data[d].stop
  /\ thread[d] \in {"none", "ended"}
  /\ data' = [data EXCEPT ![d] = NoData]
  /\ thread' = [thread EXCEPT ![d] = "none"]
  /\ UNCHANGED <<msgText, held, sent>>

\* The process is killed.
DevicesKilled ==
  /\ data' = [d \in Publishers |-> NoData] /\ thread' = [d \in Publishers |-> "none"]
  /\ msgText' = Nothing /\ held' = [d \in Publishers |-> Nothing]
  /\ UNCHANGED sent
=============================================================================
