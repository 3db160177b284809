------------------------------- MODULE IotHub -------------------------------
(***************************************************************************)
(* modules/iothub/src/iothub.c: the module that sends the messages of the  *)
(* identity map to the cloud and publishes what the cloud sends.           *)
(*                                                                         *)
(* A PERSONALITY is a device the cloud knows: its name, its key and an     *)
(* IoTHubClient.  The broker's worker makes it for the first message of    *)
(* the device.  From IoTHubClient_SetMessageCallback to                    *)
(* IoTHubClient_Destroy a thread of the client may be in                   *)
(* IotHub_ReceiveMessageCallback, which reads the PERSONALITY.             *)
(***************************************************************************)
EXTENDS IdentityMap, Integers, SequencesExt, FiniteSets

CONSTANTS
  Addresses,    \* where PERSONALITYs may be allocated
  Commands,     \* properties of messages the cloud sends
  MaxCommands   \* bound: messages the cloud sends

ASSUME CommandsAssumption ==
  MaxCommands \in Nat /\ \A p \in Commands : DOMAIN p \subseteq Names

VARIABLES
  heap,         \* heap[a]: a PERSONALITY and its client's callback, or Unused
  personalities, \* the vector of the module, of addresses
  worker,       \* what IotHub_Receive is doing
  cloud,        \* messages accepted by SendEventAsync, as <<name, message>>
  commands      \* messages the cloud has sent, a history

hubVars == <<heap, personalities, worker, cloud, commands>>

Unused == [used |-> FALSE]
\* named: deviceName and deviceKey are allocated.  filled: broker and module
\* are set.  callback: the message it has, or NoCallback.
NewPersonality(name, key) ==
  [used |-> TRUE, name |-> name, key |-> key, named |-> TRUE, filled |-> FALSE,
   callback |-> [at |-> "none"]]
NoCallback == [at |-> "none"]

HubInit ==
  /\ heap = [a \in Addresses |-> Unused]
  /\ personalities = <<>>
  /\ worker = [at |-> "idle"]
  /\ cloud = <<>>
  /\ commands = 0

----------------------------------------------------------------------------
(* IotHub_Receive                                                          *)

\* Messages of other modules, and those without name and key, are not meant
\* for the cloud.
IsForCloud(properties) ==
  /\ ConstMap_GetValue(properties, "source") = "mapping"
  /\ {"deviceName", "deviceKey"} \subseteq DOMAIN properties

\* Mutant: the name is compared with the keys.
lookup_DeviceName_key(name) ==
  {a \in ToSet(personalities) : heap[a].key = name}
lookup_DeviceName(name) ==
  {a \in ToSet(personalities) : heap[a].name = name}

\* PERSONALITY_create up to IoTHubClient_SetMessageCallback.
PERSONALITY_create(m) ==
  /\ \E a \in Addresses :
       /\ heap[a] = Unused
       /\ heap' = [heap EXCEPT ![a] = NewPersonality(m.properties["deviceName"],
                                                     m.properties["deviceKey"])]
       /\ worker' = [at |-> "created", message |-> m, for |-> a]
  /\ UNCHANGED <<personalities, cloud, commands>>

\* IotHub_Receive up to the event or the client.  When the creation fails
\* what was made is undone and the message is lost.
IotHub_Receive(m, canFail) ==
  /\ worker.at = "idle"
  /\ IF ~IsForCloud(m.properties)
     THEN UNCHANGED hubVars
     ELSE LET known == lookup_DeviceName(m.properties["deviceName"])
          IN  \/ \E a \in known :
                   /\ worker' = [at |-> "sends", message |-> m, for |-> a]
                   /\ UNCHANGED <<heap, personalities, cloud, commands>>
              \/ known = {} /\ PERSONALITY_create(m)
              \/ known = {} /\ canFail /\ UNCHANGED hubVars

\* The rest of PERSONALITY_create.
FillPersonality ==
  /\ worker.at = "created"
  /\ heap' = [heap EXCEPT ![worker.for].filled = TRUE]
  /\ worker' = [worker EXCEPT !.at = "pushes"]
  /\ UNCHANGED <<personalities, cloud, commands>>

PERSONALITY_find_or_create(canFail) ==
  /\ worker.at = "pushes"
  /\ \/ /\ personalities' = Append(personalities, worker.for)
        /\ worker' = [worker EXCEPT !.at = "sends"]
        /\ UNCHANGED heap
     \/ canFail                   \* VECTOR_push_back
        /\ heap' = [heap EXCEPT ![worker.for].named = FALSE]
        /\ worker' = [worker EXCEPT !.at = "destroys"]
        /\ UNCHANGED personalities
  /\ UNCHANGED <<cloud, commands>>

\* IoTHubClient_Destroy waits for the callback.
\* Mutant: the client stays when the vector cannot take its personality.
PERSONALITY_destroy_leaks ==
  /\ worker.at = "destroys" /\ heap[worker.for].callback = NoCallback
  /\ worker' = [at |-> "idle"]
  /\ UNCHANGED <<heap, personalities, cloud, commands>>
PERSONALITY_destroy ==
  /\ worker.at = "destroys" /\ heap[worker.for].callback = NoCallback
  /\ heap' = [heap EXCEPT ![worker.for] = Unused]
  /\ worker' = [at |-> "idle"]
  /\ UNCHANGED <<personalities, cloud, commands>>

\* All properties but the device's name and key.
IoTHubMessage_CreateFromGWMessage(m) ==
  [m EXCEPT !.properties = Map_Delete(Map_Delete(@, "deviceName"), "deviceKey")]

SendEvent(canFail) ==
  /\ worker.at = "sends"
  /\ \/ cloud' = Append(cloud, [device |-> heap[worker.for].name,
                                message |-> IoTHubMessage_CreateFromGWMessage(worker.message)])
     \/ canFail /\ UNCHANGED cloud
  /\ worker' = [at |-> "idle"]
  /\ UNCHANGED <<heap, personalities, commands>>

----------------------------------------------------------------------------
(* IotHub_ReceiveMessageCallback                                           *)

\* The cloud has a message for a client.
CommandArrives(a) ==
  /\ heap[a].used /\ heap[a].callback = NoCallback
  /\ commands < MaxCommands
  /\ \E p \in Commands :
       heap' = [heap EXCEPT ![a].callback =
                  [at |-> "reads", message |-> [properties |-> p, content |-> <<"command", 0>>,
                                            of |-> <<"cloud", heap[a].name>>]]]
  /\ commands' = commands + 1
  /\ UNCHANGED <<personalities, worker, cloud>>

(* Map_Add refuses a name that is there: such a message is abandoned, and  *)
(* so is one whose content or properties cannot be had.  A deviceName that *)
(* was freed may have been overwritten.                                    *)
CallbackReads(a, canFail) ==
  /\ heap[a].used /\ heap[a].callback.at = "reads"
  /\ LET m == heap[a].callback.message
     IN  \/ \E name \in {heap[a].name} \cup (IF heap[a].named THEN {} ELSE {"overwritten"}) :
            /\ {"source", "deviceName"} \cap DOMAIN m.properties = {}
            /\ heap' = [heap EXCEPT ![a].callback =
                 [at |-> "publishes",
                  message |-> [m EXCEPT !.properties =
                    Map_AddOrUpdate(Map_AddOrUpdate(@, "deviceName", name), "source", "iothub")]]]
         \/ /\ {"source", "deviceName"} \cap DOMAIN m.properties # {} \/ canFail
            /\ heap' = [heap EXCEPT ![a].callback = NoCallback]
  /\ UNCHANGED <<personalities, worker, cloud, commands>>

\* The caller publishes the message; accepted or rejected, the callback ends.
CallbackPublishes(a) ==
  /\ heap[a].used /\ heap[a].callback.at = "publishes"
  /\ heap' = [heap EXCEPT ![a].callback = NoCallback]
  /\ UNCHANGED <<personalities, worker, cloud, commands>>

----------------------------------------------------------------------------
(* IotHub_Destroy: for every personality the strings go, then the client,  *)
(* then the memory.                                                        *)

DeleteStrings ==
  /\ worker.at = "idle" /\ personalities # <<>> /\ heap[Head(personalities)].named
  /\ heap' = [heap EXCEPT ![Head(personalities)].named = FALSE]
  /\ UNCHANGED <<personalities, worker, cloud, commands>>
DestroyClient ==
  /\ worker.at = "idle" /\ personalities # <<>>
  /\ LET a == Head(personalities)
     IN  /\ ~heap[a].named /\ heap[a].callback = NoCallback
         /\ heap' = [heap EXCEPT ![a] = Unused]
  /\ personalities' = Tail(personalities)
  /\ UNCHANGED <<worker, cloud, commands>>

\* The process is killed.
HubKilled ==
  /\ heap' = [a \in Addresses |-> Unused]
  /\ personalities' = <<>>
  /\ worker' = [at |-> "idle"]
  /\ UNCHANGED <<cloud, commands>>
=============================================================================
