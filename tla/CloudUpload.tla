---------------------------- MODULE CloudUpload ----------------------------
(***************************************************************************)
(* The gateway of samples/simulated_device_cloud_upload and hello_world:   *)
(* devices, the identity map, the IoT Hub and the logger, joined by links, *)
(* through creation, start, running, destruction, and the program being    *)
(* killed and started again.                                               *)
(*                                                                         *)
(* The broker is taken for what ModuleDelivery promises: a module gets the *)
(* messages that reached its queue in order and one at a time, and none    *)
(* after its removal.  Its modules_lock is held by the gateway's thread    *)
(* while that joins a worker, and needed by whoever publishes.  The        *)
(* gateway's thread, a worker for each module, the threads of the devices  *)
(* and of the clients of the cloud interleave.                             *)
(***************************************************************************)
EXTENDS Devices, IotHub, Logger

CONSTANTS
  Mapping,      \* configuration of the module "mapping"
  Gateways      \* configurations of gateways, see below

\* The JSON file of the identity map may leave fields out.  "overwritten" is
\* what freed memory holds, see CallbackReads.
ASSUME MappingAssumption ==
  \A j \in DOMAIN Mapping :
    /\ DOMAIN Mapping[j] = {"macAddress", "deviceId", "deviceKey"}
    /\ Mapping[j].macAddress \in Spellings \cup {Absent}
    /\ Mapping[j].deviceId # "overwritten"

Modules == Publishers \cup {"mapping", "IotHub", "Logger"}
\* "cloud" is where commands are of.
ASSUME ModulesAssumption == Publishers \cap {"mapping", "IotHub", "Logger", "cloud"} = {}

(* A configuration: the modules, whose names differ, and the links in the  *)
(* order of the JSON file, a link as <<set of sources, sink>>, and how     *)
(* often the program is started, a bound.                                  *)
ASSUME GatewaysAssumption ==
  \A g \in Gateways :
    /\ g.modules \in Seq(Modules) /\ IsInjective(g.modules)
    /\ g.links \in Seq((SUBSET Modules) \X Modules)
    /\ g.lives \in Nat

VARIABLES
  config,       \* the configuration of this gateway
  table,        \* the arrays of the identity map
  mapper,       \* what IdentityMap_Receive is doing
  inbox,        \* inbox[m]: messages on their way to module m
  links,        \* links the broker still has
  attached,     \* modules the broker has
  gw,           \* the gateway's thread: where it is and the modules left
  lives,        \* times the program may still be started
  failing       \* whether calls of libraries fail in this behaviour

brokerVars == <<inbox, links, attached>>
mapVars == <<table, mapper>>
uploadVars == <<deviceVars, hubVars, loggerVars, brokerVars, mapVars, gw, lives, failing, config>>

MapperIdle == [at |-> "idle"]

UploadInit ==
  /\ DevicesInit /\ HubInit /\ LoggerInit
  /\ table = {} /\ mapper = MapperIdle /\ links = <<>> /\ attached = {}
  /\ inbox = [m \in Modules |-> <<>>]
  /\ gw = [at |-> "down", left |-> <<>>]
  /\ config \in Gateways /\ lives = config.lives /\ failing \in BOOLEAN

----------------------------------------------------------------------------
(* The broker                                                              *)

Reaches(from, m) == m \in attached /\ \E i \in DOMAIN links : from \in links[i][1] /\ links[i][2] = m

Receivers(from) == {m \in Modules : Reaches(from, m)}

(* Whoever publishes waits for modules_lock.  A call that fails loses the  *)
(* message, for all or for a receiver whose socket is full.                *)
LockIsFree == gw.at # "joining"
Broker_Publish(from, message) ==
  /\ LockIsFree
  /\ \E lost \in IF failing THEN SUBSET Receivers(from) ELSE {{}} :
       inbox' = [m \in Modules |-> IF m \in Receivers(from) \ lost THEN Append(inbox[m], message)
                                                               ELSE inbox[m]]
  /\ UNCHANGED <<links, attached>>

Takes(m) ==
  /\ m \in attached /\ inbox[m] # <<>>
  /\ UNCHANGED <<links, attached>>
Taken(m) == [inbox EXCEPT ![m] = Tail(@)]

----------------------------------------------------------------------------
(* The gateway's thread                                                    *)

GatewayCreate ==
  /\ gw.at = "down" /\ lives > 0
  /\ gw' = [at |-> "starting", left |-> config.modules]
  /\ lives' = lives - 1
  /\ table' = IdentityMap_Create(Mapping) /\ UNCHANGED mapper
  /\ CreateDevices(Publishers \cap ToSet(config.modules))
  /\ IF "Logger" \in ToSet(config.modules)
     THEN Logger_Create(failing)
     ELSE UNCHANGED loggerVars
  /\ attached' = ToSet(config.modules) /\ links' = config.links
  /\ UNCHANGED <<inbox, hubVars, failing, config>>

GatewayCreateFails ==
  /\ gw.at = "down" /\ lives > 0 /\ failing
  /\ "Logger" \in ToSet(config.modules) /\ CreateFails
  /\ lives' = lives - 1
  /\ UNCHANGED <<deviceVars, hubVars, brokerVars, mapVars, gw, failing, config>>

Gateway_LL_Start ==
  /\ gw.at = "starting"
  /\ IF gw.left = <<>>
     THEN gw' = [gw EXCEPT !.at = "up"] /\ UNCHANGED deviceVars
     ELSE /\ gw' = [gw EXCEPT !.left = Tail(@)]
          /\ IF Head(gw.left) \in Publishers THEN StartDevice(Head(gw.left), failing)
                                             ELSE UNCHANGED deviceVars
  /\ UNCHANGED <<hubVars, loggerVars, brokerVars, mapVars, lives, failing, config>>

\* The program may destroy a gateway it has not started.
Gateway_LL_Destroy ==
  /\ gw.at = "up" \/ (gw.at = "starting" /\ gw.left = config.modules)
  /\ gw' = [at |-> "unlinking", left |-> config.modules]
  /\ UNCHANGED <<deviceVars, hubVars, loggerVars, brokerVars, mapVars, lives, failing, config>>

Gateway_LL_RemoveLink ==
  /\ gw.at = "unlinking"
  /\ IF links = <<>>
     THEN /\ gw' = [gw EXCEPT !.at = IF gw.left = <<>> THEN "down" ELSE "removing"]
          /\ UNCHANGED links
     ELSE links' = Tail(links) /\ UNCHANGED gw
  /\ UNCHANGED <<deviceVars, hubVars, loggerVars, inbox, attached, mapVars, lives, failing, config>>

\* Broker_RemoveModule takes modules_lock, joins the worker of the module,
\* and gives the lock back.  The worker may still take messages.
Broker_RemoveModule ==
  /\ gw.at = "removing" /\ gw.left # <<>> /\ Head(gw.left) \in attached
  /\ gw' = [gw EXCEPT !.at = "joining"]
  /\ UNCHANGED <<deviceVars, hubVars, loggerVars, brokerVars, mapVars, lives, failing, config>>

WorkerIsBusy(m) ==
  (m = "IotHub" /\ worker.at # "idle") \/ (m = "mapping" /\ mapper # MapperIdle)

WorkerJoined ==
  /\ gw.at = "joining"
  /\ LET m == Head(gw.left)
     IN  /\ ~WorkerIsBusy(m)
         /\ attached' = attached \ {m} /\ inbox' = [inbox EXCEPT ![m] = <<>>]
  /\ gw' = [gw EXCEPT !.at = "removing"]
  /\ UNCHANGED <<deviceVars, hubVars, loggerVars, links, mapVars, lives, failing, config>>

Proceeds == gw' = [at |-> IF Tail(gw.left) = <<>> THEN "down" ELSE "removing",
                   left |-> Tail(gw.left)]

Module_Destroy ==
  /\ gw.at = "removing" /\ gw.left # <<>> /\ Head(gw.left) \notin attached
  /\ LET m == Head(gw.left)
     IN  \/ /\ m \in Publishers
            /\ \/ StopDevice(m, failing) /\ UNCHANGED gw
               \/ JoinDevice(m) /\ Proceeds
            /\ UNCHANGED <<mapVars, hubVars, loggerVars>>
         \/ /\ m = "mapping"
            /\ table' = {} /\ Proceeds
            /\ UNCHANGED <<mapper, deviceVars, hubVars, loggerVars>>
         \/ /\ m = "IotHub"
            /\ \/ (DeleteStrings \/ DestroyClient) /\ UNCHANGED gw
               \/ personalities = <<>> /\ Proceeds /\ UNCHANGED hubVars
            /\ UNCHANGED <<mapVars, deviceVars, loggerVars>>
         \/ /\ m = "Logger"
            /\ Logger_Destroy(failing) /\ Proceeds
            /\ UNCHANGED <<mapVars, deviceVars, hubVars>>
  /\ UNCHANGED <<brokerVars, lives, failing, config>>

\* The process is killed; only the file stays.
Killed ==
  /\ gw.at # "down"
  /\ gw' = [at |-> "down", left |-> <<>>]
  /\ DevicesKilled /\ HubKilled /\ LoggerKilled
  /\ table' = {} /\ mapper' = MapperIdle /\ links' = <<>> /\ attached' = {}
  /\ inbox' = [m \in Modules |-> <<>>]
  /\ UNCHANGED <<lives, failing, config>>

----------------------------------------------------------------------------
(* The other threads                                                       *)

DeviceGoesOn(d) ==
  /\ ThreadLooks(d) \/ ThreadWrites(d) \/ ThreadCopies(d, failing)
  /\ UNCHANGED <<hubVars, loggerVars, brokerVars, mapVars, gw, lives, failing, config>>

DevicePublishes(d) ==
  /\ ThreadPublishes(d) /\ Broker_Publish(d, Reading(d))
  /\ UNCHANGED <<hubVars, loggerVars, mapVars, gw, lives, failing, config>>

(* IdentityMap_Receive up to Broker_Publish.  A library call that fails    *)
(* ends it, too.                                                           *)
MappingReceives ==
  /\ mapper = MapperIdle
  /\ Takes("mapping") /\ inbox' = Taken("mapping")
  /\ LET m == Head(inbox["mapping"])
         made == IdentityMap_Receive(table, m.properties)
     IN  \/ \E p \in made : mapper' = [at |-> "publishes", message |-> [m EXCEPT !.properties = p]]
         \/ (failing \/ made = {}) /\ UNCHANGED mapper
  /\ UNCHANGED <<deviceVars, hubVars, loggerVars, table, gw, lives, failing, config>>

MappingPublishes ==
  /\ mapper.at = "publishes" /\ Broker_Publish("mapping", mapper.message)
  /\ mapper' = MapperIdle
  /\ UNCHANGED <<deviceVars, hubVars, loggerVars, table, gw, lives, failing, config>>

HubReceives ==
  /\ Takes("IotHub") /\ inbox' = Taken("IotHub")
  /\ IotHub_Receive(Head(inbox["IotHub"]), failing)
  /\ UNCHANGED <<deviceVars, loggerVars, mapVars, gw, lives, failing, config>>

HubGoesOn ==
  /\ FillPersonality \/ PERSONALITY_find_or_create(failing) \/ PERSONALITY_destroy
     \/ SendEvent(failing)
  /\ UNCHANGED <<deviceVars, loggerVars, brokerVars, mapVars, gw, lives, failing, config>>

CloudSends(a) ==
  /\ CommandArrives(a)
  /\ UNCHANGED <<deviceVars, loggerVars, brokerVars, mapVars, gw, lives, failing, config>>

\* With a broker that is not set yet nothing is published, unless the process
\* is killed by it.
HubCallback(a) ==
  /\ \/ CallbackReads(a, failing) /\ UNCHANGED brokerVars
     \/ /\ CallbackPublishes(a)
        /\ IF heap[a].filled THEN Broker_Publish("IotHub", heap[a].callback.message)
                             ELSE UNCHANGED brokerVars
  /\ UNCHANGED <<deviceVars, loggerVars, mapVars, gw, lives, failing, config>>

LoggerReceives ==
  /\ Takes("Logger") /\ inbox' = Taken("Logger")
  /\ Logger_Receive(failing)
  /\ UNCHANGED <<deviceVars, hubVars, mapVars, gw, lives, failing, config>>

\* The devices' Receive does nothing with a message.
DeviceReceives(d) ==
  /\ Takes(d) /\ inbox' = Taken(d)
  /\ UNCHANGED <<deviceVars, hubVars, loggerVars, mapVars, gw, lives, failing, config>>

GatewayNext ==
  GatewayCreate \/ GatewayCreateFails \/ Gateway_LL_Start \/ Gateway_LL_Destroy
  \/ Gateway_LL_RemoveLink \/ Broker_RemoveModule \/ WorkerJoined \/ Module_Destroy
WorkerNext ==
  MappingReceives \/ MappingPublishes \/ HubReceives \/ HubGoesOn \/ LoggerReceives
  \/ \E d \in Publishers : DeviceReceives(d)

UploadNext ==
  \/ GatewayNext \/ WorkerNext \/ Killed
  \/ \E d \in Publishers : DeviceGoesOn(d) \/ DevicePublishes(d)
  \/ \E a \in Addresses : CloudSends(a) \/ HubCallback(a)

(* Threads go on.  The program need not create, start or destroy the       *)
(* gateway, but goes on with what it has begun; the cloud need not send.   *)
UploadFairness ==
  /\ WF_uploadVars(Gateway_LL_Start) /\ WF_uploadVars(Gateway_LL_RemoveLink)
  /\ WF_uploadVars(Broker_RemoveModule) /\ WF_uploadVars(WorkerJoined)
  /\ WF_uploadVars(Module_Destroy)
  /\ WF_uploadVars(MappingReceives) /\ WF_uploadVars(MappingPublishes)
  /\ WF_uploadVars(HubReceives) /\ WF_uploadVars(HubGoesOn) /\ WF_uploadVars(LoggerReceives)
  /\ \A d \in Publishers : /\ WF_uploadVars(DeviceGoesOn(d)) /\ WF_uploadVars(DevicePublishes(d))
                           /\ WF_uploadVars(DeviceReceives(d))
  /\ \A a \in Addresses : WF_uploadVars(HubCallback(a))

UploadSpec == UploadInit /\ [][UploadNext]_uploadVars /\ UploadFairness

----------------------------------------------------------------------------
(* Properties                                                              *)

(* Every variable keeps its type: properties have the keys the modules     *)
(* know, queues hold messages, an address in the vector is a PERSONALITY.  *)
UploadTypeOK ==
  /\ \A m \in Modules : \A i \in DOMAIN inbox[m] :
       DOMAIN inbox[m][i].properties \subseteq Names
  /\ thread \in [Publishers -> {"none", "looks", "writes", "copies", "publishes", "ended"}]
  /\ \A d \in Publishers : sent[d] \in 0..MaxMessages[d]
  /\ \A d \in Publishers : data[d].allocated => data[d].stop \in BOOLEAN
  /\ \A a \in Addresses : heap[a].used => heap[a].callback.at \in {"none", "reads", "publishes"}
  /\ \A i \in DOMAIN personalities : heap[personalities[i]].used
  /\ worker.at \in {"idle", "created", "pushes", "destroys", "sends"}
  /\ ToSet(links) \subseteq ToSet(config.links) /\ attached \subseteq Modules
  /\ mapper.at \in {"idle", "publishes"}
  /\ gw.at \in {"down", "starting", "up", "unlinking", "removing", "joining"}
  /\ fout <=> /\ gw.at # "down" /\ "Logger" \in ToSet(config.modules)
              /\ gw.at \in {"removing", "joining"} => "Logger" \in ToSet(gw.left)

(* What reaches the cloud under the name of a device are messages that the *)
(* device with the mapped address has published, each at most once and in  *)
(* the order of publication, without the name and the key of the device.   *)
(* In a gateway with one simulated device their contents are its readings; *)
(* with several, a content may be another's or torn, as they share msgText.*)
Alone(d) == \A e \in SimulatedDevices \cap ToSet(config.modules) : e = d
EventsAreTheDevices ==
  \A i \in DOMAIN cloud :
    LET m == cloud[i].message
    IN  /\ {"deviceName", "deviceKey"} \cap DOMAIN m.properties = {}
        /\ m.of[1] \in SimulatedDevices
        /\ Alone(m.of[1]) => m.content = m.of
        /\ \E j \in DOMAIN Mapping :
             /\ Mapping[j].deviceId = cloud[i].device
             /\ Upper[Mapping[j].macAddress] = Upper[Mac[m.of[1]]]
        /\ \A j \in 1..(i - 1) :
             cloud[j].message.of[1] = m.of[1] => cloud[j].message.of[2] < m.of[2]

(* A command that comes out of the identity map bears the address of the   *)
(* device it was sent to, in upper case, and not its name and key; and it  *)
(* is not sent back to the cloud, whatever the links.                      *)
CommandsAreAddressed ==
  /\ \A i \in DOMAIN cloud : cloud[i].message.of[1] # "cloud"
  /\ \A m \in Modules : \A i \in DOMAIN inbox[m] :
    LET c == inbox[m][i]
    IN  c.of[1] = "cloud" /\ ConstMap_GetValue(c.properties, "source") = "mapping" =>
          /\ \E j \in DOMAIN Mapping :
               /\ Mapping[j].deviceId = c.of[2]
               /\ c.properties["macAddress"] = Upper[Mapping[j].macAddress]
          /\ {"deviceName", "deviceKey"} \cap DOMAIN c.properties = {}

(* A device has one client at a time, and every client is in the vector,   *)
(* from which IotHub_Destroy takes it, or in the hands of the worker.      *)
OneClientPerDevice ==
  /\ \A a, b \in Addresses :
       heap[a].used /\ heap[b].used /\ heap[a].name = heap[b].name => a = b
  /\ \A a \in Addresses : heap[a].used =>
       \/ Cardinality({i \in DOMAIN personalities : personalities[i] = a}) = 1
       \/ a \notin ToSet(personalities) /\ worker.at # "idle" /\ worker.for = a

(* No thread of a device runs in a handle that Destroy has freed.          *)
ThreadsHaveData ==
  \A d \in Publishers : thread[d] \in {"looks", "writes", "copies", "publishes"} => data[d].allocated

\* No worker is in a module that the broker has let go of, which may be
\* destroyed.
WorkersHaveModules ==
  /\ worker.at # "idle" => "IotHub" \in attached
  /\ mapper.at # "idle" => "mapping" \in attached

(* Threads, workers, clients and the file end with the module they belong  *)
(* to, however the gateway ends, fails to be created or is killed.         *)
UploadInv == UploadTypeOK /\ ThreadsHaveData /\ WorkersHaveModules /\ OneClientPerDevice

(* A gateway that is being destroyed is destroyed: threads stop, workers   *)
(* and callbacks return.  There are two exceptions, both of a worker that  *)
(* is joined under modules_lock: that of the identity map needs the lock   *)
(* to publish, and that of the IoT Hub, which destroys a client it could   *)
(* not put in the vector, waits for a callback that needs it.              *)
Caught ==
  /\ gw.at = "joining"
  /\ \/ Head(gw.left) = "mapping" /\ mapper.at = "publishes"
     \/ /\ Head(gw.left) = "IotHub" /\ worker.at = "destroys"
        /\ heap[worker.for].callback.at = "publishes"
DestructionEnds == gw.at = "unlinking" ~> (gw.at = "down" \/ Caught)

(* While no library call fails, a message of a device whose address is     *)
(* mapped, in whatever spelling, gets from the identity map to the cloud,  *)
(* unless the gateway ends before.  That nanomsg drops a message on the    *)
(* way, which it does not report, counts as a call that fails.             *)
IsMapped(d) == \E j \in DOMAIN Mapping : Upper[Mapping[j].macAddress] = Upper[Mac[d]]
ReadingArrives ==
  \A d \in SimulatedDevices : \A n \in 1..MaxMessages[d] :
    ( /\ ~failing /\ IsMapped(d)
      /\ \E i \in DOMAIN inbox["mapping"] : inbox["mapping"][i].of = <<d, n>> )
    ~> ( \/ \E i \in DOMAIN cloud : cloud[i].message.of = <<d, n>>
         \/ gw.at \in {"unlinking", "removing", "joining", "down"} )
=============================================================================
