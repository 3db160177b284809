-------------------------- MODULE UploadInvariant --------------------------
(***************************************************************************)
(* The inductive invariant of CloudUpload, in parts that TLC can check and *)
(* ModuleProofs proves.                                                    *)
(***************************************************************************)
EXTENDS CloudUpload

\* A file with its scars, where writing broke off; the buffer fits its end.
Tokens == {"open", "close", "comma", "begin", "end"}
IsFile(f) ==
  /\ f = [tokens |-> f.tokens, scars |-> f.scars]
  /\ f.tokens \in Seq(Tokens) /\ f.scars \subseteq 1..Len(f.tokens)
  /\ \A i \in 0..Len(f.tokens) :
       \/ <<TokenAt(f.tokens, i), TokenAt(f.tokens, i + 1)>> \in Follows
       \/ \E scar \in f.scars : i \in {scar - 1, scar}
IsPart(p, t) ==
  p \in Seq(Tokens) /\ Len(p) <= Len(t) /\ \A i \in 1..Len(p) : p[i] = t[i]
FitsEnd(f, b) ==
  \/ IsPart(b, Further) /\ (b # <<>> => f.tokens # <<>>)
  \/ IsPart(b, Absolute) /\ f = [NewFile EXCEPT !.tokens = Brackets]
LogPart ==
  /\ IsFile(file) /\ FitsEnd(file, buffer) /\ fout \in BOOLEAN
  /\ fout => file.tokens # <<>>
  /\ ~fout => buffer = <<>>

\* The modules the gateway's thread has left are different modules of the
\* configuration; it removes them all.
GatewayPart ==
  /\ config \in Gateways
  /\ gw = [at |-> gw.at, left |-> gw.left]
  /\ gw.at \in {"down", "starting", "up", "unlinking", "removing", "joining"}
  /\ gw.left \in Seq(Modules) /\ IsInjective(gw.left)
  /\ ToSet(gw.left) \subseteq ToSet(config.modules)
  /\ gw.at = "unlinking" => gw.left = config.modules
  /\ gw.at = "joining" => gw.left # <<>>
  /\ links \in Seq(ToSet(config.links)) /\ attached \subseteq ToSet(config.modules)
FileIsOpen ==
  fout <=> /\ gw.at # "down" /\ "Logger" \in ToSet(config.modules)
           /\ gw.at \in {"removing", "joining"} => "Logger" \in ToSet(gw.left)

\* A thread runs in a device that the gateway has and has not destroyed, and
\* Start finds the data of its device.
OnTurn(d) == thread[d] \in {"writes", "copies", "publishes"}
DevicePart ==
  /\ data \in [Publishers -> {NoData} \cup [allocated : {TRUE}, stop : BOOLEAN]]
  /\ thread \in [Publishers -> {"none", "looks", "writes", "copies", "publishes", "ended"}]
  /\ held = [d \in Publishers |-> held[d]] /\ sent \in [Publishers -> Nat]
  /\ \A d \in Publishers :
       /\ sent[d] <= MaxMessages[d] /\ (OnTurn(d) => sent[d] < MaxMessages[d])
       /\ thread[d] # "none" => /\ data[d].allocated /\ gw.at # "down"
                                /\ d \in ToSet(config.modules)
                                /\ gw.at \in {"removing", "joining"} => d \in ToSet(gw.left)
       /\ gw.at = "starting" /\ d \in ToSet(gw.left) => data[d].allocated
\* A device that is the only one of its gateway finds its own text.
TextPart ==
  \A d \in SimulatedDevices : Alone(d) =>
    /\ thread[d] \in {"writes", "copies"} => msgText = <<d, sent[d] + 1>>
    /\ thread[d] = "publishes" => held[d] = <<d, sent[d] + 1>>

----------------------------------------------------------------------------
DeviceIds == {Mapping[j].deviceId : j \in DOMAIN Mapping}
MakesPersonality == worker.at \in {"created", "pushes", "destroys"}

IsPersonality(p) ==
  /\ DOMAIN p = {"used", "name", "key", "named", "filled", "callback"}
  /\ p.used = TRUE /\ p.name \in DeviceIds /\ p.named \in BOOLEAN /\ p.filled \in BOOLEAN
\* A PERSONALITY is in the vector once, or the worker is making it.
HubPart ==
  /\ DOMAIN heap = Addresses /\ heap = [a \in Addresses |-> heap[a]]
  /\ \A a \in Addresses : heap[a] = Unused \/ IsPersonality(heap[a])
  /\ personalities \in Seq(Addresses) /\ IsInjective(personalities)
  /\ \A i \in DOMAIN personalities : heap[personalities[i]].used
  /\ \/ worker = [at |-> "idle"]
     \/ /\ worker = [at |-> worker.at, message |-> worker.message, for |-> worker.for]
        /\ worker.at \in {"created", "pushes", "destroys", "sends"}
        /\ worker.for \in Addresses /\ heap[worker.for].used
        /\ worker.for \in ToSet(personalities) <=> worker.at = "sends"
  /\ \A a \in Addresses : heap[a].used =>
       a \in ToSet(personalities) \/ (MakesPersonality /\ worker.for = a)
  /\ \A a, b \in Addresses :
       heap[a].used /\ heap[b].used /\ heap[a].name = heap[b].name => a = b

----------------------------------------------------------------------------
(* Messages                                                                *)

Source(m) == ConstMap_GetValue(m.properties, "source")
Belongs(name, d) ==
  \E j \in DOMAIN Mapping : /\ Mapping[j].deviceId = name
                            /\ Upper[Mapping[j].macAddress] = Upper[Mac[d]]
IsReading(m) ==
  /\ m.of[1] \in Publishers /\ m.of[2] \in Nat
  /\ m.of[1] \in SimulatedDevices /\ Alone(m.of[1]) => m.content = m.of
  /\ m.properties = IF m.of[1] \in SimulatedDevices
                    THEN [source |-> "bleTelemetry", macAddress |-> Mac[m.of[1]]]
                    ELSE [helloWorld |-> "text"]
IsNamedReading(m) ==
  /\ m.of[1] \in SimulatedDevices /\ m.of[2] \in Nat
  /\ Alone(m.of[1]) => m.content = m.of
  /\ DOMAIN m.properties = {"source", "deviceName", "deviceKey"}
  /\ m.properties["source"] = "mapping"
  /\ Belongs(m.properties["deviceName"], m.of[1])
IsCommand(m) ==
  /\ m.of[1] = "cloud"
  /\ {"source", "deviceName"} \subseteq DOMAIN m.properties /\ DOMAIN m.properties \subseteq Names
  /\ m.properties["source"] = "iothub"
  /\ m.properties["deviceName"] \in {m.of[2], "overwritten"}
IsAddressedCommand(m) ==
  /\ m.of[1] = "cloud"
  /\ {"source", "macAddress"} \subseteq DOMAIN m.properties
  /\ DOMAIN m.properties \subseteq Names \ {"deviceName", "deviceKey"}
  /\ m.properties["source"] = "mapping"
  /\ \E j \in DOMAIN Mapping : /\ Mapping[j].deviceId = m.of[2]
                               /\ m.properties["macAddress"] = Upper[Mapping[j].macAddress]
IsMessage(m) ==
  /\ m = [properties |-> m.properties, content |-> m.content, of |-> m.of]
  /\ IsReading(m) \/ IsNamedReading(m) \/ IsCommand(m) \/ IsAddressedCommand(m)

TablePart ==
  \A e \in table : \E j \in DOMAIN Mapping :
    /\ e = [Mapping[j] EXCEPT !.macAddress = Upper[Mapping[j].macAddress]]
    /\ Mapping[j].macAddress \in Spellings
Queue(s) == s \in Seq(ToSet(s)) /\ \A x \in ToSet(s) : IsMessage(x)
InboxPart ==
  /\ DOMAIN inbox = Modules /\ inbox = [m \in Modules |-> inbox[m]]
  /\ \A m \in Modules : Queue(inbox[m])
IsCallback(c, name) ==
  \/ c = NoCallback
  \/ /\ c = [at |-> c.at, message |-> c.message]
     /\ c.message = [properties |-> c.message.properties, content |-> c.message.content,
                     of |-> <<"cloud", name>>]
     /\ \/ c.at = "reads" /\ c.message.properties \in Commands
        \/ c.at = "publishes" /\ IsCommand(c.message)
CallbackPart ==
  \A a \in Addresses : heap[a].used => IsCallback(heap[a].callback, heap[a].name)
WorkerPart ==
  worker.at # "idle" =>
    /\ IsMessage(worker.message) /\ IsNamedReading(worker.message)
    /\ heap[worker.for].name = worker.message.properties["deviceName"]
    /\ "IotHub" \in attached
MapperPart ==
  \/ mapper = MapperIdle
  \/ /\ mapper = [at |-> "publishes", message |-> mapper.message]
     /\ IsMessage(mapper.message) /\ Source(mapper.message) = "mapping"
     /\ "mapping" \in attached
CloudPart ==
  /\ cloud \in Seq(ToSet(cloud))
  /\ \A i \in DOMAIN cloud :
       /\ cloud[i].message.of[1] \in SimulatedDevices /\ cloud[i].message.of[2] \in Nat
       /\ Alone(cloud[i].message.of[1]) => cloud[i].message.content = cloud[i].message.of
       /\ {"deviceName", "deviceKey"} \cap DOMAIN cloud[i].message.properties = {}
       /\ Belongs(cloud[i].device, cloud[i].message.of[1])

----------------------------------------------------------------------------
(* Readings keep their order on their way: the queue of the mapping, the   *)
(* mapping, the queue of the IoT Hub, its worker, the cloud.               *)
Before(m, n) == m.of[1] = n.of[1] => m.of[2] < n.of[2]
IsOf(source, m) == m.of[1] \in SimulatedDevices /\ Source(m) = source
Increasing(s, source) ==
  \A i, j \in DOMAIN s : i < j /\ IsOf(source, s[i]) /\ IsOf(source, s[j]) => Before(s[i], s[j])
Ahead(S, T) == \A x \in S, y \in T : Before(x, y)

Working == worker.at # "idle"
Mapped == mapper.at # "idle"
InMapping == {x \in ToSet(inbox["mapping"]) : IsOf("bleTelemetry", x)}
InMapper == IF Mapped /\ mapper.message.of[1] \in SimulatedDevices THEN {mapper.message} ELSE {}
InHub == {x \in ToSet(inbox["IotHub"]) : IsOf("mapping", x)}
InWorker == IF Working THEN {worker.message} ELSE {}
InCloud == {cloud[i].message : i \in DOMAIN cloud}
UnderWay == InMapping \cup InMapper \cup InHub \cup InWorker \cup InCloud
InLine ==
  /\ Ahead(InMapper, InMapping)
  /\ Ahead(InHub, InMapping) /\ Ahead(InHub, InMapper)
  /\ Ahead(InWorker, InMapping) /\ Ahead(InWorker, InMapper) /\ Ahead(InWorker, InHub)
  /\ Ahead(InCloud, InMapping) /\ Ahead(InCloud, InMapper) /\ Ahead(InCloud, InHub)
  /\ Ahead(InCloud, InWorker)
Order ==
  /\ Increasing(inbox["mapping"], "bleTelemetry") /\ Increasing(inbox["IotHub"], "mapping")
  /\ \A i, j \in DOMAIN cloud : i < j => Before(cloud[i].message, cloud[j].message)
  /\ InLine
  /\ \A x \in UnderWay : x.of[2] \in 0..sent[x.of[1]]

UInv ==
  /\ LogPart /\ GatewayPart /\ FileIsOpen /\ DevicePart /\ TextPart /\ HubPart /\ TablePart
  /\ InboxPart /\ CallbackPart /\ WorkerPart /\ MapperPart /\ CloudPart /\ Order
=============================================================================
