--------------------------- MODULE MCCloudUpload ---------------------------
(* Model checking of CloudUpload and of its inductive invariant.           *)
EXTENDS UploadInvariant

\* Two addresses in several spellings.
MCUpper == [s \in Spellings |-> CASE s \in {"aa", "aA"} -> "AA" [] s = "bb" -> "BB" [] OTHER -> s]
\* The key of each device is the name of the other.
MCMapping == << [macAddress |-> "aa", deviceId |-> "n1", deviceKey |-> "n2"],
                [macAddress |-> "BB", deviceId |-> "n2", deviceKey |-> "n1"] >>
MCMaxMessages == [d \in Publishers |-> IF d = "BLE3" THEN 2 ELSE 1]
MCMac == [d \in SimulatedDevices |-> IF d = "BLE2" THEN "bb" ELSE "aA"]

MCGateways == {
  \* The sample, without its logger: two devices and the cloud.
  [modules |-> <<"IotHub", "mapping", "BLE1", "BLE2">>, lives |-> 1,
   links |-> << <<{"BLE1"}, "mapping">>, <<{"BLE2"}, "mapping">>, <<{"mapping"}, "IotHub">> >>],
  \* One device, links for commands and between all.
  [modules |-> <<"IotHub", "mapping", "BLE3">>, lives |-> 1,
   links |-> << <<{"BLE3", "IotHub"}, "mapping">>, <<{"mapping", "BLE3"}, "IotHub">>,
                <<{"mapping"}, "BLE3">> >>],
  \* The sample hello_world, started twice.
  [modules |-> <<"Logger", "hello">>, lives |-> 2,
   links |-> << <<{"hello"}, "Logger">> >>] }

\* A command with a key, one with a source.
MCCommands == { [x \in {"deviceKey"} |-> "v"], [x \in {"source"} |-> "v"] }
=============================================================================
