---------------------------- MODULE IdentityMap ----------------------------
(***************************************************************************)
(* modules/identitymap/src/identitymap.c: the module named "mapping".      *)
(*                                                                         *)
(* A table of (macAddress, deviceId, deviceKey) gives messages of devices  *)
(* the name and key under which the cloud knows them, and messages of the  *)
(* cloud the address of the device.  The module keeps nothing else, so it  *)
(* is a set of operators; the modules that use it have the table as state. *)
(*                                                                         *)
(* A MAC address is one of a few spellings; Upper is toupper on them.      *)
(***************************************************************************)
EXTENDS Sequences, Functions

CONSTANTS
  Spellings,    \* ways to write addresses, canonical or not
  Canonical,    \* those of the form XX:XX:XX:XX:XX:XX
  Upper,        \* Upper[s]: s in upper case
  Absent        \* NULL

ASSUME SpellingsAssumption ==
  /\ Absent \notin Spellings \cup {"iothub", "mapping"} /\ Canonical \subseteq Spellings
  /\ Upper \in [Spellings -> Spellings]
  /\ \A s \in Spellings : Upper[Upper[s]] = Upper[s] /\ (Upper[s] \in Canonical <=> s \in Canonical)

(* The properties of a message: a function from the names it has.          *)
Names == {"source", "macAddress", "deviceName", "deviceKey", "helloWorld"}
ConstMap_GetValue(properties, key) ==
  IF key \in DOMAIN properties THEN properties[key] ELSE Absent
Map_AddOrUpdate(properties, key, value) ==
  [k \in DOMAIN properties \cup {key} |-> IF k = key THEN value ELSE properties[k]]
Map_Delete(properties, key) == Restrict(properties, DOMAIN properties \ {key})

----------------------------------------------------------------------------
(* The table                                                               *)

\* Mutant: the string is only duplicated.
IdentityMapConfig_ToUpperCase_kept(string) == string
IdentityMapConfig_ToUpperCase(string) == IF string = Absent THEN Absent ELSE Upper[string]

IdentityMapConfig_CopyDeep(source) ==
  [source EXCEPT !.macAddress = IdentityMapConfig_ToUpperCase(@)]

IdentityMap_ValidateConfig(mapping) ==
  /\ mapping # <<>>
  /\ \A i \in DOMAIN mapping :
       /\ Absent \notin {mapping[i].macAddress, mapping[i].deviceId, mapping[i].deviceKey}
       /\ mapping[i].macAddress \in Canonical

(* Both arrays hold the same entries in different orders; bsearch finds    *)
(* some entry with the key, whichever when there are several.              *)
IdentityMap_Create(mapping) ==
  IF IdentityMap_ValidateConfig(mapping)
  THEN {IdentityMapConfig_CopyDeep(mapping[i]) : i \in DOMAIN mapping}
  ELSE {}

----------------------------------------------------------------------------
(* Receive                                                                 *)

determine_message_direction(source) ==
  CASE source = "iothub"            -> "C2D"
    [] source \in {Absent, "mapping"} -> "none"
    [] OTHER                        -> "D2C"

IdentityMap_RepublishD2C(properties, match) ==
  Map_Delete(
    Map_AddOrUpdate(
      Map_AddOrUpdate(Map_AddOrUpdate(properties, "deviceName", match.deviceId),
                      "deviceKey", match.deviceKey),
      "source", "mapping"),
    "macAddress")

IdentityMap_RepublishC2D(properties, match) ==
  Map_Delete(
    Map_Delete(
      Map_AddOrUpdate(Map_AddOrUpdate(properties, "macAddress", match.macAddress),
                      "source", "mapping"),
      "deviceName"),
    "deviceKey")

\* Mutant: the device is looked up by its key.
MatchesName_byKey(table, name) == {e \in table : e.deviceKey = name}
MatchesName(table, name) == {e \in table : e.deviceId = name}
MatchesMac(table, mac) == {e \in table : e.macAddress = mac}

(* What IdentityMap_Receive may publish for a message: nothing, or the     *)
(* properties made with some match.                                        *)
IdentityMap_Receive(table, properties) ==
  LET direction == determine_message_direction(ConstMap_GetValue(properties, "source"))
      name == ConstMap_GetValue(properties, "deviceName")
      messageMac == IdentityMapConfig_ToUpperCase(ConstMap_GetValue(properties, "macAddress"))
  IN  CASE direction = "C2D" /\ name # Absent ->
             {IdentityMap_RepublishC2D(properties, e) : e \in MatchesName(table, name)}
        [] /\ direction = "D2C" /\ messageMac # Absent
           /\ ~({"deviceName", "deviceKey"} \subseteq DOMAIN properties)
           /\ messageMac \in Canonical ->
             {IdentityMap_RepublishD2C(properties, e) : e \in MatchesMac(table, messageMac)}
        [] OTHER -> {}
=============================================================================
