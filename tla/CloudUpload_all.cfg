SPECIFICATION UploadSpec
CONSTANTS
  Absent = Absent
  Spellings = {"aa", "aA", "AA", "bb", "BB", "zz"}
  Canonical = {"aa", "aA", "AA", "bb", "BB"}
  Upper <- MCUpper
  SimulatedDevices = {"BLE1", "BLE2", "BLE3"}
  HelloWorlds = {"hello"}
  Mac <- MCMac
  MaxMessages <- MCMaxMessages
  Addresses = {a1, a2}
  Commands <- MCCommands
  MaxCommands = 1
  Mapping <- MCMapping
  Gateways <- MCGateways
INVARIANTS
  UploadInv
  EventsAreTheDevices
  CommandsAreAddressed
  LogKeepsShape
PROPERTIES
  DestructionEnds
  ReadingArrives
CHECK_DEADLOCK FALSE
