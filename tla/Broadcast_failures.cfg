\* Every platform call may report an error, ThreadAPI_Join excepted.
SPECIFICATION Spec
CONSTANTS
  None = None
  Modules = {m1, m2}
  Clients = {c1, c2}
  Republishers = {m1}
  MayFail = {"Lock", "Unlock", "VECTOR_push_back", "Condition_Post", "Condition_Wait"}
  MaxPublish = 3
  MaxAdd = 3
INVARIANTS
  ListInv
  ReferencesAreHeld
PROPERTY DeliverySpec
CHECK_DEADLOCK FALSE
