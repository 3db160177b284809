\* m1 publishes inside Module_Receive (modules/identitymap does).
SPECIFICATION Spec
CONSTANTS
  None = None
  Modules = {m1, m2}
  Clients = {c1}
  Republishers = {m1}
  MayFail = {}
  RcvCap = 4
  MaxPublish = 2
  MaxAdd = 2
  MaxSub = 1
INVARIANT NoCircularWait
CHECK_DEADLOCK FALSE
