\* No module republishes inside Module_Receive and nothing fails.
SPECIFICATION FairSpec
CONSTANTS
  None = None
  Modules = {m1, m2}
  Clients = {c1}
  Republishers = {}
  MayFail = {}
  MaxPublish = 3
  MaxAdd = 3
PROPERTIES
  RemoveReturns
  QueuedMessageArrives
INVARIANT NoLostWakeup
