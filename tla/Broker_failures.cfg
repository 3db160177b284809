\* Every platform call of the workers and of stop_module may report an error,
\* ThreadAPI_Join excepted.  A lock that cannot be released stays taken, so the
\* system may stop.
SPECIFICATION Spec
CONSTANTS
  None = None
  Modules = {m1, m2}
  Clients = {c1, c2}
  Republishers = {m1}
  MayFail = {"Lock", "Unlock", "malloc", "nn_send", "nn_recv"}
  RcvCap = 2
  MaxPublish = 2
  MaxAdd = 2
  MaxSub = 1
INVARIANTS
  TypeOK
  BrokerInv
PROPERTY DeliverySpec
CHECK_DEADLOCK FALSE
