\* A client and callbacks that report and register at the same time; every call
\* may fail.  Reports stop at MaxReports, and the client need not destroy.
SPECIFICATION FairSpec
CONSTANTS
  None = None
  Clients = {c1}
  Threads = {t1, t2, t3}
  Callbacks = {f}
  Events = {started, changed}
  ListChanged = changed
  MayFail = {"malloc", "VECTOR_create", "VECTOR_push_back", "ThreadAPI_Create", "Gateway_LL_GetModuleList"}
  Reentrant = TRUE
  MaxReports = 3
  MaxCallbacks = 1
INVARIANTS
  ThreadInv
  ContextIsLive
PROPERTIES
  CalledInOrder
  ServedByThread
  DestroyReturns
CHECK_DEADLOCK FALSE
