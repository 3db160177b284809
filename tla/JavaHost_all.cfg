SPECIFICATION Spec
CONSTANTS
  NULL = NULL
  Hosts = {"h1", "h2", "h3"}
  Configs <- MCConfigs
  MaxCreations = 4
INVARIANT HostInv
PROPERTY DestroyReturns
CHECK_DEADLOCK FALSE
