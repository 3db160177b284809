\* Three modules, three links, one module list on its way.  A broker that fails
\* may lose the subscriptions of other links (README, What does not hold).
SPECIFICATION Spec
CONSTANTS
  a1 = a1  a2 = a2  b = b
  All = All
  NoList = NoList
  Handles = {a1, a2, b}
  Setups <- MCSetups
  MaxModules = 3
  MaxLinks = 3
  MaxPending = 1
SYMMETRY Symmetry
INVARIANTS
  GatewayInv
  SubscriptionsAreExact
  ObserverIsUpToDate
PROPERTY TopologySpec
