\* Three handles on up to two messages, three values, some four hundred byte arrays.
SPECIFICATION Spec
CONSTANTS
  Owners = {o1, o2, o3}
  Messages = {m1, m2}
  Maps = {p1, p2}
  Buffers = {c1, c2}
  Configs <- SomeConfigs
  Foreign <- SomeForeign
  None = None
SYMMETRY MCSymmetry
INVARIANTS
  CountsAreRight
  LiveWhileOwned
  BytesAreReadBack
