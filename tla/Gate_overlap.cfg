SPECIFICATION Spec
CONSTANTS
  g1 = g1
  g2 = g2
  Goroutines = {g1, g2}
  MaxNest = 0
  MaxDepth = 2
  HostMethods = {"call", "release", "close"}
  HostIn = {}
  PanicIn = {}
SYMMETRY Symmetry
INVARIANTS
  Serialized
CHECK_DEADLOCK FALSE
