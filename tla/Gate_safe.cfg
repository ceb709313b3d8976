SPECIFICATION FairSpec
CONSTANTS
  g1 = g1
  g2 = g2
  Goroutines = {g1, g2}
  MaxNest = 1
  MaxDepth = 2
  HostMethods = {"call", "release", "close"}
  HostIn = {"drain", "body"}
  PanicIn = {"drain", "body"}
INVARIANTS
  DepthCoversCalls
  SerializedUnlessStrayed
PROPERTIES
  ImplementsSerializedCalls
  CallsReturn
CHECK_DEADLOCK FALSE
