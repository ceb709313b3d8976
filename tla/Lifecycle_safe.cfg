SPECIFICATION FairSpec
CONSTANTS
  g1 = g1
  g2 = g2
  i1 = i1
  i2 = i2
  Goroutines = {g1, g2}
  Nobody = Nobody
  Interps = {i1, i2}
  None = None
  MaxHost = 1
  MaxNest = 1
  HostMethods = {"call"}
  FinalMethods = {"call"}
INVARIANTS
  OneInterpreter
  RuntimeIsItsOwn
  CallbacksReach
  NothingLeftBehind
  FramesHaveRuntime
PROPERTIES
  LocksAreFreed
CHECK_DEADLOCK FALSE
