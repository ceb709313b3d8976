SPECIFICATION FairSpec
CONSTANTS
  c1 = c1
  c2 = c2
  x1 = x1
  x2 = x2
  d1 = d1
  Calls = {c1, c2}
  Contexts = {x1}
  NoContext = NoContext
  CtxOf <- Shared
  Direct = {d1}
  NoAgent = NoAgent
  MaxNest = 2
  MaxGen = 2
  Catches = TRUE
  Swallows = TRUE
  Ignores = TRUE
INVARIANTS
  OneOnItls
  TrippedIsSeen
  OneRaisePerRequest
PROPERTIES
  CancelStops
  WatchersEnd
CHECK_DEADLOCK FALSE
