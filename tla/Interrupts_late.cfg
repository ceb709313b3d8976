SPECIFICATION Spec
CONSTANTS
  c1 = c1
  c2 = c2
  x1 = x1
  x2 = x2
  d1 = d1
  Calls = {c1, c2}
  Contexts = {x1}
  NoContext = NoContext
  CtxOf <- FirstOnly
  Direct = {d1}
  NoAgent = NoAgent
  MaxNest = 2
  MaxGen = 1
  Catches = FALSE
  Swallows = FALSE
  Ignores = FALSE
PROPERTIES
  OnlyTheMeant
CHECK_DEADLOCK FALSE
