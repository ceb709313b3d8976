SPECIFICATION TimerFairSpec
CONSTANT
  MaxSets = 4
INVARIANT
  OneTimerUnlessRaced
PROPERTIES
  DisarmedQuiets
  KeepsTicking
CHECK_DEADLOCK FALSE
