SPECIFICATION FairSpec
CONSTANTS
  t1 = t1
  t2 = t2
  Threads = {t1, t2}
  Calls <- MCCalls
  MaxDelivered = 2
INVARIANTS
  OneInterruptEach
  FlagsKept
PROPERTIES
  EAGAINIsMeant
  DeliveryNoticed
CHECK_DEADLOCK FALSE
