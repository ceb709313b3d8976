SPECIFICATION FairSpec
CONSTANTS
  t1 = t1
  t2 = t2
  d1 = d1
  d2 = d2
  Threads = {t1, t2}
  Dispatchers = {d1, d2}
  Nobody = Nobody
  Signals = {1}
  MaxSent = 2
INVARIANTS
  AnsweredOnce
  PendingIsBlocked
  NoSleepOverPending
PROPERTIES
  SigwaitServed
  UnblockedAnswered
  ReplacedEnds
CHECK_DEADLOCK FALSE
