SPECIFICATION FairSpec
CONSTANTS
  p1 = p1
  p2 = p2
  Processes = {p1, p2}
  NFiles = 3
  MaxFaults = 2
  MaxKills = 2
INVARIANTS
  FailsOnlyOnFault
  LeftBehindByKilled
PROPERTIES
  InstallsAtomically
  HomeReturns
