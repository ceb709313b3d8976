SPECIFICATION FairSpec
CONSTANTS
  o1 = o1
  o2 = o2
  g1 = g1
  g2 = g2
  Objects = {o1, o2}
  NoObject = NoObject
  Goroutines = {g1, g2}
  MaxNest = 1
  HostMethods = {"use", "release", "close"}
  HostIn = {"del", "c", "after"}
INVARIANTS
  ExactlyOneOwner
  BorrowedStaysAlive
PROPERTIES
  GarbageGivenBack
