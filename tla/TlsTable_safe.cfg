SPECIFICATION FairSpec
CONSTANTS
  g1 = g1
  g2 = g2
  s1 = s1
  s2 = s2
  s3 = s3
  Goroutines = {g1, g2}
  Ids = {0, 1, 3}
  Slots = {s1, s2, s3}
  NoSlot = NoSlot
  Nobody = Nobody
PROPERTIES
  ImplementsSlotMap
  LookupsReturn
