SPECIFICATION Spec
CONSTANTS
  MaxDepth = 4
  MaxItems = 2
INVARIANTS
  NothingLeaked
  ExceptionsConsumed
