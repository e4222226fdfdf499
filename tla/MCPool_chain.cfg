SPECIFICATION Spec
CONSTANTS
  BlockBits = 1
  FirstSize = 1
  MaxDepth = 3
  MaxAddr = 7
  Values = {v}
  NoValue = NoValue
INVARIANTS HeldIsInUse HeldIsFound
PROPERTIES EarliestPool PoolImplementsStore
CHECK_DEADLOCK FALSE
