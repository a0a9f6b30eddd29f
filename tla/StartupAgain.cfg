SPECIFICATION Spec
CONSTANTS
  Kinds <- MCKinds
  OldShapes <- MCOldShapes
  PerDay = 2
  Window = 1
  CostUnit = 5
  MaxNow = 3
  MaxRows = 3
  MaxLeft = 2
  MaxStored = 3
  MaxKills = 2
INVARIANTS StartsAgain
