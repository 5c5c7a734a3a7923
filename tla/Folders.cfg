SPECIFICATION Spec
CONSTANTS
  None = None
  Word <- MCWord
  Setups <- MCSetups
  Orders <- MCOrders
  MaxPasses = 2
INVARIANTS
  PairsDisjoint
  EverythingPaired
PROPERTY
  CreatesOnce
CHECK_DEADLOCK FALSE
