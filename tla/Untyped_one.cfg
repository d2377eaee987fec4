CONSTANTS
  Start = 16
  BlockBits = 5
  SizeOf <- MCSizeOf
  AlignOf <- MCAlignOf
  WordAlign = 2
  WordBits = 10
  UserSizes = {0, 1, 9}
  Nums = {1}
  OverflowChecks = TRUE
SPECIFICATION UntypedSpec
INVARIANTS
  ObjectsInBlock
  ObjectsDisjoint
  ObjectsAligned
CHECK_DEADLOCK FALSE
