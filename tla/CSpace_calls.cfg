CONSTANTS
  RootRadix = 3
  Radices = {1}
  NewTypes = {"Tcb", "CNode", "EndPoint"}
  Nums = {0, 1}
  MintTypes = {"EndPoint"}
  Badges = {1}
  CopyTypes = {"CNode", "Untyped", "Tcb", "Page"}
  MoveTypes = {"CNode", "EndPoint"}
  Depths = {3, 4}
  MaxObjects = 8
  MaxCaps = 11
SPECIFICATION Spec
INVARIANTS
  TypeOK
  CapsMatchObjects
  OneCapPerUntypedAndTcb
PROPERTIES
  NoCapOverwritten
CHECK_DEADLOCK FALSE
