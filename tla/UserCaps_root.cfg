CONSTANTS
  RootRadix = 4
  Radices = {1}
  NewTypes = {"CNode", "Notification", "Page", "Tcb"}
  Nums = {1}
  MintTypes = {}
  CopyTypes = {}
  MoveTypes = {}
  Badges = {5}
  Depths = {}
  MaxObjects = 8
  MaxCaps = 12
  Copyable = {"Page", "Notification"}
  Mintable = {"EndPoint", "Notification"}
  MintNodes <- MCMintNodes
SPECIFICATION UserSpec
INVARIANTS
  PathsResolve
  CursorPastFilled
PROPERTIES
  StoreSpec
CHECK_DEADLOCK FALSE
