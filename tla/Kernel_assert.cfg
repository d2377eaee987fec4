CONSTANTS
  None = None
  IDLE = IDLE
  Root = root
  Threads = {root, t1, t2}
  Endpoints = {e1}
  Notifications = {}
  Badges = {b1}
  Bits = {}
  Messages = {m1}
  TASK_QUANTUM = 1
  USIZE_MAX = 15
  ConfigStates = {"Inactive"}
  UnhandledTraps = FALSE
SPECIFICATION Spec
INVARIANT NextIsNoneAsserted
CHECK_DEADLOCK FALSE
