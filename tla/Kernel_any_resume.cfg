CONSTANTS
  None = None
  IDLE = IDLE
  Root = root
  Threads = {root, t1}
  Endpoints = {e1}
  Notifications = {n1}
  Badges = {b1}
  Bits = {}
  Messages = {m1}
  TASK_QUANTUM = 2
  USIZE_MAX = 15
  ConfigStates = {"Inactive", "Runnable", "Blocked"}
  UnhandledTraps = FALSE
SPECIFICATION Spec
INVARIANTS
  QueueEnds
  EndpointIdleIffEmpty
  NoQueuedThreadForgotten
  TimeSliceInRange
  AddressSpaceOfCurrent
CHECK_DEADLOCK FALSE
