CONSTANTS
  None = None
  IDLE = IDLE
  Root = root
  Child = child
  Simple = simple
  Threads = {root, child, simple}
  Endpoint = ep
  Endpoints = {ep}
  Notify = notify
  Notifications = {notify}
  Unbadged = b0
  DeadBeef = bdeadbeef
  Badges = {b0, bdeadbeef}
  Bit2 = bit2
  Bit3 = bit3
  Bits = {bit2, bit3}
  Messages = {regs, three}
  TASK_QUANTUM = 2
  USIZE_MAX = 15
  ConfigStates = {"Inactive"}
  UnhandledTraps = FALSE
  LineParts = 2
SPECIFICATION DemoSpec
INVARIANTS
  NoPanic
  ResultsArrive
PROPERTIES
  VerdictPrinted
