CONSTANTS
  None = None
  IDLE = IDLE
  Root = root
  Threads = {root, t1}
  Endpoints = {e1}
  Notifications = {n1}
  Badges = {b1}
  Bits = {x}
  Messages = {m1, m2}
  TASK_QUANTUM = 2
  USIZE_MAX = 15
  ConfigStates = {"Inactive"}
  UnhandledTraps = TRUE
SPECIFICATION FairSpec
INVARIANTS
  TypeOK
  TwoThreadsSound
  NoLostWakeup
PROPERTIES
  ResultKeptUntilRun
  WokenOnlyByPeer
  RunnableEventuallyRuns
CHECK_DEADLOCK FALSE
