CONSTANTS
  Threads = {root, t1}
  Root = root
  IDLE = idleThread
  CPU_VAR = CpuVar
  GPR <- MCGPR
  Versions = {0}
SPECIFICATION Spec
INVARIANTS
  IdleInterruptible
PROPERTIES
  RegistersKept
CHECK_DEADLOCK FALSE
