SPECIFICATION Spec
CONSTANTS
  PROC_MAX = 4
  Status = {0}
  SCHED_TICKS_PER_SLICE = 2
INVARIANT
  IdleYieldsToReady
CHECK_DEADLOCK FALSE
