SPECIFICATION PSpec
CONSTANTS
  PROC_MAX = 4
  Status = {0, 1}
  SCHED_TICKS_PER_SLICE = 2
INVARIANTS
  RingIsLive
  WaiterKeepsChild
  OneForeground
PROPERTIES
  ZombieKeptForParent
  ImplementsRoundRobin
  NoStarvation
  WaitpidReturns
CHECK_DEADLOCK FALSE
