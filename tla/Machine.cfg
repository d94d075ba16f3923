SPECIFICATION MCSpec
CONSTANTS
  PMM_MAX_FRAMES = 8
  FRAME_SIZE = 2
  WORD = 16
  KernelFrames = {1, 2}
  MAX_REGIONS = 3
  Regions <- MapEntries
  HEAP_MIN_ORDER = 1
  HEAP_MAX_ORDER = 3
  SLAB_SIZE = 8
  SLAB_HDR = 2
  LARGE_HDR = 1
  U32 = 16
  NFRAMES = 3
  Sizes = {1, 3}
  MAX_BLOCKS = 5
  Procs = {p1, p2, p3}
  First = p1
  idle = idle
  Contexts = {main, loop}
  Entry = main
  Stacks = {k1, k2, k3, k4}
  None = None
  IrqProcs = {p1, p2}
  IRQ_COUNT = 16
  TIMER_MAX_CALLBACKS = 8
  SCHED_TICKS_PER_SLICE = 2
  NoFunction = NoFunction
  LEVELS = 3
  PT_ENTRIES = 2
  boot = 101
  kernel = 102
  Pool = {1, 2, 3, 4}
  UserPages <- TwoTables
  KernelPages <- OneTable
  Phys = {201, 202}
SYMMETRY Symmetry
INVARIANTS
  OwnedIsReserved
  CounterTracksBitmap
  
  
  InterruptIsWhole
  WalkFindsMapping
 
