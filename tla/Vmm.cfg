SPECIFICATION MCSpec
CONSTANTS
  Procs = {p1, p2}
  First = p1
  Pages <- MCPages
  PT_ENTRIES = 2
  Image = {1}
  Stack = {3}
  MMAP_BASE = 2
  MMAP_LIMIT = 3
  KernelBuffers = {1}
  Frames <- MCFrames
  Values = {0, 1}
  Zero = 0
  None = None
  Seen <- AllButBuffers
  TMPFS_MAX_NODES = 6
  TMPFS_MAX_CHILDREN = 4
  TMPFS_MAX_FILE_SIZE = 3
  VFS_MAX_FDS = 3
  DEVFS_MAX_DEVICES = 3
  Callers = {p1, p2}
  FileNames = {"a"}
  DeviceNames = {"tty0"}
  MAX_WRITE = 2
  MAX_CALLS = 4
  MAX_SYSCALLS = 2
  NULL = NULL
  SECTORS = 2
  MAX_COUNT = 3
  SectorData = {"x", "y"}
  SectorJunk = "junk"
CHECK_DEADLOCK FALSE
INVARIANTS
  WritableIsExclusive
  TlbCoherent
  DevicesResolve
  ReadIsStored
PROPERTY
  ImplementsPrivateMemory
  FaultsAreInvisible
  ImplementsFileSystem
