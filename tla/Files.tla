------------------------------- MODULE Files -------------------------------
(***************************************************************************)
(* The file layer: the VFS and its descriptor table (src/src/vfs/vfs.c),   *)
(* tmpfs (src/src/tmpfs/tmpfs.c), devfs (src/src/devfs/devfs.c) and the    *)
(* system calls on descriptors (src/src/syscall/syscall.c).  During boot   *)
(* the modules' init functions, one thread, create, look up, open, read    *)
(* and write; the last one opens /dev/tty0 as descriptors 0 to 2 and       *)
(* starts the first processes, which share the one table and only read,    *)
(* write and close (open is a stub).  A read of tty0 gives up the          *)
(* processor until a line has been typed; all else is one step.  A node's  *)
(* size field, which nobody reads, and offsets near 2^32 are left out.     *)
(***************************************************************************)
EXTENDS Integers, Sequences, FiniteSetsExt

CONSTANTS
  TMPFS_MAX_NODES, TMPFS_MAX_CHILDREN, TMPFS_MAX_FILE_SIZE,
  VFS_MAX_FDS, DEVFS_MAX_DEVICES,
  FileNames,     \* names the init functions create
  DeviceNames,   \* devices registered after null and zero; "tty0" is one
  Callers,       \* processes
  MAX_WRITE,     \* bound: bytes per read or write
  MAX_CALLS,     \* bound: calls of the init functions
  MAX_SYSCALLS,  \* bound: system calls
  NULL

Inodes == 0 .. TMPFS_MAX_NODES - 1
Fds == 0 .. VFS_MAX_FDS - 1
Root == 0
Dev == 1      \* the inode of /dev
Junk == 99    \* a byte of a fresh heap block

\* A node that is found: which inode it copies, and the operations to use.
Kinds == {"dir", "file", "chardev"}
Nodes == [inode : Inodes, kind : Kinds, ops : {"tmpfs", "null", "zero"} \cup DeviceNames]

\* Boot takes four inodes, and a null pointer is not a node.
ASSUME FilesAssumption ==
  TMPFS_MAX_NODES \in Nat /\ TMPFS_MAX_NODES >= 4 /\ NULL \notin Nodes

VARIABLES
  inode,      \* the inode pool
  dev_table,  \* [name, ops] per registered device
  fd_table,   \* [open, node, offset] per descriptor
  std,        \* descriptors the launch of init has opened; NULL: it gave up
  reading,    \* [Callers -> descriptor whose read waits for a line, or NULL]
  calls,      \* calls so far
  last        \* the last call and what it returned

filevars == <<inode, dev_table, fd_table, std, reading, calls, last>>
-----------------------------------------------------------------------------
FreeInode == [used |-> FALSE, name |-> NULL, kind |-> NULL, data |-> <<>>, children |-> <<>>]
Inode(name, kind) ==
  [used |-> TRUE, name |-> name, kind |-> kind, data |-> <<>>, children |-> <<>>]

Unused(ino) == {i \in Inodes : ~ino[i].used}

\* tmpfs_create in directory p: the new inode pool and inode, or NULL.
CanCreate(ino, p) ==
  /\ ino[p].kind = "dir" /\ Len(ino[p].children) < TMPFS_MAX_CHILDREN
  /\ Unused(ino) # {}

tmpfs_create(ino, p, name, kind) ==
  IF ~CanCreate(ino, p) THEN [ino |-> ino, ret |-> NULL]
  ELSE LET i == Min(Unused(ino))
       IN  [ino |-> [ino EXCEPT ![i] = Inode(name, kind), ![p].children = Append(@, i)],
            ret |-> i]

\* A node is a copy: the inode, its kind and the operations to use.
inode_to_node(i) == [inode |-> i, kind |-> inode[i].kind, ops |-> "tmpfs"]

\* The first child of the name.
tmpfs_finddir(p, name) ==
  LET hits == {k \in DOMAIN inode[p].children : inode[inode[p].children[k]].name = name}
  IN  IF hits = {} THEN NULL ELSE inode_to_node(inode[p].children[Min(hits)])

Registered(name) == {k \in DOMAIN dev_table : dev_table[k].name = name}

\* Lookup in /dev: the inode from tmpfs, the operations from the device table.
dev_finddir(name) ==
  LET node == tmpfs_finddir(Dev, name)
  IN  IF node = NULL \/ Registered(name) = {} THEN node
      ELSE [node EXCEPT !.ops = dev_table[Min(Registered(name))].ops]

devfs_get_node(name) == IF Registered(name) = {} THEN NULL ELSE dev_finddir(name)
-----------------------------------------------------------------------------
\* What a node's read operation returns; null, zero and tmpfs.
Reads(node, at, n) ==
  IF node.ops = "null" THEN <<>>
  ELSE IF node.ops = "zero" THEN [k \in 1 .. n |-> 0]
  ELSE IF inode[node.inode].kind # "file" THEN NULL
  ELSE SubSeq(inode[node.inode].data, at + 1, Min({at + n, Len(inode[node.inode].data)}))

\* Mutant: the gap before a write past the end keeps what the heap block held.
tmpfs_write_nogap(node, at, data) ==
  LET old == inode[node.inode].data
      end == at + Len(data)
      grown == old \o [k \in 1 .. Max({0, end - Len(old)}) |-> Junk]
      new == [k \in DOMAIN grown |-> IF k > at /\ k <= end THEN data[k - at] ELSE grown[k]]
      fails == [ino |-> inode, ret |-> NULL]
  IN  IF inode[node.inode].kind # "file" \/ end > TMPFS_MAX_FILE_SIZE THEN {fails}
      ELSE {[ino |-> [inode EXCEPT ![node.inode].data = new], ret |-> Len(data)]}
           \cup IF end > Len(old) THEN {fails} ELSE {}

\* tmpfs_write: krealloc grows the block, or fails and leaves it; the gap
\* between the old end and the write is cleared.
tmpfs_write(node, at, data) ==
  LET old == inode[node.inode].data
      end == at + Len(data)
      grown == old \o [k \in 1 .. Max({0, end - Len(old)}) |-> Junk]
      clear == [k \in DOMAIN grown |-> IF k > Len(old) /\ k <= at THEN 0 ELSE grown[k]]
      new == [k \in DOMAIN clear |-> IF k > at /\ k <= end THEN data[k - at] ELSE clear[k]]
      fails == [ino |-> inode, ret |-> NULL]
  IN  IF inode[node.inode].kind # "file" \/ end > TMPFS_MAX_FILE_SIZE THEN {fails}
      ELSE {[ino |-> [inode EXCEPT ![node.inode].data = new], ret |-> Len(data)]}
           \cup IF end > Len(old) THEN {fails} ELSE {}

\* Devices take everything.
Writes(node, at, data) ==
  IF node.ops = "tmpfs" THEN tmpfs_write(node, at, data)
  ELSE {[ino |-> inode, ret |-> Len(data)]}
-----------------------------------------------------------------------------
\* Boot up to devfs_init: tmpfs mounted on /, with /dev and its two devices.
BootInodes ==
  [i \in Inodes |->
     IF i = Root THEN [Inode("/", "dir") EXCEPT !.children = <<Dev>>]
     ELSE IF i = Dev THEN [Inode("dev", "dir") EXCEPT !.children = <<2, 3>>]
     ELSE IF i = 2 THEN Inode("null", "chardev")
     ELSE IF i = 3 THEN Inode("zero", "chardev") ELSE FreeInode]

ClosedFd == [open |-> FALSE, node |-> NULL, offset |-> 0]

vfs_init ==
  /\ inode = BootInodes
  /\ dev_table = <<[name |-> "null", ops |-> "null"], [name |-> "zero", ops |-> "zero"]>>
  /\ fd_table = [fd \in Fds |-> ClosedFd]
  /\ std = 0
  /\ reading = [p \in Callers |-> NULL]
  /\ calls = 0 /\ last = [op |-> "none", ret |-> NULL]

\* The init functions' calls, until the launch of init begins.
Boot == std = 0 /\ calls < MAX_CALLS /\ calls' = calls + 1 /\ UNCHANGED <<std, reading>>

Create(p, name, kind) ==
  LET r == tmpfs_create(inode, p, name, kind) IN
  /\ Boot
  /\ inode' = r.ino
  /\ last' = [op |-> "create", dir |-> p, name |-> name, kind |-> kind, ret |-> r.ret]
  /\ UNCHANGED <<dev_table, fd_table>>

\* Mutant: the device is entered in the table although it got no inode.
devfs_register_first(name) ==
  LET full == Len(dev_table) >= DEVFS_MAX_DEVICES
      r == tmpfs_create(inode, Dev, name, "chardev")
      ret == IF full THEN NULL ELSE r.ret
  IN  /\ Boot
      /\ inode' = IF full THEN inode ELSE r.ino
      /\ dev_table' = IF full THEN dev_table ELSE Append(dev_table, [name |-> name, ops |-> name])
      /\ last' = [op |-> "create", dir |-> Dev, name |-> name, kind |-> "chardev", ret |-> ret]
      /\ UNCHANGED fd_table

devfs_register(name) ==
  LET full == Len(dev_table) >= DEVFS_MAX_DEVICES
      r == tmpfs_create(inode, Dev, name, "chardev")
      ret == IF full THEN NULL ELSE r.ret
  IN  /\ Boot
      /\ inode' = IF full THEN inode ELSE r.ino
      /\ dev_table' = IF ret = NULL THEN dev_table
                      ELSE Append(dev_table, [name |-> name, ops |-> name])
      /\ last' = [op |-> "create", dir |-> Dev, name |-> name, kind |-> "chardev", ret |-> ret]
      /\ UNCHANGED fd_table

vfs_finddir(p, name) ==
  LET node == tmpfs_finddir(p, name) IN
  /\ Boot
  /\ last' = [op |-> "find", dir |-> p, name |-> name,
              ret |-> IF node = NULL THEN NULL ELSE node.inode]
  /\ UNCHANGED <<inode, dev_table, fd_table>>

\* vfs_read and vfs_write of what a name in / finds, at any offset.
vfs_read(name, at, n) ==
  LET node == tmpfs_finddir(Root, name) IN
  /\ Boot /\ node # NULL
  /\ last' = [op |-> "read_at", file |-> node.inode, at |-> at, n |-> n,
              ret |-> Reads(node, at, n)]
  /\ UNCHANGED <<inode, dev_table, fd_table>>

vfs_write(name, at, data) ==
  LET node == tmpfs_finddir(Root, name) IN
  /\ Boot /\ node # NULL
  /\ \E w \in Writes(node, at, data) :
       /\ inode' = w.ino
       /\ last' = [op |-> "write_at", file |-> node.inode, at |-> at, data |-> data,
                   ret |-> w.ret]
  /\ UNCHANGED <<dev_table, fd_table>>

FreeFds == {fd \in Fds : ~fd_table[fd].open}

\* The first free descriptor gets a copy of the node.
vfs_fd_open(node) ==
  IF FreeFds = {} THEN UNCHANGED fd_table
  ELSE fd_table' = [fd_table EXCEPT ![Min(FreeFds)] = [open |-> TRUE, node |-> node, offset |-> 0]]

Opened(node) ==
  last' = [op |-> "open", of |-> node.inode,
           ret |-> IF FreeFds = {} THEN NULL ELSE Min(FreeFds)]

OpenNode(node) ==
  /\ Boot /\ node # NULL
  /\ vfs_fd_open(node) /\ Opened(node)
  /\ UNCHANGED <<inode, dev_table>>

\* vfs_fd_read of anything but tty0, vfs_fd_write and vfs_fd_close, whoever
\* calls them.
IsTty(fd) == fd_table[fd].node.ops = "tty0"
IsOpen(fd) == fd \in Fds /\ fd_table[fd].open

Advance(fd, n) == fd_table' = [fd_table EXCEPT ![fd].offset = @ + n]

vfs_fd_read(fd, n) ==
  LET ret == IF IsOpen(fd) THEN Reads(fd_table[fd].node, fd_table[fd].offset, n) ELSE NULL IN
  /\ IsOpen(fd) => ~IsTty(fd)
  /\ last' = [op |-> "read", fd |-> fd, n |-> n, ret |-> ret]
  /\ IF ret = NULL THEN UNCHANGED fd_table ELSE Advance(fd, Len(ret))
  /\ UNCHANGED <<inode, dev_table>>

vfs_fd_write(fd, data) ==
  LET outcomes == IF IsOpen(fd)
                  THEN Writes(fd_table[fd].node, fd_table[fd].offset, data)
                  ELSE {[ino |-> inode, ret |-> NULL]}
  IN  /\ \E w \in outcomes :
           /\ inode' = w.ino
           /\ last' = [op |-> "write", fd |-> fd, data |-> data, ret |-> w.ret]
           /\ IF w.ret = NULL THEN UNCHANGED fd_table ELSE Advance(fd, w.ret)
      /\ UNCHANGED dev_table

vfs_fd_close(fd) ==
  /\ fd_table' = [f \in Fds |-> IF f = fd /\ IsOpen(f)
                                THEN [fd_table[f] EXCEPT !.open = FALSE, !.offset = 0]
                                ELSE fd_table[f]]
  /\ last' = [op |-> "close", fd |-> fd, ret |-> 0]
  /\ UNCHANGED <<inode, dev_table>>
-----------------------------------------------------------------------------
\* The launch of init: tty0 three times, which must become 0, 1 and 2.
init_launch ==
  LET node == devfs_get_node("tty0") IN
  /\ std \in 0 .. 2
  /\ IF node = NULL
     THEN std' = NULL /\ UNCHANGED <<fd_table, last>>
     ELSE /\ vfs_fd_open(node) /\ Opened(node)
          /\ std' = IF last'.ret = std THEN std + 1 ELSE NULL
  /\ calls' = 0
  /\ UNCHANGED <<inode, dev_table, reading>>

\* System calls of a process that is not waiting in one.
SysCall(p) ==
  /\ std = 3 /\ reading[p] = NULL
  /\ calls < MAX_SYSCALLS /\ calls' = calls + 1

\* The read of tty0 waits.
sys_read_begin(p, fd) ==
  /\ SysCall(p) /\ IsOpen(fd) /\ IsTty(fd)
  /\ reading' = [reading EXCEPT ![p] = fd]
  /\ UNCHANGED <<inode, dev_table, fd_table, std, last>>

\* It returns a line of n characters and moves the position of a descriptor
\* that may have been closed meanwhile.
sys_read_end(p, n) ==
  LET fd == reading[p] IN
  /\ fd # NULL
  /\ Advance(fd, n)
  /\ last' = [op |-> "read", fd |-> fd, n |-> n, ret |-> [k \in 1 .. n |-> 1]]
  /\ reading' = [reading EXCEPT ![p] = NULL]
  /\ UNCHANGED <<inode, dev_table, std, calls>>

sys_read(p, fd, n) == SysCall(p) /\ vfs_fd_read(fd, n) /\ UNCHANGED <<std, reading>>
sys_write(p, fd, data) == SysCall(p) /\ vfs_fd_write(fd, data) /\ UNCHANGED <<std, reading>>
sys_close(p, fd) == SysCall(p) /\ vfs_fd_close(fd) /\ UNCHANGED <<std, reading>>

Data == {[k \in 1 .. n |-> k] : n \in 1 .. MAX_WRITE}

InitCall ==
  \/ \E p \in {Root, Dev}, name \in FileNames, kind \in {"file", "dir"} : Create(p, name, kind)
  \/ \E name \in DeviceNames : devfs_register(name)
  \/ \E p \in {Root, Dev}, name \in FileNames \cup DeviceNames : vfs_finddir(p, name)
  \/ \E name \in FileNames, at \in 0 .. TMPFS_MAX_FILE_SIZE :
       \/ \E n \in 1 .. MAX_WRITE : vfs_read(name, at, n)
       \/ \E data \in Data : vfs_write(name, at, data)
  \/ \E name \in FileNames : OpenNode(tmpfs_finddir(Root, name))
  \/ \E name \in {"null", "zero"} \cup DeviceNames : OpenNode(devfs_get_node(name))
  \/ \E fd \in Fds : \/ Boot /\ \E n \in 1 .. MAX_WRITE : vfs_fd_read(fd, n)
                     \/ Boot /\ \E data \in Data : vfs_fd_write(fd, data)
                     \/ Boot /\ vfs_fd_close(fd)

UserCall ==
  \E p \in Callers :
    \/ \E n \in 0 .. MAX_WRITE : sys_read_end(p, n)
    \/ \E fd \in 0 .. VFS_MAX_FDS :
         \/ sys_read_begin(p, fd) \/ sys_close(p, fd)
         \/ \E n \in 1 .. MAX_WRITE : sys_read(p, fd, n)
         \/ \E data \in Data : sys_write(p, fd, data)

FileNext == InitCall \/ init_launch \/ UserCall

FileSpec == vfs_init /\ [][FileNext]_filevars
-----------------------------------------------------------------------------
\* A device in the table can be opened: /dev has a node of its name, and the
\* lookup gives it the operations of the first device registered under the
\* name, however full the inode pool, /dev and the table are when others are
\* registered (devfs_register, dev_finddir, devfs_get_node).
DevicesResolve ==
  \A k \in DOMAIN dev_table :
    LET node == devfs_get_node(dev_table[k].name)
    IN  node # NULL /\ node.ops = dev_table[k].name
=============================================================================
