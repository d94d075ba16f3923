---------------------------- MODULE FilesRefines ----------------------------
(***************************************************************************)
(* The VFS, tmpfs and the descriptor table implement module FileSystem:    *)
(* the inodes in use are the files made, an inode's data a file's content, *)
(* and a lookup in a directory its entry.                                  *)
(***************************************************************************)
EXTENDS Files

\* The file layer seen from outside.
Found(p, name) ==
  LET node == tmpfs_finddir(p, name) IN IF node = NULL THEN NULL ELSE node.inode

F == INSTANCE FileSystem WITH
       made <- {i \in Inodes : inode[i].used},
       content <- [i \in Inodes |-> IF inode[i].kind = "file" THEN inode[i].data ELSE NULL],
       dir <- [p \in {Root, Dev} |-> [name \in FileNames \cup DeviceNames |-> Found(p, name)]],
       desc <- [fd \in Fds |->
                  IF ~fd_table[fd].open THEN NULL
                  ELSE [of |-> fd_table[fd].node.inode,
                        at |-> IF fd_table[fd].node.kind = "file" THEN fd_table[fd].offset ELSE 0]]

\* Every call does what the abstract file layer does: a file holds what was
\* written to it with zeros in its gaps, never a byte of an old heap block; a
\* name keeps finding what was first created under it; descriptors are given
\* out lowest first, move by what was read or written through them alone, and
\* a call that fails, for want of heap, inodes or descriptors, changes nothing.
ImplementsFileSystem == F!FSpec
=============================================================================
