----------------------------- MODULE FileSystem -----------------------------
(***************************************************************************)
(* What the file layer promises its callers.  A file is a sequence of      *)
(* bytes; a name found in a directory always finds what was first created  *)
(* under it; a descriptor is a position in a file or an open device.  A    *)
(* write past the end leaves zeros before it, a call that fails leaves     *)
(* everything as it was.  last is the call just made and what it returned. *)
(***************************************************************************)
EXTENDS Integers, FiniteSetsExt, SequencesExt

CONSTANTS Fds, NULL   \* NULL: no file, no name, not open, or a failed call

VARIABLES
  made,      \* the files, directories and devices that exist
  content,   \* [what may be made -> its bytes; NULL when it is not a file]
  dir,       \* [directory -> [name -> what it finds]]
  desc,      \* [Fds -> [of, at], or NULL]
  last

fsvars == <<made, content, dir, desc, last>>

Bytes(s, at, n) == SubSeq(s, at + 1, Min({at + n, Len(s)}))
Overwritten(s, at, data) ==
  [k \in 1 .. Max({Len(s), at + Len(data)}) |->
     IF k > at /\ k <= at + Len(data) THEN data[k - at]
     ELSE IF k <= Len(s) THEN s[k] ELSE 0]

Called(op) == last'.op = op
Failed == last'.ret = NULL

Create ==
  LET new == last'.ret IN
  /\ Called("create") /\ ~Failed
  /\ new \notin made /\ made' = made \cup {new}
  /\ content' = [content EXCEPT ![new] = IF last'.kind = "file" THEN <<>> ELSE NULL]
  /\ dir' = [dir EXCEPT ![last'.dir][last'.name] = IF @ = NULL THEN new ELSE @]
  /\ UNCHANGED desc

Find ==
  /\ Called("find") /\ last'.ret = dir[last'.dir][last'.name]
  /\ UNCHANGED <<made, content, dir, desc>>

ReadAt ==
  /\ Called("read_at") /\ content[last'.file] # NULL
  /\ last'.ret = Bytes(content[last'.file], last'.at, last'.n)
  /\ UNCHANGED <<made, content, dir, desc>>

WriteAt ==
  /\ Called("write_at") /\ ~Failed
  /\ content' = [content EXCEPT ![last'.file] = Overwritten(@, last'.at, last'.data)]
  /\ last'.ret = Len(last'.data)
  /\ UNCHANGED <<made, dir, desc>>

\* The lowest free descriptor; there is none only when all are open.
Opening ==
  LET free == {fd \in Fds : desc[fd] = NULL} IN
  /\ Called("open")
  /\ last'.ret = IF free = {} THEN NULL ELSE Min(free)
  /\ desc' = IF free = {} THEN desc
             ELSE [desc EXCEPT ![Min(free)] = [of |-> last'.of, at |-> 0]]
  /\ UNCHANGED <<made, content, dir>>

Close ==
  /\ Called("close")
  /\ desc' = [fd \in Fds |-> IF fd = last'.fd THEN NULL ELSE desc[fd]]
  /\ UNCHANGED <<made, content, dir>>

\* Through a descriptor: at its position, which moves by what was done.
\* Devices have no position.
IsFile(fd) == content[desc[fd].of] # NULL
Moved(fd, n) == desc' = [desc EXCEPT ![fd].at = @ + n]

Read ==
  LET fd == last'.fd IN
  /\ Called("read") /\ fd \in Fds /\ ~Failed
  /\ IF desc[fd] # NULL /\ IsFile(fd)
     THEN /\ last'.ret = Bytes(content[desc[fd].of], desc[fd].at, last'.n)
          /\ Moved(fd, Len(last'.ret))
     ELSE UNCHANGED desc
  /\ UNCHANGED <<made, content, dir>>

Write ==
  LET fd == last'.fd IN
  /\ Called("write") /\ ~Failed /\ desc[fd] # NULL
  /\ last'.ret = Len(last'.data)
  /\ IF IsFile(fd)
     THEN /\ content' = [content EXCEPT ![desc[fd].of] = Overwritten(@, desc[fd].at, last'.data)]
          /\ Moved(fd, Len(last'.data))
     ELSE UNCHANGED <<content, desc>>
  /\ UNCHANGED <<made, dir>>

\* A call that fails changes nothing.
Fail == Failed /\ ~Called("open") /\ ~Called("find") /\ UNCHANGED <<made, content, dir, desc>>

FNext ==
  \/ Create \/ Find \/ ReadAt \/ WriteAt \/ Opening \/ Close \/ Read \/ Write \/ Fail

\* Nothing is open at first, and whatever exists is found or has no name.
FInit ==
  /\ desc = [fd \in Fds |-> NULL]
  /\ \A d \in DOMAIN dir : \A n \in DOMAIN dir[d] : dir[d][n] \in made \cup {NULL}
  /\ \A f \in DOMAIN content : content[f] = NULL

FSpec == FInit /\ [][FNext]_fsvars
=============================================================================
