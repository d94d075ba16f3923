---------------------------- MODULE StorageProofs ----------------------------
(***************************************************************************)
(* Proofs about the disk driver (Ata) and the device files (Files): a read *)
(* that returns 0 has the sectors asked for, and a registered device can   *)
(* be opened and has its own operations.                                   *)
(***************************************************************************)
EXTENDS Files, Ata, WellFoundedInduction, TLAPS

(***************************************************************************)
(* The disk.                                                               *)
(***************************************************************************)
Contents == Channels \cup SectorData \cup {SectorJunk}
Transfers == [op : {"boot", "none", "read", "write"}, lba : Nat, count : Nat, done : Nat,
              buf : Seq(Contents)]
Commands == [op : {"none", "read", "write", "flush"}, at : Nat, left : Int, err : BOOLEAN]
Disks == [Channels -> [0 .. SECTORS - 1 -> Contents]]

\* The types of the variables.
AtaTypes ==
  /\ drive \in [Channels -> {"none", "atapi", "ata"}]
  /\ disk \in Disks
  /\ cmd \in Commands /\ transfer \in Transfers /\ returned \in Transfers

\* The first n sectors of a transfer are in its buffer.
Stored(c, n) ==
  \A i \in 1 .. n : c.lba + i - 1 < SECTORS /\ disk[ata_base][c.lba + i - 1] = c.buf[i]

\* A transfer uses the drive that was identified.
Identified ==
  /\ ata_total_sectors # 0 => ata_base \in Channels /\ drive[ata_base] = "ata"
  /\ transfer.op \in {"read", "write"} => ata_total_sectors # 0

\* The drive and the driver agree how far a read has come, and what came so
\* far is in the buffer.
Reading ==
  transfer.op = "read" =>
    /\ cmd.at = transfer.lba + transfer.done
    /\ Len(transfer.buf) = transfer.done
    /\ transfer.done <= transfer.count
    /\ Stored(transfer, transfer.done)

\* A write has been given as many sectors as it writes.
Writing == transfer.op = "write" => Len(transfer.buf) = transfer.count

\* A call in progress has replaced what the one before it returned, so the
\* sectors a read returned have not been written since.
ReturnedHolds ==
  /\ transfer.op # "none" => returned.op = "none"
  /\ returned.op = "read" => ata_total_sectors # 0 /\ Stored(returned, returned.count)

ReadInv == AtaTypes /\ Identified /\ Reading /\ Writing /\ ReturnedHolds

\* The records the driver starts from.
LEMMA NoTransferFields ==
  /\ NoTransfer \in Transfers /\ NoTransfer.op = "none"
  /\ [NoTransfer EXCEPT !.op = "boot"] \in Transfers
  /\ [NoTransfer EXCEPT !.op = "boot"].op = "boot"
  /\ NoCommand \in Commands
  /\ [NoCommand EXCEPT !.op = "flush"] \in Commands
<1>1. <<>> \in Seq(Contents)  OBVIOUS
<1>2. NoTransfer \in Transfers /\ NoTransfer.op = "none"
  BY Zenon, <1>1 DEF NoTransfer, Transfers
<1>3. [NoTransfer EXCEPT !.op = "boot"] \in Transfers /\ [NoTransfer EXCEPT !.op = "boot"].op = "boot"
  BY Zenon, <1>1 DEF NoTransfer, Transfers
<1>4. NoCommand \in Commands /\ [NoCommand EXCEPT !.op = "flush"] \in Commands
  <2>1. 0 \in Nat /\ 0 \in Int  OBVIOUS
  <2>2. NoCommand \in Commands
    BY Zenon, <2>1 DEF NoCommand, Commands
  <2> QED  BY Zenon, <2>2 DEF Commands
<1> QED  BY <1>2, <1>3, <1>4

\* What a call to read or write sets up (lba_setup): its fields and types.
LEMMA StartFields ==
  ASSUME NEW op \in {"read", "write"}, NEW r \in Requests, NEW buf \in Seq(Contents),
         NEW c, c = [op |-> op, lba |-> r.lba, count |-> r.count, done |-> 0, buf |-> buf]
  PROVE  /\ c \in Transfers /\ c.op = op /\ c.lba = r.lba /\ c.count = r.count
         /\ c.done = 0 /\ c.buf = buf /\ r.lba \in Nat /\ r.count \in Nat
<1>1. r.lba \in Nat /\ r.count \in Nat
  BY AtaAssumption DEF Requests
<1> QED  BY <1>1 DEF Transfers

LEMMA CommandTyped ==
  ASSUME NEW op \in {"read", "write"}, NEW lba \in Nat, NEW count \in Nat,
         lba_setup(op, lba, count)
  PROVE  cmd' \in Commands /\ cmd'.at = lba
<1>1. (IF count = 0 THEN MAX_COUNT ELSE count) \in Int
  BY AtaAssumption
<1> QED  BY <1>1 DEF lba_setup, Commands

\* Before ata_init there is no call, no drive and nothing returned.
LEMMA AtaStarts == ata_reset => ReadInv
<1> SUFFICES ASSUME ata_reset PROVE ReadInv
  OBVIOUS
<1>1. disk \in Disks
  BY DEF ata_reset, Disks, Contents
<1>2. AtaTypes
  BY <1>1, NoTransferFields DEF AtaTypes, ata_reset
<1>3. transfer.op = "boot" /\ returned.op = "none" /\ ata_total_sectors = 0
  BY NoTransferFields DEF ata_reset
<1> QED  BY <1>2, <1>3 DEF ReadInv, Identified, Reading, Writing, ReturnedHolds

\* ata_init: a channel that answered with a size has a drive on it.
LEMMA InitPreserves == ReadInv /\ ata_init => ReadInv'
<1> SUFFICES ASSUME ReadInv, ata_init PROVE ReadInv'
  OBVIOUS
<1>1. /\ transfer.op = "boot" /\ transfer' = NoTransfer
      /\ drive' = drive /\ disk' = disk /\ cmd' = cmd /\ returned' = returned
  BY DEF ata_init
<1>2. transfer'.op = "none" /\ transfer' \in Transfers
  BY <1>1, NoTransferFields
<1>3. returned'.op = "none"
  BY <1>1 DEF ReadInv, ReturnedHolds
<1>4. AtaTypes'
  BY <1>1, <1>2 DEF ReadInv, AtaTypes
<1>5. Identified'
  <2>1. ata_total_sectors' # 0 => ata_base' \in Channels /\ drive[ata_base'] = "ata"
    BY AtaAssumption DEF ata_init, try_identify, ReadInv, Identified, Channels
  <2> QED  BY <1>1, <1>2, <2>1 DEF Identified
<1> QED  BY <1>2, <1>3, <1>4, <1>5 DEF ReadInv, Reading, Writing, ReturnedHolds

\* The start of a call: nothing has been transferred yet.
LEMMA StartPreserves ==
  ASSUME ReadInv, NEW op \in {"read", "write"}, NEW r \in Requests,
         NEW buf \in Seq(Contents), op = "read" => buf = <<>>,
         op = "write" => Len(buf) = r.count, Start(op, r, buf)
  PROVE  ReadInv'
<1> DEFINE c == [op |-> op, lba |-> r.lba, count |-> r.count, done |-> 0, buf |-> buf]
<1>1. /\ drive' = drive /\ disk' = disk /\ returned' = NoTransfer
      /\ ata_total_sectors' = ata_total_sectors /\ ata_base' = ata_base
  BY DEF Start, identified
<1>2. returned'.op = "none" /\ returned' \in Transfers
  BY <1>1, NoTransferFields
<1>3. ReturnedHolds'
  BY <1>2 DEF ReturnedHolds
<1>4. CASE transfer' = NoTransfer /\ UNCHANGED cmd
  <2>1. transfer'.op = "none" /\ transfer' \in Transfers
    BY <1>4, NoTransferFields
  <2>2. AtaTypes'
    BY <1>1, <1>2, <1>4, <2>1 DEF ReadInv, AtaTypes
  <2> QED  BY <1>1, <1>3, <2>1, <2>2 DEF ReadInv, Identified, Reading, Writing
<1>5. CASE ata_total_sectors # 0 /\ lba_setup(op, r.lba, r.count) /\ transfer' = c
  <2>1. /\ c \in Transfers /\ c.op = op /\ c.lba = r.lba /\ c.count = r.count
        /\ c.done = 0 /\ c.buf = buf /\ r.lba \in Nat /\ r.count \in Nat
    BY StartFields
  <2>2. cmd' \in Commands /\ cmd'.at = r.lba
    BY <1>5, <2>1, CommandTyped
  <2> HIDE DEF c
  <2>3. AtaTypes'
    BY <1>1, <1>2, <1>5, <2>1, <2>2 DEF ReadInv, AtaTypes
  <2>4. Identified'
    BY <1>1, <1>5 DEF ReadInv, Identified
  <2>5. Stored(transfer, transfer.done)'
    BY <1>5, <2>1 DEF Stored
  <2>6. op = "read" => Len(buf) = 0
    OBVIOUS
  <2>7. Reading'
    BY <1>5, <2>1, <2>2, <2>5, <2>6 DEF Reading
  <2>8. Writing'
    BY <1>5, <2>1 DEF Writing
  <2> QED  BY <1>3, <2>3, <2>4, <2>7, <2>8 DEF ReadInv
<1> QED  BY <1>4, <1>5 DEF Start

\* PollFails: the call is over and has returned nothing.
LEMMA FailPreserves == ReadInv /\ PollFails => ReadInv'
<1> SUFFICES ASSUME ReadInv, PollFails PROVE ReadInv'
  OBVIOUS
<1>1. /\ drive' = drive /\ disk' = disk /\ cmd' = cmd
      /\ ata_total_sectors' = ata_total_sectors /\ ata_base' = ata_base
      /\ transfer' = NoTransfer /\ returned' = NoTransfer
  BY DEF PollFails, Return, identified
<1>2. AtaTypes'
  BY <1>1, NoTransferFields DEF ReadInv, AtaTypes
<1>3. transfer'.op = "none" /\ returned'.op = "none"
  BY <1>1, NoTransferFields
<1> QED  BY <1>1, <1>2, <1>3 DEF ReadInv, Identified, Reading, Writing, ReturnedHolds

\* A call that returns 0: what it transferred is what was returned.
LEMMA DonePreserves == ReadInv /\ (ReadDone \/ WriteDone) => ReadInv'
<1> SUFFICES ASSUME ReadInv, ReadDone \/ WriteDone PROVE ReadInv'
  OBVIOUS
<1>1. /\ drive' = drive /\ disk' = disk
      /\ ata_total_sectors' = ata_total_sectors /\ ata_base' = ata_base
      /\ transfer' = NoTransfer /\ returned' = transfer
      /\ transfer.op \in {"read", "write"} /\ transfer.done = transfer.count
  BY DEF ReadDone, WriteDone, Return, identified
<1>2. cmd' \in Commands
  BY NoTransferFields DEF ReadDone, WriteDone, ReadInv, AtaTypes
<1>3. AtaTypes'
  BY <1>1, <1>2, NoTransferFields DEF ReadInv, AtaTypes
<1>4. transfer'.op = "none"
  BY <1>1, NoTransferFields
<1>5. ReturnedHolds'
  <2>1. transfer.op = "read" => Stored(transfer, transfer.count)
    BY <1>1 DEF ReadInv, Reading
  <2>2. transfer.op = "read" => Stored(returned, returned.count)'
    BY <1>1, <2>1 DEF Stored
  <2>3. ata_total_sectors' # 0
    BY <1>1 DEF ReadInv, Identified
  <2> QED  BY <1>1, <1>4, <2>2, <2>3 DEF ReturnedHolds
<1> QED  BY <1>1, <1>3, <1>4, <1>5 DEF ReadInv, Identified, Reading, Writing

\* The drive moves on by one sector.
LEMMA NextSectorTyped ==
  ASSUME cmd \in Commands
  PROVE  /\ NextSector \in Commands /\ NextSector.at = cmd.at + 1
         /\ [NextSector EXCEPT !.err = TRUE] \in Commands
<1>1. cmd.at + 1 \in Nat /\ cmd.left - 1 \in Int
  BY DEF Commands
<1>2. NextSector \in Commands /\ NextSector.at = cmd.at + 1
  BY Zenon, <1>1 DEF NextSector, Commands
<1> QED  BY Zenon, <1>2 DEF Commands

\* ReadSector: the poll that was no error found data, inside the disk.
LEMMA ReadPreserves == ReadInv /\ ReadSector => ReadInv'
<1> SUFFICES ASSUME ReadInv, ReadSector PROVE ReadInv'
  OBVIOUS
<1> DEFINE v == disk[ata_base][cmd.at]
<1>1. /\ drive' = drive /\ disk' = disk /\ returned' = returned
      /\ ata_total_sectors' = ata_total_sectors /\ ata_base' = ata_base
      /\ transfer.op = "read" /\ transfer.done < transfer.count
  BY DEF ReadSector, identified
<1>2. /\ DataDue /\ cmd' = NextSector
      /\ transfer' = [transfer EXCEPT !.done = @ + 1, !.buf = Append(@, v)]
  BY Zenon DEF ReadSector, poll_drq, ErrBit
<1>3. transfer \in Transfers /\ cmd \in Commands /\ returned \in Transfers /\ disk \in Disks
  BY DEF ReadInv, AtaTypes
<1>4. /\ transfer.done \in Nat /\ transfer.lba \in Nat /\ transfer.count \in Nat
      /\ transfer.buf \in Seq(Contents) /\ cmd.at \in Nat
  BY <1>3 DEF Transfers, Commands
<1>5. ata_base \in Channels /\ cmd.at \in 0 .. SECTORS - 1
  <2>1. cmd.at < SECTORS
    BY <1>2 DEF DataDue
  <2>2. cmd.at \in 0 .. SECTORS - 1
    BY <1>4, <2>1, AtaAssumption
  <2> QED  BY <1>1, <2>2 DEF ReadInv, Identified
<1>6. v \in Contents
  BY Zenon, <1>3, <1>5 DEF Disks
<1> HIDE DEF v
<1>7. transfer.done + 1 \in Nat /\ Append(transfer.buf, v) \in Seq(Contents)
  BY <1>4, <1>6
<1>8. /\ transfer' \in Transfers /\ transfer'.op = "read" /\ transfer'.lba = transfer.lba
      /\ transfer'.count = transfer.count /\ transfer'.done = transfer.done + 1
      /\ transfer'.buf = Append(transfer.buf, v)
  BY Zenon, <1>1, <1>2, <1>3, <1>7 DEF Transfers
<1>9. cmd' \in Commands /\ cmd'.at = cmd.at + 1
  BY <1>2, <1>3, NextSectorTyped
<1>10. AtaTypes'
  BY <1>1, <1>3, <1>8, <1>9 DEF ReadInv, AtaTypes
<1>11. Reading'
  <2>1. /\ cmd.at = transfer.lba + transfer.done /\ Len(transfer.buf) = transfer.done
        /\ Stored(transfer, transfer.done)
    BY <1>1 DEF ReadInv, Reading
  <2>2. ASSUME NEW i \in 1 .. transfer.done + 1
        PROVE  /\ transfer.lba + i - 1 < SECTORS
               /\ disk[ata_base][transfer.lba + i - 1] = Append(transfer.buf, v)[i]
    <3>1. CASE i = transfer.done + 1
      <4>1. transfer.lba + i - 1 = cmd.at
        BY <1>4, <2>1, <3>1
      <4>2. Append(transfer.buf, v)[i] = v
        BY <1>4, <2>1, <3>1
      <4>3. cmd.at < SECTORS
        BY <1>5, AtaAssumption
      <4> QED  BY Zenon, <4>1, <4>2, <4>3 DEF v
    <3>2. CASE i # transfer.done + 1
      <4>1. i \in 1 .. transfer.done
        BY <1>4, <3>2
      <4>2. Append(transfer.buf, v)[i] = transfer.buf[i]
        BY <1>4, <2>1, <4>1
      <4> QED  BY Zenon, <2>1, <4>1, <4>2 DEF Stored
    <3> QED  BY Zenon, <3>1, <3>2
  <2>3. Stored(transfer, transfer.done)'
    BY Zenon, <1>1, <1>8, <2>2 DEF Stored
  <2>4. cmd'.at = transfer'.lba + transfer'.done
    BY <1>4, <1>8, <1>9, <2>1
  <2>5. Len(transfer'.buf) = transfer'.done
    BY <1>4, <1>8, <2>1
  <2>6. transfer'.done <= transfer'.count
    BY <1>1, <1>4, <1>8
  <2> QED  BY Zenon, <2>3, <2>4, <2>5, <2>6 DEF Reading
<1>12. Identified'
  BY <1>1, <1>8 DEF ReadInv, Identified
<1>13. ReturnedHolds'
  BY <1>1, <1>8 DEF ReadInv, ReturnedHolds
<1> QED  BY <1>8, <1>10, <1>11, <1>12, <1>13 DEF ReadInv, Writing

\* WriteSector: no read is in progress and none has returned, so whatever the
\* drive stores, no buffer that was read is about it.
LEMMA WritePreserves == ReadInv /\ WriteSector => ReadInv'
<1> SUFFICES ASSUME ReadInv, WriteSector PROVE ReadInv'
  OBVIOUS
<1> DEFINE v == transfer.buf[transfer.done + 1]
<1>1. /\ drive' = drive /\ returned' = returned
      /\ ata_total_sectors' = ata_total_sectors /\ ata_base' = ata_base
      /\ transfer.op = "write" /\ transfer.done < transfer.count
      /\ transfer' = [transfer EXCEPT !.done = @ + 1]
  BY DEF WriteSector, identified
<1>2. DataDue
  BY Zenon DEF WriteSector, poll_drq, ErrBit
<1>3. transfer \in Transfers /\ cmd \in Commands /\ returned \in Transfers /\ disk \in Disks
  BY DEF ReadInv, AtaTypes
<1>4. /\ transfer.done \in Nat /\ transfer.count \in Nat
      /\ transfer.buf \in Seq(Contents) /\ cmd.at \in Nat
  BY <1>3 DEF Transfers, Commands
<1>5. ata_base \in Channels /\ cmd.at \in 0 .. SECTORS - 1
  <2>1. cmd.at < SECTORS
    BY <1>2 DEF DataDue
  <2>2. cmd.at \in 0 .. SECTORS - 1
    BY <1>4, <2>1, AtaAssumption
  <2> QED  BY <1>1, <2>2 DEF ReadInv, Identified
<1>6. v \in Contents
  <2>1. Len(transfer.buf) = transfer.count
    BY <1>1 DEF ReadInv, Writing
  <2> QED  BY <1>1, <1>4, <2>1
<1> HIDE DEF v
<1>7. /\ disk' \in Disks
      /\ cmd' \in Commands
  <2>1. CASE disk' = [disk EXCEPT ![ata_base][cmd.at] = v] /\ cmd' = NextSector
    <3>1. [disk[ata_base] EXCEPT ![cmd.at] = v] \in [0 .. SECTORS - 1 -> Contents]
      BY Zenon, <1>3, <1>5, <1>6 DEF Disks
    <3>2. disk' \in Disks
      BY Zenon, <1>3, <1>5, <2>1, <3>1 DEF Disks
    <3> QED  BY <1>3, <2>1, <3>2, NextSectorTyped
  <2>2. CASE cmd' = [NextSector EXCEPT !.err = TRUE] /\ disk' = disk
    BY <1>3, <2>2, NextSectorTyped
  <2> QED  BY <2>1, <2>2 DEF WriteSector, v
<1>8. transfer.done + 1 \in Nat
  BY <1>4
<1>9. /\ transfer' \in Transfers /\ transfer'.op = "write"
      /\ transfer'.count = transfer.count /\ transfer'.buf = transfer.buf
  BY Zenon, <1>1, <1>3, <1>8 DEF Transfers
<1>10. AtaTypes'
  BY <1>1, <1>3, <1>7, <1>9 DEF ReadInv, AtaTypes
<1>11. Identified' /\ Reading' /\ Writing'
  BY <1>1, <1>9 DEF ReadInv, Identified, Reading, Writing
<1>12. ReturnedHolds'
  BY <1>1, <1>9 DEF ReadInv, ReturnedHolds
<1> QED  BY <1>10, <1>11, <1>12 DEF ReadInv

\* Every step of the driver and the drive keeps the invariant.
LEMMA AtaPreserved == ReadInv /\ [AtaNext]_atavars => ReadInv'
<1> SUFFICES ASSUME ReadInv, [AtaNext]_atavars PROVE ReadInv'
  OBVIOUS
<1>1. CASE UNCHANGED atavars
  BY Zenon, <1>1 DEF atavars, ReadInv, AtaTypes, Identified, Reading, Writing, ReturnedHolds, Stored
<1>2. ASSUME NEW r \in Requests, ata_read(r) PROVE ReadInv'
  <2>1. <<>> \in Seq(Contents)  OBVIOUS
  <2>2. Start("read", r, <<>>)
    BY <1>2 DEF ata_read
  <2> QED  BY Zenon, <2>1, <2>2, StartPreserves
<1>3. ASSUME NEW r \in Requests, NEW buf \in [1 .. r.count -> SectorData], ata_write(r, buf)
      PROVE  ReadInv'
  <2>1. r.count \in Nat
    BY AtaAssumption DEF Requests
  <2>2. buf \in Seq(Contents)
    BY <2>1 DEF Contents
  <2>3. Start("write", r, buf) /\ Len(buf) = r.count
    BY <1>3 DEF ata_write
  <2> QED  BY <2>2, <2>3, StartPreserves
<1> QED
  BY <1>1, <1>2, <1>3, InitPreserves, FailPreserves, ReadPreserves, WritePreserves,
     DonePreserves DEF AtaNext

\* A read that returns 0 (ata_read) has put the sectors asked for, in order and
\* from the drive ata_init identified, into the buffer, and they are still what
\* the drive holds until the next call: for any size of drive, any requests,
\* and polls that fail or time out at any sector.
THEOREM ReadsAreStored == AtaSpec => []ReadIsStored
<1>1. ReadInv => ReadIsStored
  BY DEF ReadInv, ReturnedHolds, Identified, ReadIsStored, Holds, Stored
<1> QED  BY <1>1, AtaStarts, AtaPreserved, PTL DEF AtaSpec

(***************************************************************************)
(* Device files.                                                           *)
(***************************************************************************)
\* The pool is a table of inodes.
IsInode(n) ==
  n = [used |-> n.used, name |-> n.name, kind |-> n.kind, data |-> n.data,
       children |-> n.children]

Pool == inode = [i \in Inodes |-> inode[i]] /\ \A i \in Inodes : IsInode(inode[i])

\* / and /dev are in use, what is in use is of a known kind, and so are the
\* children of /dev: none of them is taken again for another file.
InUse(i) == i \in Inodes /\ inode[i].used = TRUE /\ inode[i].kind \in Kinds

Directories ==
  /\ InUse(Root) /\ InUse(Dev)
  /\ inode[Dev].children \in Seq(Inodes)
  /\ \A k \in DOMAIN inode[Dev].children : InUse(inode[Dev].children[k])

\* A name under which /dev has a child.
InDev(name) ==
  \E k \in DOMAIN inode[Dev].children : inode[inode[Dev].children[k]].name = name

OpNames == {"tmpfs", "null", "zero"} \cup DeviceNames

\* Each device in the table has a child of /dev of its name.
Table ==
  /\ dev_table \in Seq([name : OpNames, ops : OpNames])
  /\ \A k \in DOMAIN dev_table : dev_table[k].ops = dev_table[k].name /\ InDev(dev_table[k].name)

DevInv == Pool /\ Directories /\ Table

\* A set of naturals has a least element, so that Min picks one of the set.
LEMMA MinIsMember ==
  ASSUME NEW S \in SUBSET Nat, S # {}
  PROVE  Min(S) \in S
<1> DEFINE R == OpToRel(<, Nat)
<1>1. \E x \in S : \A y \in S : ~(<<y, x>> \in R)
  BY Zenon, WFMin, NatLessThanWellFounded
<1>2. \A x, y \in Nat : <<y, x>> \in R <=> y < x
  BY DEF OpToRel
<1> HIDE DEF R
<1>3. PICK x \in S : \A y \in S : ~(<<y, x>> \in R)
  BY <1>1
<1>4. \A y \in S : x <= y
  <2> SUFFICES ASSUME NEW y \in S PROVE ~(y < x)
    OBVIOUS
  <2>1. ~(<<y, x>> \in R)
    BY <1>3
  <2>2. x \in Nat /\ y \in Nat
    OBVIOUS
  <2> QED BY <1>2, <2>1, <2>2, Zenon
<1> QED BY Zenon, <1>4 DEF Min

\* Root and /dev are two of the inodes.
LEMMA TwoInodes == Root \in Inodes /\ Dev \in Inodes /\ Root # Dev /\ Inodes \subseteq Nat
BY FilesAssumption DEF Root, Dev, Inodes

\* What an inode is apart from what its file holds.
SameNode(m, n) ==
  m.used = n.used /\ m.name = n.name /\ m.kind = n.kind /\ m.children = n.children

IsPool(ino) == ino = [i \in Inodes |-> ino[i]] /\ \A i \in Inodes : IsInode(ino[i])

\* Changing what a file holds changes nothing else.
LEMMA DataChange ==
  ASSUME NEW n, IsInode(n), NEW d
  PROVE  IsInode([n EXCEPT !.data = d]) /\ SameNode([n EXCEPT !.data = d], n)
<1> DEFINE m == [n EXCEPT !.data = d]
<1>1. PICK u, a, k, old, c : n = [used |-> u, name |-> a, kind |-> k, data |-> old, children |-> c]
  BY Zenon DEF IsInode
<1>2. m = [used |-> u, name |-> a, kind |-> k, data |-> d, children |-> c]
  BY <1>1
<1> HIDE DEF m
<1>3. m.used = u /\ m.name = a /\ m.kind = k /\ m.data = d /\ m.children = c
  BY Zenon, <1>2
<1>4. n.used = u /\ n.name = a /\ n.kind = k /\ n.children = c
  BY Zenon, <1>1
<1>5. IsInode(m)
  BY Zenon, <1>2, <1>3 DEF IsInode
<1>6. SameNode(m, n)
  BY Zenon, <1>3, <1>4 DEF SameNode
<1> QED  BY Zenon, <1>5, <1>6 DEF m

LEMMA PoolDataChange ==
  ASSUME NEW ino, IsPool(ino), NEW x, NEW d, NEW new, new = [ino EXCEPT ![x].data = d]
  PROVE  IsPool(new) /\ \A i \in Inodes : SameNode(new[i], ino[i])
<1>1. DOMAIN ino = Inodes
  BY Zenon DEF IsPool
<1>2. new = [i \in Inodes |-> IF i = x THEN [ino[x] EXCEPT !.data = d] ELSE ino[i]]
  BY Zenon, <1>1
<1>3. ASSUME NEW i \in Inodes PROVE IsInode(new[i]) /\ SameNode(new[i], ino[i])
  <2>1. CASE i = x
    <3>1. new[i] = [ino[x] EXCEPT !.data = d]
      BY Zenon, <1>2, <2>1
    <3> QED  BY Zenon, <2>1, <3>1, DataChange DEF IsPool
  <2>2. CASE i # x
    <3>1. new[i] = ino[i]
      BY Zenon, <1>2, <2>2
    <3> QED  BY Zenon, <3>1 DEF IsPool, SameNode
  <2> QED  BY Zenon, <2>1, <2>2
<1>4. new = [i \in Inodes |-> new[i]]
  BY Zenon, <1>2
<1> QED  BY Zenon, <1>3, <1>4 DEF IsPool

\* The outcomes of a call that may fail.
LEMMA OneOrTheOther ==
  ASSUME NEW fails, NEW done, NEW P, NEW Q,
         NEW w \in IF P THEN {fails} ELSE {done} \cup IF Q THEN {fails} ELSE {}
  PROVE  w = fails \/ w = done
BY Zenon

\* A write changes at most what one file holds (tmpfs_write).
LEMMA WriteChange ==
  ASSUME IsPool(inode), NEW node, NEW at, NEW data, NEW w \in Writes(node, at, data)
  PROVE  IsPool(w.ino) /\ \A i \in Inodes : SameNode(w.ino[i], inode[i])
<1>1. CASE w.ino = inode
  BY Zenon, <1>1 DEF SameNode
<1>2. CASE node.ops # "tmpfs"
  <2>1. w = [ino |-> inode, ret |-> Len(data)]
    BY Zenon, <1>2 DEF Writes
  <2> QED  BY Zenon, <1>1, <2>1
<1>3. CASE node.ops = "tmpfs"
  <2> DEFINE old == inode[node.inode].data
             end == at + Len(data)
             grown == old \o [k \in 1 .. Max({0, end - Len(old)}) |-> Junk]
             clear == [k \in DOMAIN grown |-> IF k > Len(old) /\ k <= at THEN 0 ELSE grown[k]]
             d == [k \in DOMAIN clear |-> IF k > at /\ k <= end THEN data[k - at] ELSE clear[k]]
             new == [inode EXCEPT ![node.inode].data = d]
             fails == [ino |-> inode, ret |-> NULL]
             done == [ino |-> new, ret |-> Len(data)]
             P == inode[node.inode].kind # "file" \/ end > TMPFS_MAX_FILE_SIZE
             Q == end > Len(old)
  <2>1. w \in tmpfs_write(node, at, data)
    BY Zenon, <1>3 DEF Writes
  <2>2. w \in IF P THEN {fails} ELSE {done} \cup IF Q THEN {fails} ELSE {}
    BY Zenon, <2>1 DEF tmpfs_write
  <2> HIDE DEF d, P, Q
  <2>3. w = fails \/ w = done
    BY Zenon, <2>2, OneOrTheOther
  <2>4. IsPool(new) /\ \A i \in Inodes : SameNode(new[i], inode[i])
    BY Zenon, PoolDataChange
  <2> HIDE DEF new
  <2>5. fails.ino = inode /\ done.ino = new
    BY Zenon
  <2> QED  BY Zenon, <1>1, <2>3, <2>4, <2>5
<1> QED  BY Zenon, <1>2, <1>3

\* A step after which every inode is what it was but for its data.
LEMMA SameKeeps ==
  ASSUME DevInv, IsPool(inode'), \A i \in Inodes : SameNode(inode'[i], inode[i]),
         dev_table' = dev_table
  PROVE  DevInv'
<1>1. Pool'
  BY Zenon DEF IsPool, Pool, IsInode
<1>2. inode'[Dev].children = inode[Dev].children
  BY Zenon, TwoInodes DEF SameNode
<1>3. ASSUME NEW i, InUse(i) PROVE InUse(i)'
  BY Zenon, <1>3 DEF InUse, SameNode
<1>4. Directories'
  BY Zenon, <1>2, <1>3 DEF DevInv, Directories
<1>5. ASSUME NEW name, InDev(name) PROVE InDev(name)'
  <2>1. PICK k \in DOMAIN inode[Dev].children : inode[inode[Dev].children[k]].name = name
    BY Zenon, <1>5 DEF InDev
  <2>2. inode[Dev].children[k] \in Inodes
    BY Zenon, <2>1 DEF DevInv, Directories, InUse
  <2>3. inode'[inode[Dev].children[k]].name = name
    BY Zenon, <2>1, <2>2 DEF SameNode
  <2> QED  BY Zenon, <1>2, <2>1, <2>3 DEF InDev
<1>6. Table'
  BY Zenon, <1>5 DEF DevInv, Table
<1> QED  BY Zenon, <1>1, <1>4, <1>6 DEF DevInv

\* Appending to a directory changes nothing else of it.
LEMMA ChildAdded ==
  ASSUME NEW n, IsInode(n), NEW c
  PROVE  /\ IsInode([n EXCEPT !.children = c])
         /\ [n EXCEPT !.children = c].used = n.used
         /\ [n EXCEPT !.children = c].name = n.name
         /\ [n EXCEPT !.children = c].kind = n.kind
         /\ [n EXCEPT !.children = c].children = c
<1> DEFINE m == [n EXCEPT !.children = c]
<1>1. PICK u, a, k, d, old : n = [used |-> u, name |-> a, kind |-> k, data |-> d, children |-> old]
  BY Zenon DEF IsInode
<1>2. m = [used |-> u, name |-> a, kind |-> k, data |-> d, children |-> c]
  BY <1>1
<1> HIDE DEF m
<1>3. m.used = u /\ m.name = a /\ m.kind = k /\ m.data = d /\ m.children = c
  BY Zenon, <1>2
<1>4. n.used = u /\ n.name = a /\ n.kind = k
  BY Zenon, <1>1
<1>5. IsInode(m)
  BY Zenon, <1>2, <1>3 DEF IsInode
<1> QED  BY Zenon, <1>3, <1>4, <1>5 DEF m

\* The new pool of tmpfs_create: the new inode was free, and it is the last
\* child of its directory.
IsNew(i, name, kind) ==
  /\ i \in Inodes /\ inode[i].used # TRUE
  /\ inode'[i].used = TRUE /\ inode'[i].name = name /\ inode'[i].kind = kind

OthersStay(i) ==
  \A j \in Inodes : j # i =>
    inode'[j].used = inode[j].used /\ inode'[j].name = inode[j].name
      /\ inode'[j].kind = inode[j].kind

LEMMA FreeIsFound ==
  ASSUME NEW i, Unused(inode) # {}, i = Min(Unused(inode))
  PROVE  i \in Inodes /\ inode[i].used # TRUE
<1>1. Unused(inode) \in SUBSET Nat
  BY Zenon, TwoInodes DEF Unused
<1>2. i \in Unused(inode)
  BY Zenon, <1>1, MinIsMember
<1> QED  BY Zenon, <1>2 DEF Unused

Adds(p, name, kind, i) ==
  inode' = [inode EXCEPT ![i] = Inode(name, kind), ![p].children = Append(@, i)]

LEMMA Created ==
  ASSUME DevInv, NEW p \in {Root, Dev}, NEW name, NEW kind, NEW i,
         i \in Inodes, inode[i].used # TRUE,
         Adds(p, name, kind, i)
  PROVE  /\ IsPool(inode') /\ IsNew(i, name, kind) /\ OthersStay(i)
         /\ p = Dev => inode'[Dev].children = Append(inode[Dev].children, i)
         /\ p # Dev => inode'[Dev].children = inode[Dev].children
<1> DEFINE c == Append(inode[p].children, i)
<1>1. p \in Inodes /\ Dev \in Inodes /\ p # i /\ Dev # i
  BY Zenon, TwoInodes DEF DevInv, Directories, InUse
<1>2. DOMAIN inode = Inodes
  BY Zenon DEF DevInv, Pool
<1>3. inode' = [j \in Inodes |-> IF j = p THEN [inode[p] EXCEPT !.children = c]
                                ELSE IF j = i THEN Inode(name, kind) ELSE inode[j]]
  BY Zenon, <1>1, <1>2 DEF Adds
<1>4. IsInode(inode[p])
  BY Zenon, <1>1 DEF DevInv, Pool
<1> HIDE DEF c
<1>5. /\ inode'[p] = [inode[p] EXCEPT !.children = c]
      /\ inode'[i] = Inode(name, kind)
      /\ \A j \in Inodes : j # p /\ j # i => inode'[j] = inode[j]
  BY Zenon, <1>1, <1>3
<1>6. /\ IsInode(inode'[p]) /\ inode'[p].used = inode[p].used /\ inode'[p].name = inode[p].name
      /\ inode'[p].kind = inode[p].kind /\ inode'[p].children = c
  <2> DEFINE m == [inode[p] EXCEPT !.children = c]
  <2>1. /\ IsInode(m) /\ m.used = inode[p].used /\ m.name = inode[p].name
        /\ m.kind = inode[p].kind /\ m.children = c
    BY <1>4, ChildAdded
  <2>2. inode'[p] = m
    BY Zenon, <1>5
  <2> HIDE DEF m
  <2> QED  BY Zenon, <2>1, <2>2
<1>7. /\ inode'[i].used = TRUE /\ inode'[i].name = name /\ inode'[i].kind = kind
      /\ IsInode(inode'[i])
  <2>1. PICK n : n = inode'[i]
    BY Zenon
  <2>2. n = [used |-> TRUE, name |-> name, kind |-> kind, data |-> <<>>, children |-> <<>>]
    BY Zenon, <1>5, <2>1 DEF Inode
  <2>3. n.used = TRUE /\ n.name = name /\ n.kind = kind /\ n.data = <<>> /\ n.children = <<>>
    BY Zenon, <2>2
  <2>4. IsInode(n)
    BY Zenon, <2>2, <2>3 DEF IsInode
  <2> QED  BY Zenon, <2>1, <2>3, <2>4
<1>8. IsPool(inode')
  <2>1. inode' = [j \in Inodes |-> inode'[j]]
    BY Zenon, <1>3
  <2>2. \A j \in Inodes : IsInode(inode'[j])
    BY Zenon, <1>5, <1>6, <1>7 DEF DevInv, Pool
  <2> QED  BY Zenon, <2>1, <2>2 DEF IsPool
<1>9. IsNew(i, name, kind)
  BY Zenon, <1>7 DEF IsNew
<1>10. OthersStay(i)
  BY Zenon, <1>5, <1>6 DEF OthersStay
<1>11. p = Dev => inode'[Dev].children = Append(inode[Dev].children, i)
  BY Zenon, <1>6 DEF c
<1>12. p # Dev => inode'[Dev].children = inode[Dev].children
  BY Zenon, <1>1, <1>5
<1> QED  BY Zenon, <1>8, <1>9, <1>10, <1>11, <1>12

\* After a create, /dev still has the children it had, and the new one if it
\* was created there.
LEMMA CreatedKeeps ==
  ASSUME DevInv, NEW p \in {Root, Dev}, NEW name, NEW kind \in Kinds, NEW i,
         IsPool(inode'), IsNew(i, name, kind), OthersStay(i),
         p = Dev => inode'[Dev].children = Append(inode[Dev].children, i),
         p # Dev => inode'[Dev].children = inode[Dev].children
  PROVE  /\ Pool' /\ Directories'
         /\ \A a : InDev(a) => InDev(a)'
         /\ p = Dev => InDev(name)'
<1>0. PICK c : c = inode[Dev].children
  BY Zenon
<1>1. Pool'
  BY Zenon DEF IsPool, Pool, IsInode
<1>2. ASSUME NEW j, InUse(j) PROVE InUse(j)' /\ inode'[j].name = inode[j].name
  BY Zenon, <1>2 DEF InUse, IsNew, OthersStay
<1>3. InUse(i)' /\ i \in Inodes
  BY Zenon DEF InUse, IsNew
<1>4. InUse(Root)' /\ InUse(Dev)'
  BY Zenon, <1>2 DEF DevInv, Directories
<1>5. c \in Seq(Inodes) /\ \A k \in DOMAIN c : InUse(c[k])
  BY Zenon, <1>0 DEF DevInv, Directories
<1>6. /\ Append(c, i) \in Seq(Inodes)
      /\ DOMAIN Append(c, i) = DOMAIN c \cup {Len(c) + 1}
      /\ Append(c, i)[Len(c) + 1] = i
      /\ \A k \in DOMAIN c : Append(c, i)[k] = c[k]
  BY <1>3, <1>5
<1>7. CASE p # Dev
  <2>1. inode'[Dev].children = c
    BY Zenon, <1>0, <1>7
  <2>2. Directories'
    BY Zenon, <1>2, <1>4, <1>5, <2>1 DEF Directories
  <2>3. \A a : InDev(a) => InDev(a)'
    BY Zenon, <1>0, <1>2, <1>5, <2>1 DEF InDev
  <2> QED  BY Zenon, <1>1, <1>7, <2>2, <2>3
<1>8. CASE p = Dev
  <2>1. inode'[Dev].children = Append(c, i)
    BY Zenon, <1>0, <1>8
  <2>2. Directories'
    <3>1. \A k \in DOMAIN Append(c, i) : InUse(Append(c, i)[k])'
      <4>1. ASSUME NEW k \in DOMAIN c PROVE InUse(Append(c, i)[k])'
        BY Zenon, <1>2, <1>5, <1>6
      <4>2. InUse(Append(c, i)[Len(c) + 1])'
        BY Zenon, <1>3, <1>6
      <4> QED  BY Zenon, <1>6, <4>1, <4>2
    <3> QED  BY Zenon, <1>4, <1>6, <2>1, <3>1 DEF Directories
  <2>3. ASSUME NEW a, InDev(a) PROVE InDev(a)'
    <3>1. PICK k \in DOMAIN c : inode[c[k]].name = a
      BY Zenon, <1>0, <2>3 DEF InDev
    <3>2. k \in DOMAIN Append(c, i) /\ Append(c, i)[k] = c[k]
      BY Zenon, <1>6, <3>1
    <3>3. inode'[Append(c, i)[k]].name = a
      BY Zenon, <1>2, <1>5, <3>1, <3>2
    <3> QED  BY Zenon, <2>1, <3>2, <3>3 DEF InDev
  <2>4. InDev(name)'
    <3>1. Len(c) + 1 \in DOMAIN Append(c, i)
      BY Zenon, <1>6
    <3>2. inode'[Append(c, i)[Len(c) + 1]].name = name
      BY Zenon, <1>6 DEF IsNew
    <3> QED  BY Zenon, <2>1, <3>1, <3>2 DEF InDev
  <2>5. \A a : InDev(a) => InDev(a)'
    BY Zenon, <2>3
  <2> QED  BY Zenon, <1>1, <2>2, <2>4, <2>5
<1> QED  BY Zenon, <1>7, <1>8

\* tmpfs_create either changes nothing or adds a child.
LEMMA CreateStep ==
  ASSUME DevInv, NEW p \in {Root, Dev}, NEW name, NEW kind \in Kinds,
         inode' = tmpfs_create(inode, p, name, kind).ino
  PROVE  /\ Pool' /\ Directories'
         /\ \A a : InDev(a) => InDev(a)'
         /\ \/ p = Dev => InDev(name)'
            \/ tmpfs_create(inode, p, name, kind).ret = NULL
<1>0. PICK r : r = tmpfs_create(inode, p, name, kind)
  BY Zenon
<1>1. CASE ~CanCreate(inode, p)
  <2>1. r = [ino |-> inode, ret |-> NULL]
    BY Zenon, <1>0, <1>1 DEF tmpfs_create
  <2>2. r.ret = NULL /\ r.ino = inode
    BY Zenon, <2>1
  <2>3. inode' = inode /\ tmpfs_create(inode, p, name, kind).ret = NULL
    BY Zenon, <1>0, <2>2
  <2> QED  BY Zenon, <2>3 DEF DevInv, Pool, IsInode, Directories, InUse, InDev
<1>2. CASE CanCreate(inode, p)
  <2>1. PICK i : i = Min(Unused(inode))
    BY Zenon
  <2>2. Unused(inode) # {}
    BY Zenon, <1>2 DEF CanCreate
  <2>3. i \in Inodes /\ inode[i].used # TRUE
    BY Zenon, <2>1, <2>2, FreeIsFound
  <2>4. Adds(p, name, kind, i)
    <3> DEFINE new == [inode EXCEPT ![i] = Inode(name, kind), ![p].children = Append(@, i)]
    <3>1. r = [ino |-> new, ret |-> i]
      BY Zenon, <1>0, <1>2, <2>1 DEF tmpfs_create
    <3> HIDE DEF new
    <3>2. r.ino = new
      BY Zenon, <3>1
    <3>3. inode' = new
      BY Zenon, <1>0, <3>2
    <3> QED  BY Zenon, <3>3 DEF new, Adds
  <2>5. /\ IsPool(inode') /\ IsNew(i, name, kind) /\ OthersStay(i)
        /\ p = Dev => inode'[Dev].children = Append(inode[Dev].children, i)
        /\ p # Dev => inode'[Dev].children = inode[Dev].children
    BY Zenon, <2>3, <2>4, Created
  <2>6. /\ Pool' /\ Directories' /\ \A a : InDev(a) => InDev(a)'
        /\ p = Dev => InDev(name)'
    BY Zenon, <2>5, CreatedKeeps
  <2> QED  BY Zenon, <2>6
<1> QED  BY Zenon, <1>1, <1>2

\* Boot: /dev has null and zero, and so has the table.
LEMMA FilesStart == vfs_init => DevInv
<1> SUFFICES ASSUME vfs_init PROVE DevInv
  OBVIOUS
<1>1. inode = BootInodes
  BY DEF vfs_init
<1>2. 0 \in Inodes /\ 1 \in Inodes /\ 2 \in Inodes /\ 3 \in Inodes
  BY FilesAssumption DEF Inodes
<1>3. /\ inode[0] = [used |-> TRUE, name |-> "/", kind |-> "dir", data |-> <<>>, children |-> <<1>>]
      /\ inode[1] = [used |-> TRUE, name |-> "dev", kind |-> "dir", data |-> <<>>, children |-> <<2, 3>>]
      /\ inode[2] = [used |-> TRUE, name |-> "null", kind |-> "chardev", data |-> <<>>, children |-> <<>>]
      /\ inode[3] = [used |-> TRUE, name |-> "zero", kind |-> "chardev", data |-> <<>>, children |-> <<>>]
  BY <1>1, <1>2 DEF BootInodes, Inode, Root, Dev
<1>4. \A i \in Inodes : i \notin {0, 1, 2, 3} => inode[i] = FreeInode
  BY <1>1 DEF BootInodes, Root, Dev
<1>5. Pool
  <2>1. inode = [i \in Inodes |-> inode[i]]
    BY Zenon, <1>1 DEF BootInodes
  <2>2. IsInode(inode[0]) /\ IsInode(inode[1]) /\ IsInode(inode[2]) /\ IsInode(inode[3])
    BY <1>3 DEF IsInode
  <2>3. IsInode(FreeInode)
    BY DEF IsInode, FreeInode
  <2>4. \A i \in Inodes : IsInode(inode[i])
    BY Zenon, <1>4, <2>2, <2>3
  <2> QED  BY Zenon, <2>1, <2>4 DEF Pool
<1>6. Directories
  <2>1. InUse(0) /\ InUse(1) /\ InUse(2) /\ InUse(3)
    BY <1>2, <1>3 DEF InUse, Kinds
  <2>2. inode[Dev].children = <<2, 3>>
    BY <1>3 DEF Dev
  <2>3. <<2, 3>> \in Seq(Inodes) /\ DOMAIN <<2, 3>> = {1, 2} /\ <<2, 3>>[1] = 2 /\ <<2, 3>>[2] = 3
    BY <1>2
  <2>4. \A k \in DOMAIN <<2, 3>> : InUse(<<2, 3>>[k])
    BY <2>1, <2>3
  <2> QED  BY Zenon, <2>1, <2>2, <2>3, <2>4 DEF Directories, Root, Dev
<1>7. Table
  <2>1. inode[Dev].children = <<2, 3>>
    BY <1>3 DEF Dev
  <2>2. InDev("null")
    <3>1. 1 \in DOMAIN <<2, 3>> /\ inode[<<2, 3>>[1]].name = "null"
      BY <1>3
    <3> QED  BY Zenon, <2>1, <3>1 DEF InDev
  <2>3. InDev("zero")
    <3>1. 2 \in DOMAIN <<2, 3>> /\ inode[<<2, 3>>[2]].name = "zero"
      BY <1>3
    <3> QED  BY Zenon, <2>1, <3>1 DEF InDev
  <2> DEFINE a == [name |-> "null", ops |-> "null"]
             b == [name |-> "zero", ops |-> "zero"]
  <2>4. a \in [name : OpNames, ops : OpNames] /\ b \in [name : OpNames, ops : OpNames]
    BY DEF OpNames
  <2>5. a.name = "null" /\ a.ops = "null" /\ b.name = "zero" /\ b.ops = "zero"
    OBVIOUS
  <2>6. dev_table = <<a, b>>
    BY DEF vfs_init
  <2> HIDE DEF a, b
  <2>7. dev_table \in Seq([name : OpNames, ops : OpNames])
    BY <2>4, <2>6
  <2>8. DOMAIN dev_table = {1, 2} /\ dev_table[1] = a /\ dev_table[2] = b
    BY <2>6
  <2>9. \A k \in DOMAIN dev_table : dev_table[k].ops = dev_table[k].name /\ InDev(dev_table[k].name)
    BY Zenon, <2>2, <2>3, <2>5, <2>8
  <2> QED  BY Zenon, <2>7, <2>9 DEF Table
<1> QED  BY Zenon, <1>5, <1>6, <1>7 DEF DevInv

\* devfs_register: the device is in the table only if it has its node.
LEMMA RegisterKeeps ==
  ASSUME DevInv, NEW name \in DeviceNames, devfs_register(name)
  PROVE  DevInv'
<1>1. PICK r : r = tmpfs_create(inode, Dev, name, "chardev")
  BY Zenon
<1> DEFINE full == Len(dev_table) >= DEVFS_MAX_DEVICES
<1>0. PICK e : e = [name |-> name, ops |-> name]
  BY Zenon
<1>2. /\ inode' = IF full THEN inode ELSE r.ino
      /\ dev_table' = IF (IF full THEN NULL ELSE r.ret) = NULL THEN dev_table ELSE Append(dev_table, e)
  BY Zenon, <1>0, <1>1 DEF devfs_register
<1>3. e \in [name : OpNames, ops : OpNames] /\ e.name = name /\ e.ops = name
  BY <1>0 DEF OpNames
<1> HIDE DEF full
<1>4. CASE full
  <2>1. inode' = inode /\ dev_table' = dev_table
    BY Zenon, <1>2, <1>4
  <2> QED  BY Zenon, <2>1 DEF DevInv, Pool, IsInode, Directories, InUse, Table, InDev
<1>5. CASE ~full
  <2>1. inode' = tmpfs_create(inode, Dev, name, "chardev").ino
    BY Zenon, <1>1, <1>2, <1>5
  <2>2. "chardev" \in Kinds
    BY Zenon DEF Kinds
  <2>3. /\ Pool' /\ Directories' /\ \A a : InDev(a) => InDev(a)'
        /\ InDev(name)' \/ r.ret = NULL
    BY Zenon, <1>1, <2>1, <2>2, CreateStep
  <2>4. CASE r.ret = NULL
    <3>1. dev_table' = dev_table
      BY Zenon, <1>2, <1>5, <2>4
    <3> QED  BY Zenon, <2>3, <3>1 DEF DevInv, Table
  <2>5. CASE r.ret # NULL
    <3>1. dev_table' = Append(dev_table, e)
      BY Zenon, <1>2, <1>5, <2>5
    <3>2. PICK t : t = dev_table
      BY Zenon
    <3>3. t \in Seq([name : OpNames, ops : OpNames])
      BY Zenon, <3>2 DEF DevInv, Table
    <3>4. /\ Append(t, e) \in Seq([name : OpNames, ops : OpNames])
          /\ DOMAIN Append(t, e) = DOMAIN t \cup {Len(t) + 1}
          /\ Append(t, e)[Len(t) + 1] = e
          /\ \A k \in DOMAIN t : Append(t, e)[k] = t[k]
      BY <1>3, <3>3
    <3>5. dev_table' = Append(t, e)
      BY Zenon, <3>1, <3>2
    <3>6. ASSUME NEW k \in DOMAIN t
          PROVE  dev_table'[k].ops = dev_table'[k].name /\ InDev(dev_table[k].name)'
      <4>1. dev_table'[k] = dev_table[k]
        BY Zenon, <3>2, <3>4, <3>5
      <4>2. dev_table[k].ops = dev_table[k].name /\ InDev(dev_table[k].name)
        BY Zenon, <3>2 DEF DevInv, Table
      <4>3. PICK a : a = dev_table[k].name
        BY Zenon
      <4>4. InDev(a)'
        BY Zenon, <2>3, <4>2, <4>3
      <4>5. a = dev_table'[k].name /\ dev_table'[k].ops = dev_table'[k].name
        BY Zenon, <4>1, <4>2, <4>3
      <4> QED  BY Zenon, <4>4, <4>5 DEF InDev
    <3>7. dev_table'[Len(t) + 1] = e /\ InDev(name)'
      BY Zenon, <2>3, <2>5, <3>4, <3>5
    <3>8. /\ dev_table'[Len(t) + 1].ops = dev_table'[Len(t) + 1].name
          /\ InDev(dev_table[Len(t) + 1].name)'
      BY Zenon, <1>3, <3>7 DEF InDev
    <3> QED  BY Zenon, <2>3, <3>4, <3>5, <3>6, <3>8 DEF DevInv, Table
  <2> QED  BY Zenon, <2>4, <2>5
<1> QED  BY Zenon, <1>4, <1>5

\* A step that leaves the inodes and the table alone.
LEMMA IdleKeeps ==
  ASSUME DevInv, inode' = inode, dev_table' = dev_table
  PROVE  DevInv'
BY Zenon DEF DevInv, Pool, IsInode, Directories, InUse, Table, InDev

LEMMA CreateKeeps ==
  ASSUME DevInv, NEW p \in {Root, Dev}, NEW name, NEW kind \in {"file", "dir"},
         Create(p, name, kind)
  PROVE  DevInv'
<1>1. inode' = tmpfs_create(inode, p, name, kind).ino /\ dev_table' = dev_table
  BY Zenon DEF Create
<1>2. kind \in Kinds
  BY Zenon DEF Kinds
<1>3. Pool' /\ Directories' /\ \A a : InDev(a) => InDev(a)'
  BY Zenon, <1>1, <1>2, CreateStep
<1> QED  BY Zenon, <1>1, <1>3 DEF DevInv, Table

\* Writes, by name (vfs_write) and through a descriptor (vfs_fd_write).
LEMMA WritesKeep ==
  ASSUME DevInv, NEW node, NEW at, NEW data, NEW w \in Writes(node, at, data),
         inode' = w.ino, dev_table' = dev_table
  PROVE  DevInv'
<1>1. IsPool(inode)
  BY Zenon DEF DevInv, Pool, IsPool
<1>2. IsPool(w.ino) /\ \A i \in Inodes : SameNode(w.ino[i], inode[i])
  BY Zenon, <1>1, WriteChange
<1>3. IsPool(inode') /\ \A i \in Inodes : SameNode(inode'[i], inode[i])
  BY Zenon, <1>2
<1> QED  BY Zenon, <1>3, SameKeeps

LEMMA FdWriteKeeps ==
  ASSUME DevInv, NEW fd, NEW data, vfs_fd_write(fd, data)
  PROVE  DevInv'
<1>1. dev_table' = dev_table
  BY Zenon DEF vfs_fd_write
<1>2. CASE IsOpen(fd)
  <2>1. PICK w \in Writes(fd_table[fd].node, fd_table[fd].offset, data) : inode' = w.ino
    BY Zenon, <1>2 DEF vfs_fd_write
  <2> QED  BY Zenon, <1>1, <2>1, WritesKeep
<1>3. CASE ~IsOpen(fd)
  <2>1. PICK w \in {[ino |-> inode, ret |-> NULL]} : inode' = w.ino
    BY Zenon, <1>3 DEF vfs_fd_write
  <2>2. w = [ino |-> inode, ret |-> NULL]
    BY Zenon, <2>1
  <2>3. w.ino = inode
    BY Zenon, <2>2
  <2> QED  BY Zenon, <1>1, <2>1, <2>3, IdleKeeps
<1> QED  BY Zenon, <1>2, <1>3

LEMMA BootCallKeeps == DevInv /\ InitCall => DevInv'
<1> SUFFICES ASSUME DevInv, InitCall PROVE DevInv'
  OBVIOUS
<1>1. ASSUME NEW p \in {Root, Dev}, NEW name \in FileNames, NEW kind \in {"file", "dir"},
             Create(p, name, kind)
      PROVE  DevInv'
  BY Zenon, <1>1, CreateKeeps
<1>2. ASSUME NEW name \in DeviceNames, devfs_register(name) PROVE DevInv'
  BY Zenon, <1>2, RegisterKeeps
<1>3. ASSUME NEW p, NEW name, vfs_finddir(p, name) PROVE DevInv'
  BY Zenon, <1>3, IdleKeeps DEF vfs_finddir
<1>4. ASSUME NEW name, NEW at, NEW n, vfs_read(name, at, n) PROVE DevInv'
  BY Zenon, <1>4, IdleKeeps DEF vfs_read
<1>5. ASSUME NEW name, NEW at, NEW data, vfs_write(name, at, data) PROVE DevInv'
  <2>1. PICK w \in Writes(tmpfs_finddir(Root, name), at, data) : inode' = w.ino
    BY Zenon, <1>5 DEF vfs_write
  <2>2. dev_table' = dev_table
    BY Zenon, <1>5 DEF vfs_write
  <2> QED  BY Zenon, <2>1, <2>2, WritesKeep
<1>6. ASSUME NEW node, OpenNode(node) PROVE DevInv'
  BY Zenon, <1>6, IdleKeeps DEF OpenNode
<1>7. ASSUME NEW fd, NEW n, vfs_fd_read(fd, n) PROVE DevInv'
  BY Zenon, <1>7, IdleKeeps DEF vfs_fd_read
<1>8. ASSUME NEW fd, vfs_fd_close(fd) PROVE DevInv'
  BY Zenon, <1>8, IdleKeeps DEF vfs_fd_close
<1> QED
  BY Zenon, <1>1, <1>2, <1>3, <1>4, <1>5, <1>6, <1>7, <1>8, FdWriteKeeps DEF InitCall

LEMMA UserCallKeeps == DevInv /\ UserCall => DevInv'
<1> SUFFICES ASSUME DevInv, NEW p \in Callers,
                    \/ \E n \in 0 .. MAX_WRITE : sys_read_end(p, n)
                    \/ \E fd \in 0 .. VFS_MAX_FDS :
                         \/ sys_read_begin(p, fd) \/ sys_close(p, fd)
                         \/ \E n \in 1 .. MAX_WRITE : sys_read(p, fd, n)
                         \/ \E data \in Data : sys_write(p, fd, data)
             PROVE  DevInv'
  BY Zenon DEF UserCall
<1>1. ASSUME NEW n, sys_read_end(p, n) PROVE DevInv'
  BY Zenon, <1>1, IdleKeeps DEF sys_read_end
<1>2. ASSUME NEW fd, sys_read_begin(p, fd) PROVE DevInv'
  BY Zenon, <1>2, IdleKeeps DEF sys_read_begin
<1>3. ASSUME NEW fd, sys_close(p, fd) PROVE DevInv'
  BY Zenon, <1>3, IdleKeeps DEF sys_close, vfs_fd_close
<1>4. ASSUME NEW fd, NEW n, sys_read(p, fd, n) PROVE DevInv'
  BY Zenon, <1>4, IdleKeeps DEF sys_read, vfs_fd_read
<1>5. ASSUME NEW fd, NEW data, sys_write(p, fd, data) PROVE DevInv'
  BY Zenon, <1>5, FdWriteKeeps DEF sys_write
<1> QED  BY Zenon, <1>1, <1>2, <1>3, <1>4, <1>5

\* Every call of the file layer keeps the invariant.
LEMMA FilesPreserved == DevInv /\ [FileNext]_filevars => DevInv'
<1> SUFFICES ASSUME DevInv, [FileNext]_filevars PROVE DevInv'
  OBVIOUS
<1>1. CASE UNCHANGED filevars
  BY Zenon, <1>1, IdleKeeps DEF filevars
<1>2. CASE init_launch
  BY Zenon, <1>2, IdleKeeps DEF init_launch
<1> QED  BY Zenon, <1>1, <1>2, BootCallKeeps, UserCallKeeps DEF FileNext

LEMMA Element ==
  ASSUME NEW S, NEW s \in Seq(S), NEW k \in DOMAIN s
  PROVE  s[k] \in S
OBVIOUS

\* Looking up a device in /dev (dev_finddir) gives a node with the operations
\* of the first device of that name in the table.
LEMMA LookupResolves ==
  ASSUME DevInv, NEW k \in DOMAIN dev_table, NEW name, name = dev_table[k].name
  PROVE  devfs_get_node(name) # NULL /\ devfs_get_node(name).ops = name
<1> DEFINE c == inode[Dev].children
           hits == {h \in DOMAIN c : inode[c[h]].name = name}
<1>1. dev_table \in Seq([name : OpNames, ops : OpNames]) /\ c \in Seq(Inodes)
  BY Zenon DEF DevInv, Table, Directories
<1>2. DOMAIN dev_table \subseteq Nat /\ DOMAIN c \subseteq Nat
  BY <1>1
<1>3. InDev(name)
  BY Zenon DEF DevInv, Table
<1>4. hits # {} /\ hits \in SUBSET Nat
  BY Zenon, <1>2, <1>3 DEF InDev
<1>5. PICK h : h = Min(hits) /\ h \in DOMAIN c
  BY Zenon, <1>4, MinIsMember
<1>6. InUse(c[h])
  BY Zenon, <1>5 DEF DevInv, Directories
<1>7. Registered(name) # {} /\ Registered(name) \in SUBSET Nat
  BY Zenon, <1>2 DEF Registered
<1>8. Min(Registered(name)) \in Registered(name)
  BY Zenon, <1>7, MinIsMember
<1>9. PICK m \in DOMAIN dev_table : m = Min(Registered(name)) /\ dev_table[m].name = name
  BY Zenon, <1>8 DEF Registered
<1>10. dev_table[m].ops = name /\ name \in OpNames
  <2>1. dev_table[m].ops = name
    BY Zenon, <1>9 DEF DevInv, Table
  <2>2. dev_table[m] \in [name : OpNames, ops : OpNames]
    BY Zenon, <1>1, <1>9, Element
  <2> QED  BY Zenon, <1>9, <2>1, <2>2
<1>11. PICK i, a : i = c[h] /\ a = inode[i].kind
  BY Zenon
<1>12. tmpfs_finddir(Dev, name) = [inode |-> i, kind |-> a, ops |-> "tmpfs"]
  BY Zenon, <1>4, <1>5, <1>11 DEF tmpfs_finddir, inode_to_node
<1>13. i \in Inodes /\ a \in Kinds
  BY Zenon, <1>6, <1>11 DEF InUse
<1> HIDE DEF c, hits
<1>14. [inode |-> i, kind |-> a, ops |-> "tmpfs"] \in Nodes
  BY Zenon, <1>13 DEF Nodes
<1>15. tmpfs_finddir(Dev, name) # NULL
  BY Zenon, <1>12, <1>14, FilesAssumption
<1>16. devfs_get_node(name) = [tmpfs_finddir(Dev, name) EXCEPT !.ops = name]
  BY Zenon, <1>7, <1>9, <1>10, <1>15 DEF devfs_get_node, dev_finddir
<1>17. devfs_get_node(name) = [inode |-> i, kind |-> a, ops |-> name]
  BY <1>12, <1>16
<1>18. [inode |-> i, kind |-> a, ops |-> name] \in Nodes
  BY Zenon, <1>10, <1>13 DEF Nodes, OpNames
<1>19. devfs_get_node(name) # NULL
  BY Zenon, <1>17, <1>18, FilesAssumption
<1>20. PICK n : n = devfs_get_node(name)
  BY Zenon
<1>21. n = [inode |-> i, kind |-> a, ops |-> name]
  BY Zenon, <1>17, <1>20
<1>22. n.ops = name
  BY Zenon, <1>21
<1> QED  BY Zenon, <1>19, <1>20, <1>22

\* A device in the table can be opened and has its own operations
\* (devfs_register, dev_finddir, devfs_get_node): for pools, directories and
\* tables of any size, full or not, whatever files are created in /dev and
\* whatever is written meanwhile.
THEOREM DevicesAlwaysResolve == FileSpec => []DevicesResolve
<1>1. DevInv => DevicesResolve
  BY Zenon, LookupResolves DEF DevicesResolve
<1> QED  BY <1>1, FilesStart, FilesPreserved, PTL DEF FileSpec
=============================================================================
