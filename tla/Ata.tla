-------------------------------- MODULE Ata --------------------------------
(***************************************************************************)
(* The ATA driver (src/src/ata/ata.c) against a drive that may answer a    *)
(* poll with an error or not at all, and may fail to store a sector it was *)
(* sent.  Nothing in the kernel calls ata_read and ata_write yet, so they  *)
(* are called in any order with any arguments inside or just past the      *)
(* drive.  The drive is external: what it does with the registers the      *)
(* driver writes.                                                          *)
(***************************************************************************)
EXTENDS Integers, Sequences

CONSTANTS
  SECTORS,     \* size of a drive
  MAX_COUNT,   \* what a sector count register of 0 stands for (256)
  SectorData,  \* what is written to a sector
  SectorJunk   \* what the data port gives when the drive has no data

ASSUME AtaAssumption == SECTORS \in Nat \ {0} /\ MAX_COUNT \in Nat \ {0}

Channels == {"primary", "secondary"}
Requests == [lba : 0..SECTORS, count : 0..MAX_COUNT - 1]

VARIABLES
  drive,              \* what is on each channel: "none", "atapi" or "ata"
  disk,               \* the sectors of each channel's drive, different at first
  cmd,                \* the drive's command: [op, at, left, err]
  ata_total_sectors, ata_base,
  transfer,           \* the call in progress: [op, lba, count, done, buf]
  returned            \* the last call, if it returned 0, until the next one

atavars == <<drive, disk, cmd, ata_total_sectors, ata_base, transfer, returned>>
identified == <<drive, ata_total_sectors, ata_base>>

NoTransfer == [op |-> "none", lba |-> 0, count |-> 0, done |-> 0, buf |-> <<>>]
NoCommand == [op |-> "none", at |-> 0, left |-> 0, err |-> FALSE]
-----------------------------------------------------------------------------
\* The drive: data is due while sectors are left, inside the disk, and no error
\* is latched.  Any poll may find an error, or time out.
DataDue == cmd.left > 0 /\ cmd.at < SECTORS /\ ~cmd.err

\* poll_drq: ERR, DRQ, or 0xFF after the last try.
poll_drq(st) ==
  \/ st = "ERR"
  \/ st = "DRQ" /\ DataDue
  \/ st = "0xFF" /\ ~cmd.err

\* Mutant: a time-out is not taken for an error.
ErrBit_reported(st) == st = "ERR"

\* st & ATA_SR_ERR, which a time-out has as well.
ErrBit(st) == st \in {"ERR", "0xFF"}

\* One channel: a floating or empty bus, an ATAPI signature, an error or a
\* time-out give 0.
try_identify(ch, sectors) ==
  \/ sectors = 0
  \/ drive[ch] = "ata" /\ sectors = SECTORS

\* The drive takes the registers lba_setup wrote with the command.
lba_setup(op, lba, count) ==
  cmd' = [op |-> op, at |-> lba, err |-> FALSE,
          left |-> IF count = 0 THEN MAX_COUNT ELSE count]

Return(ret) == transfer' = NoTransfer /\ returned' = IF ret = 0 THEN transfer ELSE NoTransfer
-----------------------------------------------------------------------------
\* The primary channel first, then the secondary.
ata_init ==
  /\ transfer.op = "boot"
  /\ \/ /\ try_identify("primary", SECTORS)
        /\ ata_base' = "primary" /\ ata_total_sectors' = SECTORS
     \/ /\ try_identify("primary", 0) /\ try_identify("secondary", SECTORS)
        /\ ata_base' = "secondary" /\ ata_total_sectors' = SECTORS
     \/ /\ try_identify("primary", 0) /\ try_identify("secondary", 0)
        /\ UNCHANGED <<ata_base, ata_total_sectors>>
  /\ transfer' = NoTransfer
  /\ UNCHANGED <<drive, disk, cmd, returned>>

\* The start of ata_read and ata_write: no drive, or one that stays busy, is an
\* error; otherwise the command is given.
Start(op, r, buf) ==
  /\ transfer = NoTransfer
  /\ LET c == [op |-> op, lba |-> r.lba, count |-> r.count, done |-> 0, buf |-> buf] IN
     \/ transfer' = NoTransfer /\ UNCHANGED cmd
     \/ /\ ata_total_sectors # 0
        /\ lba_setup(op, r.lba, r.count)
        /\ transfer' = c
  /\ returned' = NoTransfer
  /\ UNCHANGED <<disk, identified>>

ata_read(r) == Start("read", r, <<>>)
ata_write(r, buf) == Len(buf) = r.count /\ Start("write", r, buf)

\* Of either loop: the poll fails and the call with it.
PollFails ==
  /\ transfer.op \in {"read", "write"} /\ transfer.done < transfer.count
  /\ \E st \in {"ERR", "DRQ", "0xFF"} : poll_drq(st) /\ ErrBit(st)
  /\ Return(-1)
  /\ UNCHANGED <<disk, cmd, identified>>

NextSector == [cmd EXCEPT !.at = @ + 1, !.left = @ - 1]

\* 256 words from the data port.
ReadSector ==
  /\ transfer.op = "read" /\ transfer.done < transfer.count
  /\ \E st \in {"ERR", "DRQ", "0xFF"} :
       /\ poll_drq(st) /\ ~ErrBit(st)
       /\ transfer' = [transfer EXCEPT !.done = @ + 1, !.buf = Append(@,
                     IF st = "DRQ" THEN disk[ata_base][cmd.at] ELSE SectorJunk)]
       /\ cmd' = IF st = "DRQ" THEN NextSector ELSE cmd
  /\ UNCHANGED <<disk, returned, identified>>

\* 256 words to the data port.  The drive stores the sector, or latches an
\* error that the next poll_drq of this command would find.
WriteSector ==
  /\ transfer.op = "write" /\ transfer.done < transfer.count
  /\ \E st \in {"ERR", "DRQ", "0xFF"} : poll_drq(st) /\ ~ErrBit(st)
  /\ transfer' = [transfer EXCEPT !.done = @ + 1]
  /\ \/ /\ disk' = [disk EXCEPT ![ata_base][cmd.at] = transfer.buf[transfer.done + 1]]
        /\ cmd' = NextSector
     \/ cmd' = [NextSector EXCEPT !.err = TRUE] /\ UNCHANGED disk
  /\ UNCHANGED <<returned, identified>>

\* ata_read returns 0 after its last sector.
ReadDone ==
  /\ transfer.op = "read" /\ transfer.done = transfer.count
  /\ Return(0)
  /\ UNCHANGED <<disk, cmd, identified>>

\* ata_write waits, flushes, waits, and looks at neither status.
WriteDone ==
  /\ transfer.op = "write" /\ transfer.done = transfer.count
  /\ cmd' = [NoCommand EXCEPT !.op = "flush"]
  /\ Return(0)
  /\ UNCHANGED <<disk, identified>>
-----------------------------------------------------------------------------
ata_reset ==
  /\ drive \in [Channels -> {"none", "atapi", "ata"}]
  /\ disk = [ch \in Channels |-> [s \in 0..SECTORS - 1 |-> ch]]
  /\ cmd = NoCommand
  /\ ata_total_sectors = 0 /\ ata_base = "none"
  /\ transfer = [NoTransfer EXCEPT !.op = "boot"] /\ returned = NoTransfer

AtaNext ==
  \/ ata_init
  \/ \E r \in Requests :
       \/ ata_read(r)
       \/ \E buf \in [1..r.count -> SectorData] : ata_write(r, buf)
  \/ PollFails \/ ReadSector \/ WriteSector \/ ReadDone \/ WriteDone

AtaSpec == ata_reset /\ [][AtaNext]_atavars
-----------------------------------------------------------------------------
Holds(c) == \A i \in 1..c.count :
              /\ c.lba + i - 1 < SECTORS
              /\ disk[ata_base][c.lba + i - 1] = c.buf[i]

\* A read that returned 0 has put the sectors asked for, in order, from the
\* drive that was identified, into the buffer: no poll that failed or timed out
\* passed for data, whatever the calls before it left the drive doing.
ReadIsStored ==
  returned.op = "read" => drive[ata_base] = "ata" /\ Holds(returned)

\* A write that returned 0 has stored its sectors: "Returns 0 on success, -1 on
\* error" (ata.h).  The code violates it: the status after the last sector and
\* after the flush is read and dropped.
WriteIsStored ==
  returned.op = "write" => Holds(returned)
=============================================================================
