------------------------------- MODULE MCVmm -------------------------------
(* What a process keeps its data in: its memory, the files and the drive.  *)
(* A behaviour is one of the three at work; the others stay as they start. *)
(* One image page, one stack page, a mmap window of one page; page tables  *)
(* of two pages.                                                           *)
EXTENDS VmmRefines, FilesRefines, Ata

VARIABLE scenario

MCPages == 1 .. 3
MCFrames == 1 .. 4
AllButBuffers == Pages \ KernelBuffers

MCInit ==
  /\ scenario \in {"memory", "files", "ata"}
  /\ Init /\ vfs_init
  /\ ata_reset /\ (scenario # "ata" => drive = [c \in Channels |-> "none"])

MCNext ==
  \/ scenario = "memory" /\ Next /\ UNCHANGED <<scenario, filevars, atavars>>
  \/ scenario = "files" /\ FileNext /\ UNCHANGED <<scenario, vars, atavars>>
  \/ scenario = "ata" /\ AtaNext /\ UNCHANGED <<scenario, vars, filevars>>

MCSpec == MCInit /\ [][MCNext]_<<scenario, vars, filevars, atavars>>
=============================================================================
