----------------------------- MODULE VmmRefines -----------------------------
(***************************************************************************)
(* Copy-on-write address spaces implement private memory, on the pages the *)
(* kernel itself does not store to.                                        *)
(***************************************************************************)
EXTENDS Vmm

CONSTANT Seen   \* the pages compared with private memory

ASSUME SeenAssumption ==
  /\ Seen \subseteq Pages \ KernelBuffers
  /\ None \notin Values

\* What process p finds at page v, walking its page table.
View(p, v) ==
  IF p \in live \ destroyed /\ pte[p][v] # None THEN content[pte[p][v].frame] ELSE None

Memory == INSTANCE PrivateMemory WITH
  Pages <- Seen, Unmapped <- None,
  mem <- [p \in Procs |-> [v \in Seen |-> View(p, v)]]

(***************************************************************************)
(* Sharing is invisible: whatever fork, faults, mmap, execve, switches and *)
(* stale TLB entries do, each process sees memory that only its own stores *)
(* change.                                                                 *)
(***************************************************************************)
ImplementsPrivateMemory == Memory!Spec

(***************************************************************************)
(* What a process sees never changes by a copy-on-write fault, a load, a   *)
(* switch or a fork that fails.                                            *)
(***************************************************************************)
FaultsAreInvisible ==
  [][ (\E p \in Procs, v \in Pages : View(p, v)' # View(p, v)) =>
      ~ \/ \E v \in Pages : cow_handle(v) \/ user_load(v)
        \/ \E p \in Procs : context_switch(p)
        \/ \E t \in 0 .. AllTables - 1 : process_fork_oom(t)]_vars
=============================================================================
