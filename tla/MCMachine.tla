----------------------------- MODULE MCMachine ------------------------------
(* The parts of the kernel next to the machine: the frame allocator, the    *)
(* heap, the page tables, the system call entry and the interrupt path.  A  *)
(* behaviour is one of them at work; the others stay as they start.  The    *)
(* memory maps have entries that overlap, start inside a frame, run past    *)
(* the tracked frames or hold no whole frame, in any order.                 *)
(* Nothing orders kernel stacks, so they are symmetric.                     *)
EXTENDS Pmm, EntryState, IrqTables, TLC

CONSTANTS HEAP_MIN_ORDER, HEAP_MAX_ORDER, SLAB_SIZE, SLAB_HDR, LARGE_HDR, U32,
          NFRAMES, Sizes, MAX_BLOCKS,
          First, Contexts, Entry, Stacks, None,
          IrqProcs, SCHED_TICKS_PER_SLICE, NoFunction,
          LEVELS, PT_ENTRIES, boot, kernel, Pool, UserPages, KernelPages, Phys

VARIABLES scenario,
          heap, blocks, clients,
          mem, free, spaces, mapped

H == INSTANCE Heap
E == INSTANCE SyscallEntry
I == INSTANCE Interrupts WITH Procs <- IrqProcs, NULL <- NoFunction
P == INSTANCE PageTables WITH NULL <- 0

heapvars == <<heap, blocks, clients>>
irqvars == <<irr, isr, imr, irq_handlers, callbacks, owed, tick_counter,
             scheduler_yield_pending, current_proc, IFlag, frame>>
tablevars == <<mem, free, spaces, mapped>>
allvars == <<scenario, vars, heapvars, entryvars, irqvars, tablevars>>

MapEntries == {<<0, 4>>, <<1, 5>>, <<2, 7>>, <<4, 12>>, <<7, 1>>, <<10, 9>>}
TwoTables == {<<0, 0, 0>>, <<0, 0, 1>>, <<0, 1, 0>>}
OneTable == {<<1, 0, 0>>}
Symmetry == Permutations(Stacks)

MCInit ==
  /\ scenario \in {"pmm", "heap", "entry", "irq", "tables"}
  /\ Init /\ H!Init /\ E!EntryInit /\ P!vmm_init
  /\ I!IrqInit /\ (scenario # "irq" => irr = {})

MCNext ==
  /\ UNCHANGED scenario
  /\ \/ /\ scenario = "pmm" /\ Next
        /\ UNCHANGED <<heapvars, entryvars, irqvars, tablevars>>
     \/ /\ scenario = "heap" /\ H!Next
        /\ UNCHANGED <<vars, entryvars, irqvars, tablevars>>
     \/ /\ scenario = "entry" /\ E!EntryNext
        /\ UNCHANGED <<vars, heapvars, irqvars, tablevars>>
     \/ /\ scenario = "irq" /\ I!IrqNext
        /\ UNCHANGED <<vars, heapvars, entryvars, tablevars>>
     \/ /\ scenario = "tables" /\ P!Next
        /\ UNCHANGED <<vars, heapvars, entryvars, irqvars>>

MCSpec == MCInit /\ [][MCNext]_allvars

\* HeapIsSound of module Heap: live blocks overlap nothing, and lists, counts,
\* live blocks and frames agree.
HeapIsSound == H!HeapIsSound

\* WalkFindsMapping of module PageTables: the tables are the map asked for.
WalkFindsMapping == P!WalkFindsMapping
=============================================================================
