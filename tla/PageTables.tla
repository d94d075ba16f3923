----------------------------- MODULE PageTables -----------------------------
(***************************************************************************)
(* The page-table walks of src/src/vmm/vmm.c: tables made on the way down  *)
(* from frames that may run out half-way, torn down by                     *)
(* vmm_destroy_user_pml4 and reused for other tables.  Module Vmm takes an *)
(* address space to be a function from pages to entries; this module shows *)
(* that the tables are one.  A virtual address is the sequence of its      *)
(* indices; index 0 of the top table is the user half, index 1 the kernel  *)
(* half, whose next table exists at boot.  Huge pages, which only the boot *)
(* code makes, and entry flags are left out.                               *)
(***************************************************************************)
EXTENDS Naturals, Sequences, SequencesExt, FiniteSetsExt

CONSTANTS
  LEVELS,         \* levels of the tables (4)
  PT_ENTRIES,     \* entries of a table (512)
  boot, kernel,   \* frames of the boot PML4 and of the kernel half's table
  Pool,           \* numbers of the frames pmm_alloc_frame can give
  UserPages, KernelPages,   \* virtual addresses in use in each half
  Phys,           \* what a page is mapped to
  NULL

VARIABLES
  mem,      \* table frame -> index -> NULL, a table frame or a page's frame
  free,     \* frames the allocator has
  spaces,   \* live address spaces, by PML4
  mapped    \* history: what the last successful call for a page asked for

vars == <<mem, free, spaces, mapped>>

Idx == 0..PT_ENTRIES - 1
Frames == Pool \cup {boot, kernel}
Zeroed == [i \in Idx |-> NULL]
-----------------------------------------------------------------------------
\* Mutant: a table without the memset, as the last user of the frame left it.
get_or_alloc_table_dirty(s, i) ==
  LET frame == Min(s.free) IN
  IF s.table = NULL THEN s
  ELSE IF s.mem[s.table][i] # NULL THEN [s EXCEPT !.table = s.mem[s.table][i]]
  ELSE IF s.free = {} THEN [s EXCEPT !.table = NULL]
  ELSE [mem |-> [s.mem EXCEPT ![s.table][i] = frame],
        free |-> s.free \ {frame}, table |-> frame]

\* The table below entry i of s.table; a missing one is taken from the lowest
\* free frame and zeroed.  NULL when there is no frame, and from then on.
get_or_alloc_table(s, i) ==
  LET frame == Min(s.free) IN
  IF s.table = NULL THEN s
  ELSE IF s.mem[s.table][i] # NULL THEN [s EXCEPT !.table = s.mem[s.table][i]]
  ELSE IF s.free = {} THEN [s EXCEPT !.table = NULL]
  ELSE [mem |-> [s.mem EXCEPT ![s.table][i] = frame, ![frame] = Zeroed],
        free |-> s.free \ {frame}, table |-> frame]

\* The walk down to the last table; what it made stays when it fails.
Descend(root, virt) ==
  FoldLeft(get_or_alloc_table, [mem |-> mem, free |-> free, table |-> root],
           Front(virt))

Map(root, virt, phys) ==
  LET s == Descend(root, virt) IN
  /\ free' = s.free
  /\ \/ s.table = NULL /\ mem' = s.mem /\ UNCHANGED mapped
     \/ /\ s.table # NULL
        /\ mem' = [s.mem EXCEPT ![s.table][Last(virt)] = phys]
        /\ mapped' = [mapped EXCEPT ![root][virt] = phys]
  /\ UNCHANGED spaces

\* Without making tables: NULL as soon as an entry is not present.  A walk that
\* met a page where a table should be would end there.
Lookup(root, virt) ==
  FoldLeft(LAMBDA t, i : IF t \in Frames THEN mem[t][i] ELSE t, root, virt)

\* vmm_map_page and vmm_unmap_page work on the boot PML4.
vmm_map_page(virt, phys) == Map(boot, virt, phys)

vmm_unmap_page(virt) ==
  LET pt == Lookup(boot, Front(virt)) IN
  /\ pt # NULL
  /\ mem' = [mem EXCEPT ![pt][Last(virt)] = NULL]
  /\ mapped' = [mapped EXCEPT ![boot][virt] = NULL]
  /\ UNCHANGED <<free, spaces>>

vmm_get_phys(virt) == Lookup(boot, virt)

\* The user half is zeroed, the kernel half shared with the boot PML4.
vmm_create_user_pml4 ==
  LET frame == Min(free) IN
  /\ free # {}
  /\ free' = free \ {frame}
  /\ mem' = [mem EXCEPT ![frame] = [i \in Idx |-> IF i = 0 THEN NULL
                                                  ELSE mem[boot][i]]]
  /\ spaces' = spaces \cup {frame}
  /\ mapped' = [mapped EXCEPT ![frame] = [v \in UserPages |-> NULL]]

vmm_map_user_page(pml4, virt, phys) == pml4 \in spaces /\ Map(pml4, virt, phys)

\* The stack frames of the first process, at the addresses of user pages.
vmm_map_kernel_in_user_pml4(pml4, virt, phys) ==
  pml4 \in spaces /\ Map(pml4, virt, phys)

\* The tables below the user half of a PML4, one level after the other.
free_user_pdpt(pml4) ==
  FoldLeft(LAMBDA found, level :
             found \cup {mem[t][i] : t \in found \ {NULL}, i \in Idx},
           {mem[pml4][0]}, [level \in 1..LEVELS - 2 |-> level]) \ {NULL}

\* execve drops the old address space, or the new one when it fails; the pages
\* mapped in it are not given back.
vmm_destroy_user_pml4(pml4) ==
  /\ pml4 \in spaces
  /\ free' = free \cup free_user_pdpt(pml4) \cup {pml4}
  /\ spaces' = spaces \ {pml4}
  /\ mapped' = [mapped EXCEPT ![pml4] = [v \in UserPages |-> NULL]]
  /\ UNCHANGED mem
-----------------------------------------------------------------------------
\* The boot PML4 is in CR3; a free frame holds whatever was there before.
vmm_init ==
  /\ mem = [f \in Frames |->
              IF f = boot THEN [i \in Idx |-> IF i = 1 THEN kernel ELSE NULL]
              ELSE IF f = kernel THEN Zeroed
              ELSE [i \in Idx |-> f]]
  /\ free = Pool /\ spaces = {}
  /\ mapped = [f \in Frames |-> [v \in IF f = boot THEN KernelPages ELSE UserPages
                                   |-> NULL]]

Next ==
  \/ \E v \in KernelPages :
       vmm_unmap_page(v) \/ \E p \in Phys : vmm_map_page(v, p)
  \/ vmm_create_user_pml4
  \/ \E s \in Pool :
       \/ vmm_destroy_user_pml4(s)
       \/ \E v \in UserPages, p \in Phys :
            vmm_map_user_page(s, v, p) \/ vmm_map_kernel_in_user_pml4(s, v, p)

Spec == vmm_init /\ [][Next]_vars
-----------------------------------------------------------------------------
\* The tables are the map from pages to frames that the calls describe.  In
\* every address space the walk of a user page, and in every one of them the
\* walk of a kernel page, finds what the last successful call mapped there and
\* nothing else: whatever a frame held before it became a table, wherever a
\* mapping ran out of frames, and whichever address spaces were torn down.
WalkFindsMapping ==
  /\ \A s \in spaces, v \in UserPages : Lookup(s, v) = mapped[s][v]
  /\ \A v \in KernelPages : vmm_get_phys(v) = mapped[boot][v]
  /\ \A s \in spaces, v \in KernelPages : Lookup(s, v) = mapped[boot][v]
=============================================================================
