-------------------------------- MODULE Vmm --------------------------------
(***************************************************************************)
(* User address spaces (src/src/vmm/vmm.c and its callers process_fork,    *)
(* sys_execve and sys_mmap): copy-on-write fork, the write fault that      *)
(* copies, anonymous mappings, and the TLB the processor keeps beside the  *)
(* page tables.  A page table holds PT_ENTRIES consecutive pages; the      *)
(* levels above it appear as the points where a table frame may be missing.*)
(* Any allocation may fail: the rest of the kernel uses the same frames.   *)
(* No user page is ever given back, so frames are handed out in order.     *)
(***************************************************************************)
EXTENDS Integers, FiniteSets

CONSTANTS
  Procs, First,      \* process table slots; the slot of the first process
  Pages,             \* user pages, 1 .. n
  PT_ENTRIES,        \* pages of one page table (512)
  Image,             \* pages elf_load maps writable
  Stack,             \* pages of the user stack
  MMAP_BASE, MMAP_LIMIT,
  KernelBuffers,     \* pages handed to read() and waitpid(), which the kernel fills
  Frames,            \* 1 .. n: frames left for user pages
  Values, Zero,      \* what a page holds; a cleared page
  None

\* What the code looks at in a present entry.
PTEs == [frame : Frames, write : BOOLEAN, cow : BOOLEAN]

ASSUME VmmAssumption ==
  /\ First \in Procs /\ Zero \in Values
  /\ Image \subseteq Pages /\ Stack \subseteq Pages \ Image
  /\ KernelBuffers \subseteq Pages
  /\ Pages \subseteq Nat \ {0} /\ PT_ENTRIES \in Nat \ {0}
  /\ MMAP_BASE \in Nat \ {0} /\ MMAP_LIMIT \in Nat
  /\ Frames \subseteq Nat
  /\ None \notin PTEs

VARIABLES
  live,       \* processes with an address space
  current,    \* the process whose tables CR3 holds
  pte,        \* [Procs -> [Pages -> None or [frame, write, cow]]]
  content,    \* [Frames -> Values]
  used,       \* frames handed out
  tlb,        \* [Pages -> None or a cached entry] of the current process
  mmap_next,  \* [Procs -> Nat]: process_t.mmap_next, 0 before the first mmap
  destroyed,  \* processes whose live tables have been freed
  halted      \* page_fault_handler_c stopped the machine

vars == <<live, current, pte, content, used, tlb, mmap_next, destroyed, halted>>

Flushed == [v \in Pages |-> None]
TableOf(v) == (v - 1) \div PT_ENTRIES
Runs == ~halted /\ current \in live \ destroyed

\* pmm_alloc_frame hands out the lowest free frame; a loop over the pages S
\* gives them the lowest frames in order.
LowestFree(f) == f \notin used /\ \A g \in Frames \ used : f <= g

InOrder(S, m, free) ==
  /\ \A v, w \in S : v < w => m[v] < m[w]
  /\ \A v \in S, f \in free : f < m[v] => \E w \in S : m[w] = f

\* The entry the processor uses: the cached one if there is one.
Effective(v) == IF tlb[v] # None THEN tlb[v] ELSE pte[current][v]
-----------------------------------------------------------------------------
\* User code stores x to page v.
user_store(v, x) ==
  /\ Runs
  /\ Effective(v) # None /\ Effective(v).write
  /\ content' = [content EXCEPT ![Effective(v).frame] = x]
  /\ tlb' = [tlb EXCEPT ![v] = Effective(v)]
  /\ UNCHANGED <<live, current, pte, used, mmap_next, destroyed, halted>>

\* User code loads from page v, and the translation is cached.
user_load(v) ==
  /\ Runs
  /\ Effective(v) # None
  /\ tlb' = [tlb EXCEPT ![v] = Effective(v)]
  /\ UNCHANGED <<live, current, pte, content, used, mmap_next, destroyed, halted>>

\* Mutant: invlpg is missing.
cow_handle_noflush(v) ==
  /\ Runs
  /\ Effective(v) # None /\ ~Effective(v).write
  /\ pte[current][v].cow
  /\ \E f \in Frames :
       /\ LowestFree(f)
       /\ used' = used \cup {f}
       /\ content' = [content EXCEPT ![f] = content[pte[current][v].frame]]
       /\ pte' = [pte EXCEPT ![current][v] = [frame |-> f, write |-> TRUE, cow |-> FALSE]]
  /\ UNCHANGED <<live, current, tlb, mmap_next, destroyed, halted>>

\* Mutant: the content is not copied.
cow_handle_nocopy(v) ==
  /\ Runs
  /\ Effective(v) # None /\ ~Effective(v).write
  /\ pte[current][v].cow
  /\ \E f \in Frames :
       /\ LowestFree(f)
       /\ used' = used \cup {f}
       /\ pte' = [pte EXCEPT ![current][v] = [frame |-> f, write |-> TRUE, cow |-> FALSE]]
  /\ tlb' = [tlb EXCEPT ![v] = None]
  /\ UNCHANGED <<live, current, content, mmap_next, destroyed, halted>>

\* A store to a read-only present page faults; cow_handle copies the frame,
\* maps the copy writable and drops the cached entry.
cow_handle(v) ==
  /\ Runs
  /\ Effective(v) # None /\ ~Effective(v).write
  /\ pte[current][v].cow
  /\ \E f \in Frames :
       /\ LowestFree(f)
       /\ used' = used \cup {f}
       /\ content' = [content EXCEPT ![f] = content[pte[current][v].frame]]
       /\ pte' = [pte EXCEPT ![current][v] = [frame |-> f, write |-> TRUE, cow |-> FALSE]]
  /\ tlb' = [tlb EXCEPT ![v] = None]
  /\ UNCHANGED <<live, current, mmap_next, destroyed, halted>>

\* Any other fault, and a copy-on-write fault without a free frame, stops the
\* machine.
page_fault_handler_c(v) ==
  /\ Runs
  /\ ~(Effective(v) # None /\ Effective(v).write)
  /\ halted' = TRUE
  /\ UNCHANGED <<live, current, pte, content, used, tlb, mmap_next, destroyed>>

\* The kernel fills a user buffer (sys_read, sys_waitpid).  CR0.WP is never
\* set, so ring 0 stores to read-only pages without a fault.
kernel_store(v, x) ==
  /\ Runs
  /\ Effective(v) # None
  /\ content' = [content EXCEPT ![Effective(v).frame] = x]
  /\ tlb' = [tlb EXCEPT ![v] = Effective(v)]
  /\ UNCHANGED <<live, current, pte, used, mmap_next, destroyed, halted>>

\* context_switch loads another CR3, which empties the TLB.
context_switch(p) ==
  /\ ~halted
  /\ p \in live /\ p # current
  /\ current' = p
  /\ tlb' = Flushed
  /\ UNCHANGED <<live, pte, content, used, mmap_next, destroyed, halted>>
-----------------------------------------------------------------------------
\* cow_clone_pt on one entry: read-only and COW if it was writable.
Cow(e) == IF e # None /\ e.write THEN [e EXCEPT !.write = FALSE, !.cow = TRUE] ELSE e

\* The parent's entries, and the child's, once every table has been cloned,
Cloned == [v \in Pages |-> Cow(pte[current][v])]

\* and the parent's once the tables before t have been.
ClonedBefore(t) ==
  [v \in Pages |-> IF TableOf(v) < t THEN Cow(pte[current][v]) ELSE pte[current][v]]

AllTables == 1 + CHOOSE t \in {TableOf(v) : v \in Pages} : \A v \in Pages : TableOf(v) <= t

\* Mutant: the last table of the parent is not cloned.
process_fork_short(c) ==
  /\ Runs
  /\ c \notin live
  /\ pte' = [pte EXCEPT ![current] = Cloned,
                        ![c] = [v \in Pages |-> IF TableOf(v) < AllTables - 1
                                                 THEN Cow(pte[current][v]) ELSE None]]
  /\ live' = live \cup {c}
  /\ destroyed' = destroyed \ {c}
  /\ tlb' = Flushed
  /\ UNCHANGED <<current, content, used, mmap_next, halted>>

\* Mutant: CR3 is not reloaded after the parent's entries changed.
process_fork_noflush(c) ==
  /\ Runs
  /\ c \notin live
  /\ pte' = [pte EXCEPT ![current] = Cloned, ![c] = Cloned]
  /\ live' = live \cup {c}
  /\ destroyed' = destroyed \ {c}
  /\ UNCHANGED <<current, content, used, tlb, mmap_next, halted>>

\* process_fork: every table cloned, CR3 reloaded.  The child's mmap_next is
\* whatever its slot held.
process_fork(c) ==
  /\ Runs
  /\ c \notin live
  /\ pte' = [pte EXCEPT ![current] = Cloned, ![c] = Cloned]
  /\ live' = live \cup {c}
  /\ destroyed' = destroyed \ {c}
  /\ tlb' = Flushed
  /\ UNCHANGED <<current, content, used, mmap_next, halted>>

\* process_fork short of a frame at table t: the parent's entries before it
\* stay read-only, and its TLB is not flushed.
process_fork_oom(t) ==
  /\ Runs
  /\ pte' = [pte EXCEPT ![current] = ClonedBefore(t)]
  /\ UNCHANGED <<live, current, content, used, tlb, mmap_next, destroyed, halted>>

\* process_exit frees nothing; another process is switched to.
process_exit(q) ==
  /\ Runs
  /\ q \in live \ {current}
  /\ live' = live \ {current}
  /\ current' = q
  /\ tlb' = Flushed
  /\ UNCHANGED <<pte, content, used, mmap_next, destroyed, halted>>
-----------------------------------------------------------------------------
Writable(f) == [frame |-> f, write |-> TRUE, cow |-> FALSE]
Cleared(m, S) == [f \in Frames |-> IF \E v \in S : m[v] = f THEN Zero ELSE content[f]]
ImageOf(p, m) == {m[v] : v \in p}

MmapStart == IF mmap_next[current] = 0 THEN MMAP_BASE ELSE mmap_next[current]

\* sys_mmap of n pages of which k get mapped; it succeeds when k = n.  On
\* failure the mapped pages stay and the cursor does not move.
sys_mmap(n, k) ==
  LET S == MmapStart .. MmapStart + k - 1 IN
  /\ Runs
  /\ k <= n
  /\ MmapStart + n <= MMAP_LIMIT
  /\ \E m \in [S -> Frames \ used] :
       /\ InOrder(S, m, Frames \ used)
       /\ used' = used \cup ImageOf(S, m)
       /\ content' = Cleared(m, S)
       /\ pte' = [pte EXCEPT ![current] =
                    [v \in Pages |-> IF v \in S THEN Writable(m[v]) ELSE pte[current][v]]]
  /\ tlb' = [v \in Pages |-> IF v \in S THEN None ELSE tlb[v]]
  /\ mmap_next' = [mmap_next EXCEPT ![current] = MmapStart + IF k = n THEN n ELSE 0]
  /\ UNCHANGED <<live, current, destroyed, halted>>

\* The new image: fresh cleared pages.  sys_execve ignores the result of
\* mapping a stack page, so the pages mapped are Image and part of Stack.
LoadImage(mapped) ==
  /\ Image \subseteq mapped /\ mapped \subseteq Image \cup Stack
  /\ \E m \in [Image \cup Stack -> Frames \ used] :
       /\ InOrder(Image \cup Stack, m, Frames \ used)
       /\ used' = used \cup ImageOf(Image \cup Stack, m)
       /\ content' = Cleared(m, Image \cup Stack)
       /\ pte' = [pte EXCEPT ![current] =
                    [v \in Pages |-> IF v \in mapped THEN Writable(m[v]) ELSE None]]
  /\ tlb' = Flushed
  /\ mmap_next' = [mmap_next EXCEPT ![current] = 0]

sys_execve(mapped) ==
  /\ Runs
  /\ LoadImage(mapped)
  /\ UNCHANGED <<live, current, destroyed, halted>>

\* elf_load or the stack loop is short of a frame: the new tables are freed,
\* the pages already filled are lost, the caller keeps its image.
sys_execve_oom ==
  /\ Runs
  /\ \E f \in Frames :
       /\ LowestFree(f)
       /\ used' = used \cup {f}
       /\ content' = [content EXCEPT ![f] = Zero]
  /\ UNCHANGED <<live, current, pte, tlb, mmap_next, destroyed, halted>>

\* kmalloc of the new kernel stack fails: the old tables are gone already, and
\* the new ones, which CR3 holds, are freed before the error is returned.
sys_execve_late_oom(mapped) ==
  /\ Runs
  /\ LoadImage(mapped)
  /\ destroyed' = destroyed \cup {current}
  /\ UNCHANGED <<live, current, halted>>
-----------------------------------------------------------------------------
Init ==
  /\ live = {First} /\ current = First
  /\ \E m \in [Image \cup Stack -> Frames] :
       /\ InOrder(Image \cup Stack, m, Frames)
       /\ used = ImageOf(Image \cup Stack, m)
       /\ pte = [p \in Procs |-> [v \in Pages |->
                   IF p = First /\ v \in Image \cup Stack THEN Writable(m[v]) ELSE None]]
  /\ content = [f \in Frames |-> Zero]
  /\ tlb = Flushed
  /\ mmap_next = [p \in Procs |-> 0]
  /\ destroyed = {}
  /\ halted = FALSE

UserStep ==
  \E v \in Pages :
    \/ \E x \in Values : user_store(v, x)
    \/ user_load(v)
    \/ cow_handle(v)
    \/ page_fault_handler_c(v)

KernelStep ==
  \/ \E v \in KernelBuffers, x \in Values : kernel_store(v, x)
  \/ \E c \in Procs : process_fork(c) \/ process_exit(c) \/ context_switch(c)
  \/ \E t \in 0 .. AllTables - 1 : process_fork_oom(t)
  \/ \E n \in 1 .. MMAP_LIMIT - MMAP_BASE : \E k \in 0 .. n : sys_mmap(n, k)
  \/ \E mapped \in SUBSET (Image \cup Stack) : sys_execve(mapped) \/ sys_execve_late_oom(mapped)
  \/ sys_execve_oom

Next == UserStep \/ KernelStep

Spec == Init /\ [][Next]_vars
-----------------------------------------------------------------------------
TypeOK ==
  /\ live \in SUBSET Procs /\ current \in Procs
  /\ pte \in [Procs -> [Pages -> PTEs \cup {None}]]
  /\ content \in [Frames -> Values]
  /\ used \in SUBSET Frames
  /\ tlb \in [Pages -> PTEs \cup {None}]
  /\ mmap_next \in [Procs -> {0} \cup (MMAP_BASE .. MMAP_LIMIT)]
  /\ destroyed \in SUBSET Procs
  /\ halted \in BOOLEAN

Maps(p, v, f) == p \in live /\ pte[p][v] # None /\ pte[p][v].frame = f

(***************************************************************************)
(* What makes copy-on-write safe: a frame some process may store to, by    *)
(* its page table or by an entry its TLB still holds, is mapped nowhere    *)
(* else.  fork, the write fault, mmap and execve all have to keep it, a    *)
(* fork that runs out of memory half-way included.                         *)
(***************************************************************************)
WritableIsExclusive ==
  \A p, q \in Procs : \A v, w \in Pages :
    /\ p \in live /\ pte[p][v] # None /\ pte[p][v].write
       /\ Maps(q, w, pte[p][v].frame) => p = q /\ v = w
    /\ tlb[v] # None /\ tlb[v].write
       /\ Maps(q, w, tlb[v].frame) => q = current /\ v = w

(***************************************************************************)
(* The TLB never leads a process to a frame its page table no longer       *)
(* names (invlpg after every change of a frame, CR3 reloads).              *)
(***************************************************************************)
TlbCoherent ==
  \A v \in Pages :
    tlb[v] # None => pte[current][v] # None /\ pte[current][v].frame = tlb[v].frame
=============================================================================
