-------------------------------- MODULE Heap --------------------------------
(***************************************************************************)
(* The kernel heap (src/src/heap/heap.c): slab caches of power-of-two      *)
(* objects, one page per slab, and page-granular large blocks, on top of   *)
(* the frame allocator.  Memory is addressed in bytes; a page keeps the    *)
(* header fields last written to it after it is freed, because neither     *)
(* pmm_free_frame nor large_alloc clears it.  Each call runs to            *)
(* completion.                                                             *)
(***************************************************************************)
EXTENDS Integers, FiniteSets, SequencesExt

CONSTANTS
  HEAP_MIN_ORDER, HEAP_MAX_ORDER,
  SLAB_SIZE,      \* bytes of a page (4096)
  SLAB_HDR,       \* sizeof(slab_t) (32)
  LARGE_HDR,      \* sizeof(large_hdr_t) (8)
  U32,            \* 2^32: free_count is a u32
  NFRAMES,        \* bound: frames 1 .. NFRAMES are managed
  Sizes,          \* the sizes requested
  MAX_BLOCKS      \* bound: live blocks

VARIABLES
  heap,     \* [used, page, partial, full]: bitmap, page headers, cache lists
  blocks,   \* history: live blocks, [ptr, size]
  clients   \* frames other users of the frame allocator hold

vars == <<heap, blocks, clients>>

Frames == 1 .. NFRAMES
Classes == {2 ^ o : o \in HEAP_MIN_ORDER .. HEAP_MAX_ORDER}
LargestClass == 2 ^ HEAP_MAX_ORDER
NULL == 0
FrameOf(ptr) == ptr \div SLAB_SIZE
CeilDiv(a, b) == (a + b - 1) \div b

\* A page whose first bytes look like no slab header.
Blank == [obj_size |-> 0, free_count |-> 0, total |-> 0, freelist |-> <<>>,
          num_pages |-> 0]
-----------------------------------------------------------------------------
\* pmm_alloc_frame as its users see it: the lowest free frame, or NULL.
FreeFrames(h) == Frames \ h.used
LowestFree(h) == IF FreeFrames(h) = {} THEN NULL ELSE Min(FreeFrames(h))

\* round_up_pow2 and cache_index: the smallest class that holds size bytes.
round_up_pow2(size) == Min({c \in Classes : c >= size})

\* The header, rounded up to a multiple of the object size.
HdrSize(c) == CeilDiv(SLAB_HDR, c) * c

\* The freelist head is stored even when no object fits after the header.
slab_create(h, c) ==
  LET f     == LowestFree(h)
      total == (SLAB_SIZE - HdrSize(c)) \div c
      base  == f * SLAB_SIZE + HdrSize(c)
  IN  [h EXCEPT !.used = @ \cup {f},
                !.partial[c] = <<f>>,
                !.page[f] = [obj_size |-> c, free_count |-> total, total |-> total,
                             freelist |-> [i \in 1 .. Max({1, total}) |-> base + (i - 1) * c],
                             num_pages |-> 0]]

\* cache_alloc with slab_alloc_from: pop an object of the first partial slab,
\* and move the slab to the full list when that was its last one.
cache_alloc(h, c) ==
  LET h1   == IF h.partial[c] = <<>> THEN slab_create(h, c) ELSE h
      s    == Head(h1.partial[c])
      left == (h1.page[s].free_count - 1) % U32
      h2   == [h1 EXCEPT !.page[s].freelist = Tail(@), !.page[s].free_count = left]
  IN  IF h.partial[c] = <<>> /\ LowestFree(h) = NULL
      THEN [heap |-> h, ptr |-> NULL]
      ELSE [ptr  |-> Head(h1.page[s].freelist),
            heap |-> IF left = 0
                     THEN [h2 EXCEPT !.partial[c] = Tail(@), !.full[c] = <<s>> \o @]
                     ELSE h2]

\* cache_free: push the object, move a slab that was full to the partial list,
\* and give the frame of an empty slab back.
cache_free(h, c, ptr) ==
  LET s  == FrameOf(ptr)
      h1 == [h EXCEPT !.page[s].freelist = <<ptr>> \o @,
                      !.page[s].free_count = (@ + 1) % U32]
      h2 == IF h.page[s].free_count = 0
            THEN [h1 EXCEPT !.full[c] = Remove(@, s), !.partial[c] = <<s>> \o @]
            ELSE h1
  IN  IF h2.page[s].free_count = h2.page[s].total
      THEN [h2 EXCEPT !.partial[c] = Remove(@, s), !.used = @ \ {s}]
      ELSE h2

\* large_alloc takes the lowest free frames one by one; short of frames it
\* returns NULL and keeps the ones it has.
large_alloc(h, size) ==
  LET num  == CeilDiv(size + LARGE_HDR, SLAB_SIZE)
      got  == {f \in FreeFrames(h) : Cardinality({g \in FreeFrames(h) : g < f}) < num}
      h1   == [h EXCEPT !.used = @ \cup got]
      f0   == LowestFree(h)
  IN  IF Cardinality(got) < num
      THEN [heap |-> h1, ptr |-> NULL]
      ELSE [heap |-> [h1 EXCEPT !.page[f0].num_pages = num],
            ptr  |-> f0 * SLAB_SIZE + LARGE_HDR]

\* kmalloc of size > 0.
Alloc(h, size) ==
  IF size > LargestClass THEN large_alloc(h, size)
                         ELSE cache_alloc(h, round_up_pow2(size))

\* kfree tells slab objects from large blocks by the obj_size field of the
\* page; large_free gives back the first page only.
LooksLikeSlab(h, ptr) ==
  h.page[FrameOf(ptr)].obj_size \in 2 ^ HEAP_MIN_ORDER .. LargestClass

Release(h, ptr) ==
  IF LooksLikeSlab(h, ptr)
  THEN cache_free(h, round_up_pow2(h.page[FrameOf(ptr)].obj_size), ptr)
  ELSE [h EXCEPT !.used = @ \ {FrameOf(ptr - LARGE_HDR)}]
-----------------------------------------------------------------------------
Born(r, size) ==
  IF r.ptr = NULL THEN {} ELSE {[ptr |-> r.ptr, size |-> size]}

kmalloc(size) ==
  LET r == Alloc(heap, size) IN
  /\ Cardinality(blocks) < MAX_BLOCKS
  /\ heap' = r.heap
  /\ blocks' = blocks \cup Born(r, size)
  /\ UNCHANGED clients

\* kzalloc clears the block it got, and with a large block the bytes where
\* kfree will look for obj_size.
kzalloc(size) ==
  LET r == Alloc(heap, size) IN
  /\ Cardinality(blocks) < MAX_BLOCKS
  /\ heap' = IF r.ptr # NULL /\ size > LargestClass
             THEN [r.heap EXCEPT !.page[FrameOf(r.ptr)].obj_size = 0]
             ELSE r.heap
  /\ blocks' = blocks \cup Born(r, size)
  /\ UNCHANGED clients

kfree(b) ==
  /\ heap' = Release(heap, b.ptr)
  /\ blocks' = blocks \ {b}
  /\ UNCHANGED clients

OldSize(ptr) ==
  LET pg == heap.page[FrameOf(ptr)]
  IN  IF LooksLikeSlab(heap, ptr) THEN pg.obj_size
                                  ELSE pg.num_pages * SLAB_SIZE - LARGE_HDR

\* Mutant: the old block is freed before the new one is known to exist.
krealloc_early(b, size) ==
  \/ /\ size <= OldSize(b.ptr)
     /\ blocks' = (blocks \ {b}) \cup {[ptr |-> b.ptr, size |-> size]}
     /\ UNCHANGED <<heap, clients>>
  \/ /\ size > OldSize(b.ptr)
     /\ LET r == Alloc(heap, size) IN
        /\ heap' = Release(r.heap, b.ptr)
        /\ blocks' = IF r.ptr = NULL THEN blocks
                     ELSE (blocks \ {b}) \cup Born(r, size)
     /\ UNCHANGED clients

\* krealloc of a live block to size > 0: the block itself when it is large
\* enough, else a new block and kfree of the old; on OOM the old one stays.
krealloc(b, size) ==
  \/ /\ size <= OldSize(b.ptr)
     /\ blocks' = (blocks \ {b}) \cup {[ptr |-> b.ptr, size |-> size]}
     /\ UNCHANGED <<heap, clients>>
  \/ /\ size > OldSize(b.ptr)
     /\ LET r == Alloc(heap, size) IN
        IF r.ptr = NULL
        THEN heap' = r.heap /\ UNCHANGED blocks
        ELSE /\ heap' = Release(r.heap, b.ptr)
             /\ blocks' = (blocks \ {b}) \cup Born(r, size)
     /\ UNCHANGED clients

\* Another client (page tables, user pages) takes a frame and overwrites it,
client_alloc ==
  /\ LowestFree(heap) # NULL
  /\ heap' = [heap EXCEPT !.used = @ \cup {LowestFree(heap)},
                          !.page[LowestFree(heap)] = Blank]
  /\ clients' = clients \cup {LowestFree(heap)}
  /\ UNCHANGED blocks

\* and gives it back.
client_free(f) ==
  /\ heap' = [heap EXCEPT !.used = @ \ {f}]
  /\ clients' = clients \ {f}
  /\ UNCHANGED blocks
-----------------------------------------------------------------------------
heap_init ==
  heap = [used    |-> {},
          page    |-> [f \in Frames |-> Blank],
          partial |-> [c \in Classes |-> <<>>],
          full    |-> [c \in Classes |-> <<>>]]

Init == heap_init /\ blocks = {} /\ clients = {}

Next ==
  \/ \E size \in Sizes : kmalloc(size) \/ kzalloc(size)
  \/ \E b \in blocks : kfree(b) \/ \E size \in Sizes : krealloc(b, size)
  \/ client_alloc
  \/ \E f \in clients : client_free(f)

Spec == Init /\ [][Next]_vars
-----------------------------------------------------------------------------
Bytes(b) == b.ptr .. b.ptr + b.size - 1
Slabs(c) == ToSet(heap.partial[c]) \cup ToSet(heap.full[c])
AllSlabs == UNION {Slabs(c) : c \in Classes}

\* heap.h:11, "Allocate at least `size` bytes of kernel memory": every byte of a
\* live block is in a frame the heap holds, outside the headers of slabs, outside
\* every other live block and outside the free objects.
Disjoint ==
  \A b \in blocks : \A x \in Bytes(b) :
    LET f == FrameOf(x) IN
    /\ f \in heap.used \ clients
    /\ f \in AllSlabs =>
         /\ x % SLAB_SIZE >= SLAB_HDR
         /\ \A o \in ToSet(heap.page[f].freelist) :
              x \notin o .. o + heap.page[f].obj_size - 1
    /\ \A d \in blocks \ {b} : x \notin Bytes(d)

\* The lists, the counts and the live blocks tell one story: each slab is on one
\* list of its class once, on the full list exactly when nothing is free, and its
\* free objects plus live blocks make up its total.
SlabsAddUp ==
  \A c \in Classes :
    LET ss == heap.partial[c] \o heap.full[c] IN
    /\ Cardinality(ToSet(ss)) = Len(ss)
    /\ \A s \in ToSet(ss) :
         LET pg == heap.page[s] IN
         /\ pg.obj_size = c
         /\ s \in ToSet(heap.full[c]) <=> pg.free_count = 0
         /\ pg.free_count = Len(pg.freelist)
         /\ pg.free_count + Cardinality({b \in blocks : FrameOf(b.ptr) = s}) = pg.total

\* After any sequence of calls that succeed or fail, live blocks are memory of
\* their own and the slabs add up.  Nothing is lost either: a frame is in use
\* exactly when another client has it or a live block is in it, so freeing every
\* block returns every frame (cache_alloc, cache_free, krealloc).
HeapIsSound ==
  /\ Disjoint
  /\ SlabsAddUp
  /\ heap.used = clients \cup {FrameOf(b.ptr) : b \in blocks}
=============================================================================
