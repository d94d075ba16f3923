-------------------------------- MODULE Pmm --------------------------------
(***************************************************************************)
(* The physical frame allocator (src/src/pmm/pmm.c): a bitmap over all     *)
(* frames and a counter of the free ones, filled from the boot loader's    *)
(* memory map.  Each call runs to completion.                              *)
(***************************************************************************)
EXTENDS Integers, FiniteSets

CONSTANTS
  PMM_MAX_FRAMES,   \* frames tracked (2^20 in pmm_internal.h)
  WORD,             \* 2^64: free_frames is a u64
  FRAME_SIZE,       \* bytes of a frame (4096)
  Regions,          \* available memory-map entries, <<base_addr, length>>
  KernelFrames,     \* frames of the kernel image, the bitmap among them
  MAX_REGIONS       \* bound: entries of the memory map

Frames == 0 .. PMM_MAX_FRAMES - 1

ASSUME PmmAssumption ==
  /\ PMM_MAX_FRAMES \in Nat \ {0}
  /\ WORD \in Nat /\ WORD > PMM_MAX_FRAMES
  /\ FRAME_SIZE \in Nat \ {0}
  /\ Regions \subseteq (Nat \X Nat)
  /\ KernelFrames \in SUBSET Frames
  /\ MAX_REGIONS \in Nat

VARIABLES
  phase,        \* "mmap" while pmm_init walks the map, then "ready"
  nregions,     \* entries walked
  used,         \* the frames whose bitmap bit is set
  free_frames,  \* pmm.free_frames
  owned         \* history: frames handed out and not yet given back

vars == <<phase, nregions, used, free_frames, owned>>

Free == Frames \ used
Sat(n) == IF n > 0 THEN n ELSE 0

\* From the frame the entry starts in to its last whole frame, capped at the
\* last tracked one.
RangeFrames(r) ==
  {f \in Frames : r[1] \div FRAME_SIZE <= f /\ f < (r[1] + r[2]) \div FRAME_SIZE}
-----------------------------------------------------------------------------
\* mark_range_free for one available entry of the memory map.  The entry at
\* address 0 is skipped by pmm_init.
mark_range_free(r) ==
  /\ phase = "mmap" /\ nregions < MAX_REGIONS
  /\ r[1] > 0
  /\ used' = used \ RangeFrames(r)
  /\ free_frames' = free_frames + Cardinality(RangeFrames(r) \cap used)
  /\ nregions' = nregions + 1
  /\ UNCHANGED <<phase, owned>>

\* Mutant: the kernel image is not taken out of the free frames.
pmm_init_end_nokernel ==
  /\ phase = "mmap"
  /\ used' = used \cup {0}
  /\ free_frames' = Sat(free_frames - 1)
  /\ phase' = "ready"
  /\ UNCHANGED <<nregions, owned>>

\* The end of pmm_init: frame 0 is marked used and counted as if it had been
\* free; the kernel image is marked used, counting only bits that change, and
\* never below zero.
pmm_init_end ==
  /\ phase = "mmap"
  /\ used' = used \cup {0} \cup KernelFrames
  /\ free_frames' = Sat(Sat(free_frames - 1)
                          - Cardinality(KernelFrames \ (used \cup {0})))
  /\ phase' = "ready"
  /\ UNCHANGED <<nregions, owned>>

\* The scan finds the lowest clear bit.
FirstFree(f) == f \in Free /\ \A g \in Free : f <= g

\* pmm_alloc_frame returning f.
pmm_alloc_frame(f) ==
  /\ phase = "ready"
  /\ FirstFree(f)
  /\ used' = used \cup {f}
  /\ free_frames' = (free_frames - 1) % WORD
  /\ owned' = owned \cup {f}
  /\ UNCHANGED <<phase, nregions>>

\* With no clear bit it returns 0 and changes nothing.
pmm_alloc_frame_oom ==
  /\ phase = "ready"
  /\ Free = {}
  /\ UNCHANGED vars

\* Mutant: no double-free guard.
pmm_free_frame_unguarded(f) ==
  /\ phase = "ready"
  /\ used' = used \ {f}
  /\ free_frames' = (free_frames + 1) % WORD
  /\ owned' = owned \ {f}
  /\ UNCHANGED <<phase, nregions>>

\* pmm_free_frame; freeing a free frame is caught by the guard.
pmm_free_frame(f) ==
  /\ phase = "ready"
  /\ f \in used
  /\ used' = used \ {f}
  /\ free_frames' = (free_frames + 1) % WORD
  /\ owned' = owned \ {f}
  /\ UNCHANGED <<phase, nregions>>
-----------------------------------------------------------------------------
Init ==
  /\ phase = "mmap"
  /\ nregions = 0
  /\ used = Frames
  /\ free_frames = 0
  /\ owned = {}

\* A client gives back a frame it holds, or, by mistake, a free one.
ClientFrees(f) == f \in owned \cup Free

Next ==
  \/ \E r \in Regions : mark_range_free(r)
  \/ pmm_init_end
  \/ \E f \in Frames : pmm_alloc_frame(f)
  \/ pmm_alloc_frame_oom
  \/ \E f \in Frames : ClientFrees(f) /\ pmm_free_frame(f)

Spec == Init /\ [][Next]_vars
-----------------------------------------------------------------------------
TypeOK ==
  /\ phase \in {"mmap", "ready"}
  /\ nregions \in Nat
  /\ used \in SUBSET Frames
  /\ free_frames \in 0 .. WORD - 1
  /\ owned \in SUBSET Frames

(***************************************************************************)
(* Memory handed out is memory nobody else has: frame 0 (whose address     *)
(* means "out of memory"), the kernel image and free frames are never      *)
(* among the frames clients hold.                                          *)
(***************************************************************************)
OwnedIsReserved ==
  phase = "ready" => /\ owned \subseteq used
                     /\ 0 \notin owned
                     /\ owned \cap KernelFrames = {}

(***************************************************************************)
(* No frame is handed out twice: an allocation only ever adds a frame no   *)
(* client holds.                                                           *)
(***************************************************************************)
NoDoubleHandout ==
  [][\A f \in Frames : pmm_alloc_frame(f) => f \notin owned]_vars

(***************************************************************************)
(* The counter follows the bitmap for ever: it is exact, or one too low    *)
(* (modulo 2^64) because pmm_init counts frame 0 as lost although the      *)
(* memory map never freed it.  No sequence of calls makes it drift.        *)
(***************************************************************************)
CounterTracksBitmap ==
  \/ free_frames = Cardinality(Free)
  \/ free_frames = (Cardinality(Free) - 1) % WORD
=============================================================================
