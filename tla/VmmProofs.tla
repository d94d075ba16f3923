----------------------------- MODULE VmmProofs -----------------------------
(***************************************************************************)
(* Copy-on-write is safe, and implements private memory, for any number of *)
(* processes, pages and frames.                                            *)
(***************************************************************************)
EXTENDS VmmRefines, TLAPS

\* Every frame a live process maps has been handed out, so that a fresh frame
\* is mapped by nobody.
MappedIsUsed ==
  \A p \in Procs : \A v \in Pages :
    p \in live /\ pte[p][v] # None => pte[p][v].frame \in used

\* Processes share a frame only at the page where fork left it to them, so that a
\* store of the kernel to a buffer is seen at that buffer only.
AtOnePage(p, q, v, w) ==
  pte[p][v] # None /\ pte[q][w] # None /\ pte[p][v].frame = pte[q][w].frame => v = w

SharedAtOnePage == \A p, q \in live : \A v, w \in Pages : AtOnePage(p, q, v, w)

\* The inductive invariant.
IInv == /\ TypeOK /\ current \in live
        /\ MappedIsUsed /\ SharedAtOnePage /\ WritableIsExclusive /\ TlbCoherent

USE VmmAssumption

\* What Writable and Cow build are entries (vmm_map_user_page, cow_clone_pt).
LEMMA WritableEntry ==
  ASSUME NEW f \in Frames
  PROVE  /\ Writable(f) \in PTEs /\ Writable(f) # None
         /\ Writable(f).frame = f /\ Writable(f).write
<1>1. Writable(f) \in PTEs
  BY DEF Writable, PTEs
<1>2. Writable(f).frame = f /\ Writable(f).write
  BY DEF Writable
<1> QED BY <1>1, <1>2

\* A cloned entry names the same frame and is not writable.
LEMMA CowEntry ==
  ASSUME NEW e \in PTEs \cup {None}
  PROVE  /\ Cow(e) \in PTEs \cup {None}
         /\ Cow(e) = None <=> e = None
         /\ e # None => Cow(e).frame = e.frame /\ ~Cow(e).write
<1>1. CASE e = None
  BY <1>1 DEF Cow
<1>2. CASE e # None /\ ~e.write
  BY <1>2 DEF Cow
<1>3. CASE e # None /\ e.write
  <2>1. Cow(e) = [e EXCEPT !.write = FALSE, !.cow = TRUE]
    BY <1>3 DEF Cow
  <2>2. e \in PTEs
    BY <1>3
  <2>3. Cow(e) = [frame |-> e.frame, write |-> FALSE, cow |-> TRUE] /\ e.frame \in Frames
    BY Zenon, <2>1, <2>2 DEF PTEs
  <2>4. Cow(e) \in PTEs
    BY <2>3 DEF PTEs
  <2>5. Cow(e).frame = e.frame
    BY <2>3
  <2>6. ~Cow(e).write
    BY <2>3
  <2>7. Cow(e) # None
    BY <2>4
  <2> QED BY <1>3, <2>4, <2>5, <2>6, <2>7
<1> QED BY <1>1, <1>2, <1>3

\* The first process has an image of its own (init_launch).
THEOREM InitEstablishes == Init => IInv
<1> SUFFICES ASSUME Init PROVE IInv
  OBVIOUS
<1> DEFINE L == Image \cup Stack
<1>1. PICK m \in [L -> Frames] :
        /\ InOrder(L, m, Frames)
        /\ used = ImageOf(L, m)
        /\ pte = [p \in Procs |-> [v \in Pages |->
                    IF p = First /\ v \in L THEN Writable(m[v]) ELSE None]]
  BY DEF Init
<1>2. \A v, w \in L : m[v] = m[w] => v = w
  <2> SUFFICES ASSUME NEW v \in L, NEW w \in L, m[v] = m[w] PROVE v = w
    OBVIOUS
  <2>1. m[v] \in Nat /\ m[w] \in Nat /\ v \in Nat /\ w \in Nat
    BY Zenon
  <2>2. (v < w => m[v] < m[w]) /\ (w < v => m[w] < m[v])
    BY <1>1 DEF InOrder
  <2> QED BY <2>1, <2>2
<1>3. TypeOK
  <2>1. ASSUME NEW p \in Procs, NEW v \in Pages
        PROVE pte[p][v] \in PTEs \cup {None}
    BY Zenon, <1>1, WritableEntry
  <2>2. pte \in [Procs -> [Pages -> PTEs \cup {None}]]
    BY <1>1, <2>1
  <2>3. used \in SUBSET Frames
    BY <1>1 DEF ImageOf
  <2> QED BY Zenon, <2>2, <2>3 DEF Init, TypeOK, Flushed
<1>4. MappedIsUsed
  BY <1>1 DEF Init, MappedIsUsed, Writable, ImageOf
<1>5. WritableIsExclusive
  BY <1>1, <1>2 DEF Init, WritableIsExclusive, Maps, Writable, Flushed
<1>6. TlbCoherent
  BY DEF Init, TlbCoherent, Flushed
<1>7. SharedAtOnePage
  BY <1>1, <1>2 DEF Init, SharedAtOnePage, AtOnePage, Writable
<1> QED BY <1>3, <1>4, <1>5, <1>6, <1>7 DEF IInv, Init

\* A store, a load, a switch and a halt leave the page tables alone; the TLB
\* keeps entries, gains the current one, or is emptied.
LEMMA TlbStep ==
  ASSUME IInv,
         UNCHANGED <<live, current, pte, used, mmap_next, destroyed>>,
         content' \in [Frames -> Values], halted' \in BOOLEAN,
         NEW v \in Pages, Effective(v) # None,
         tlb' = [tlb EXCEPT ![v] = Effective(v)] \/ tlb' = tlb
  PROVE  IInv'
<1>1. Effective(v) \in PTEs
  BY DEF Effective, IInv, TypeOK
<1>2. TypeOK'
  BY <1>1 DEF IInv, TypeOK
<1>3. ASSUME NEW w \in Pages
      PROVE tlb'[w] = tlb[w] \/ (w = v /\ tlb[w] = None /\ tlb'[w] = pte[current][w])
  BY DEF Effective, IInv, TypeOK
<1>4. TlbCoherent'
  BY <1>3 DEF IInv, TlbCoherent
<1>5. MappedIsUsed' /\ SharedAtOnePage'
  <2>1. live' = live /\ pte' = pte /\ used' = used
    OBVIOUS
  <2>2. MappedIsUsed'
    BY <2>1 DEF IInv, MappedIsUsed
  <2>3. ASSUME NEW p, NEW q, NEW u, NEW w, AtOnePage(p, q, u, w)
        PROVE  AtOnePage(p, q, u, w)'
    BY <2>1, <2>3 DEF AtOnePage
  <2>4. SharedAtOnePage'
    BY <2>1, <2>3 DEF IInv, SharedAtOnePage
  <2> QED BY <2>2, <2>4
<1>6. WritableIsExclusive'
  <2> SUFFICES ASSUME NEW p \in Procs, NEW q \in Procs, NEW u \in Pages, NEW w \in Pages
               PROVE  /\ p \in live /\ pte[p][u] # None /\ pte[p][u].write
                         /\ Maps(q, w, pte[p][u].frame) => p = q /\ u = w
                      /\ tlb'[u] # None /\ tlb'[u].write
                         /\ Maps(q, w, tlb'[u].frame) => q = current /\ u = w
    BY DEF WritableIsExclusive, Maps
  <2>1. CASE tlb'[u] = tlb[u]
    BY <2>1 DEF IInv, WritableIsExclusive
  <2>2. CASE tlb'[u] = pte[current][u]
    <3>1. current \in Procs /\ current \in live
      BY DEF IInv, TypeOK
    <3>2. pte[current][u] # None /\ pte[current][u].write
            /\ Maps(q, w, pte[current][u].frame) => current = q /\ u = w
      BY <3>1 DEF IInv, WritableIsExclusive
    <3>3. p \in live /\ pte[p][u] # None /\ pte[p][u].write
            /\ Maps(q, w, pte[p][u].frame) => p = q /\ u = w
      BY Zenon DEF IInv, WritableIsExclusive
    <3> QED BY <2>2, <3>2, <3>3
  <2> QED BY Zenon, <1>3, <2>1, <2>2
<1> QED BY <1>2, <1>4, <1>5, <1>6 DEF IInv

\* The steps that leave the tables and the TLB alone.
LEMMA SameTables ==
  ASSUME IInv, UNCHANGED <<live, current, pte, tlb>>, used \subseteq used'
  PROVE  MappedIsUsed' /\ SharedAtOnePage' /\ WritableIsExclusive' /\ TlbCoherent'
<1>1. MappedIsUsed'
  BY Zenon DEF IInv, MappedIsUsed
<1>2. TlbCoherent'
  BY Zenon DEF IInv, TlbCoherent
<1>3. ASSUME NEW p, NEW q, NEW u, NEW w
      PROVE  AtOnePage(p, q, u, w)' <=> AtOnePage(p, q, u, w)
  BY DEF AtOnePage
<1>4. SharedAtOnePage'
  BY <1>3 DEF IInv, SharedAtOnePage
<1>5. ASSUME NEW p, NEW v, NEW f
      PROVE  Maps(p, v, f)' <=> Maps(p, v, f)
  BY DEF Maps
<1>6. WritableIsExclusive'
  BY <1>5 DEF IInv, WritableIsExclusive
<1> QED BY <1>1, <1>2, <1>4, <1>6

\* context_switch and process_exit empty the TLB and map nothing new.
LEMMA SwitchStep ==
  ASSUME IInv, tlb' = Flushed, current' \in live', live' \subseteq live,
         UNCHANGED <<pte, content, used, mmap_next, destroyed, halted>>
  PROVE  IInv'
<1>1. TypeOK'
  BY DEF IInv, TypeOK, Flushed
<1>2. WritableIsExclusive'
  BY DEF IInv, WritableIsExclusive, Maps, Flushed
<1>3. MappedIsUsed' /\ TlbCoherent'
  BY DEF IInv, MappedIsUsed, TlbCoherent, Flushed
<1>4. SharedAtOnePage'
  <2>1. live' \subseteq live /\ pte' = pte
    OBVIOUS
  <2>2. ASSUME NEW p \in live', NEW q \in live', NEW u \in Pages, NEW w \in Pages
        PROVE  AtOnePage(p, q, u, w)'
    <3>1. AtOnePage(p, q, u, w)
      BY <2>1, <2>2 DEF IInv, SharedAtOnePage
    <3> QED BY <2>1, <3>1 DEF AtOnePage
  <2> QED BY <2>2 DEF SharedAtOnePage
<1> QED BY <1>1, <1>2, <1>3, <1>4 DEF IInv

\* What the write fault, mmap and execve do to the current process: pages S
\* get the fresh frames m, the other pages stay, or go.  No stale entry
\* survives in the TLB, and frames in use keep their content.
Remapped(S, m) ==
  /\ S \subseteq Pages
  /\ \A v \in S : m[v] \in Frames \ used /\ m[v] \in used'
  /\ \A v, w \in S : m[v] = m[w] => v = w
  /\ used \subseteq used'
  /\ \A f \in used : content'[f] = content[f]
  /\ \A q \in Procs \ {current} : pte'[q] = pte[q]
  /\ \A v \in S : pte'[current][v] = Writable(m[v]) /\ tlb'[v] = None
  /\ \A v \in Pages \ S : \/ pte'[current][v] = pte[current][v] /\ tlb'[v] = tlb[v]
                          \/ pte'[current][v] = None /\ tlb'[v] = None

LEMMA RemapStep ==
  ASSUME IInv, TypeOK', UNCHANGED <<live, current>>, NEW S, NEW m, Remapped(S, m)
  PROVE  IInv'
<1>1. current \in Procs /\ current \in live /\ used \in SUBSET Frames
  BY DEF IInv, TypeOK
<1>2. ASSUME NEW q \in Procs, NEW w \in Pages, q \in live, pte'[q][w] # None
      PROVE  \/ /\ q = current /\ w \in S /\ pte'[q][w] = Writable(m[w])
                /\ pte'[q][w].frame = m[w]
             \/ /\ ~(q = current /\ w \in S) /\ pte'[q][w] = pte[q][w]
                /\ pte'[q][w].frame \in used
  <2>1. CASE q = current /\ w \in S
    BY Zenon, <1>1, <2>1, WritableEntry DEF Remapped
  <2>2. CASE ~(q = current /\ w \in S)
    <3>1. pte'[q][w] = pte[q][w]
      BY <1>1, <1>2, <2>2 DEF Remapped
    <3> QED BY Zenon, <1>2, <2>2, <3>1 DEF IInv, MappedIsUsed
  <2> QED BY <2>1, <2>2
<1>3. MappedIsUsed'
  <2> SUFFICES ASSUME NEW q \in live, NEW w \in Pages, pte'[q][w] # None
               PROVE  pte'[q][w].frame \in used'
    BY Zenon DEF MappedIsUsed
  <2>1. q \in Procs
    BY DEF IInv, TypeOK
  <2> QED BY <1>2, <2>1 DEF Remapped
<1>4. TlbCoherent'
  <2> SUFFICES ASSUME NEW v \in Pages, tlb'[v] # None
               PROVE  pte'[current][v] # None /\ pte'[current][v].frame = tlb'[v].frame
    BY DEF TlbCoherent
  <2>1. v \notin S /\ pte'[current][v] = pte[current][v] /\ tlb'[v] = tlb[v]
    BY Zenon DEF Remapped
  <2> QED BY Zenon, <2>1 DEF IInv, TlbCoherent
<1>5. ASSUME NEW p \in Procs, NEW q \in Procs, NEW v \in Pages, NEW w \in Pages,
             p \in live, pte'[p][v] # None, pte'[p][v].write,
             q \in live, pte'[q][w] # None, pte'[q][w].frame = pte'[p][v].frame
      PROVE  p = q /\ v = w
  <2>1. CASE p = current /\ v \in S
    <3>1. pte'[p][v].frame = m[v] /\ m[v] \notin used
      BY <1>2, <1>5, <2>1 DEF Remapped
    <3>2. q = current /\ w \in S /\ pte'[q][w].frame = m[w]
      BY <1>2, <1>5, <3>1
    <3> QED BY <1>5, <2>1, <3>1, <3>2 DEF Remapped
  <2>2. CASE ~(p = current /\ v \in S)
    <3>1. pte'[p][v] = pte[p][v] /\ pte'[p][v].frame \in used
      BY Zenon, <1>2, <1>5, <2>2
    <3>2. ~(q = current /\ w \in S)
      <4>1. CASE q = current /\ w \in S
        <5>1. pte'[q][w].frame \notin used
          BY <1>2, <1>5, <4>1 DEF Remapped
        <5> QED BY <1>5, <3>1, <5>1
      <4> QED BY <4>1
    <3>3. pte'[q][w] = pte[q][w]
      BY <1>2, <1>5, <3>2
    <3>4. pte[p][v] # None /\ pte[p][v].write /\ Maps(q, w, pte[p][v].frame)
      BY <1>5, <3>1, <3>3 DEF Maps
    <3> QED BY <1>5, <3>4 DEF IInv, WritableIsExclusive
  <2> QED BY <2>1, <2>2
<1>6. ASSUME NEW q \in Procs, NEW v \in Pages, NEW w \in Pages,
             tlb'[v] # None, tlb'[v].write,
             q \in live, pte'[q][w] # None, pte'[q][w].frame = tlb'[v].frame
      PROVE  q = current /\ v = w
  <2>1. v \notin S /\ tlb'[v] = tlb[v] /\ pte'[current][v] = pte[current][v]
    BY <1>6 DEF Remapped
  <2>2. pte[current][v] # None /\ pte[current][v].frame = tlb[v].frame /\ tlb[v].frame \in used
    BY <1>1, <1>6, <2>1 DEF IInv, TlbCoherent, MappedIsUsed
  <2>3. pte'[q][w] = pte[q][w]
    <3>1. pte'[q][w].frame \in used
      BY <1>6, <2>1, <2>2
    <3>2. w \in S => m[w] \notin used
      BY DEF Remapped
    <3> QED BY <1>2, <1>6, <3>1, <3>2
  <2>4. tlb[v] # None /\ tlb[v].write /\ Maps(q, w, tlb[v].frame)
    BY <1>6, <2>1, <2>3 DEF Maps
  <2>5. tlb[v] # None /\ tlb[v].write /\ Maps(q, w, tlb[v].frame) => q = current /\ v = w
    BY <1>6 DEF IInv, WritableIsExclusive
  <2> QED BY <2>4, <2>5
<1>7. WritableIsExclusive'
  BY <1>5, <1>6 DEF WritableIsExclusive, Maps
<1>8. SharedAtOnePage'
  <2> SUFFICES ASSUME NEW p \in live', NEW q \in live', NEW v \in Pages, NEW w \in Pages
               PROVE  AtOnePage(p, q, v, w)'
    BY DEF SharedAtOnePage
  <2> SUFFICES ASSUME pte'[p][v] # None, pte'[q][w] # None,
                      pte'[p][v].frame = pte'[q][w].frame
               PROVE  v = w
    BY DEF AtOnePage
  <2>1. p \in live /\ q \in live /\ p \in Procs /\ q \in Procs
    BY DEF IInv, TypeOK
  <2>2. CASE pte'[p][v] = pte[p][v] /\ pte'[q][w] = pte[q][w]
    <3>1. AtOnePage(p, q, v, w)
      BY Zenon, <2>1 DEF IInv, SharedAtOnePage
    <3> QED BY <2>2, <3>1 DEF AtOnePage
  <2>3. CASE v \in S /\ w \in S /\ pte'[p][v].frame = m[v] /\ pte'[q][w].frame = m[w]
    <3>1. \A x, y \in S : m[x] = m[y] => x = y
      BY DEF Remapped
    <3>2. m[v] = m[w]
      BY Zenon, <2>3
    <3> QED BY <2>3, <3>1, <3>2
  <2>4. ASSUME NEW x \in S PROVE m[x] \notin used
    BY <2>4 DEF Remapped
  <2>5. \/ v \in S /\ pte'[p][v].frame = m[v]
        \/ pte'[p][v] = pte[p][v] /\ pte'[p][v].frame \in used
    BY <1>2, <2>1
  <2>6. \/ w \in S /\ pte'[q][w].frame = m[w]
        \/ pte'[q][w] = pte[q][w] /\ pte'[q][w].frame \in used
    BY <1>2, <2>1
  <2> QED BY <2>2, <2>3, <2>4, <2>5, <2>6
<1> QED BY <1>1, <1>3, <1>4, <1>7, <1>8 DEF IInv

\* fork, complete or not: every process keeps its frames, entries only lose
\* the write bit, and a child maps what its parent maps once the parent's
\* entries are read-only and its TLB empty.
LEMMA ForkStep ==
  ASSUME IInv, NEW c \in Procs, process_fork(c)
  PROVE  IInv'
<1>1. /\ current \in Procs /\ current \in live /\ c \notin live /\ c # current
      /\ current' = current /\ used' = used /\ live' = live \cup {c} /\ tlb' = Flushed
  BY DEF IInv, TypeOK, process_fork
<1>2. ASSUME NEW v \in Pages
      PROVE  /\ pte'[current][v] = Cow(pte[current][v])
             /\ pte'[c][v] = Cow(pte[current][v])
             /\ pte[current][v] \in PTEs \cup {None}
  BY <1>1 DEF IInv, TypeOK, process_fork, Cloned
<1>3. \A q \in Procs \ {c, current} : pte'[q] = pte[q]
  BY DEF IInv, TypeOK, process_fork
<1>4. TypeOK'
  <2>1. Cloned \in [Pages -> PTEs \cup {None}]
    BY <1>2, CowEntry DEF Cloned
  <2>2. pte' \in [Procs -> [Pages -> PTEs \cup {None}]]
    BY <2>1 DEF IInv, TypeOK, process_fork
  <2> QED BY <2>2, <1>1 DEF IInv, TypeOK, process_fork, Flushed
<1>5. ASSUME NEW q \in Procs, NEW w \in Pages, q \in live', pte'[q][w] # None
      PROVE  \/ /\ q \in {c, current} /\ ~pte'[q][w].write
                /\ pte[current][w] # None /\ pte'[q][w].frame = pte[current][w].frame
             \/ q \in live /\ q \notin {c, current} /\ pte'[q][w] = pte[q][w]
  <2>1. CASE q \in {c, current}
    BY <1>1, <1>2, <1>5, <2>1, CowEntry
  <2>2. CASE q \notin {c, current}
    BY <1>1, <1>3, <1>5, <2>2
  <2> QED BY <2>1, <2>2
<1>6. MappedIsUsed'
  BY <1>1, <1>5 DEF IInv, MappedIsUsed
<1>7. TlbCoherent'
  BY <1>1 DEF TlbCoherent, Flushed
<1>8. WritableIsExclusive'
  <2>1. ASSUME NEW p \in Procs, NEW q \in Procs, NEW v \in Pages, NEW w \in Pages,
               p \in live', pte'[p][v] # None, pte'[p][v].write,
               q \in live', pte'[q][w] # None, pte'[q][w].frame = pte'[p][v].frame
        PROVE  p = q /\ v = w
    <3>1. p \in live /\ p \notin {c, current} /\ pte'[p][v] = pte[p][v]
      BY <1>5, <2>1
    <3>2. CASE q \in {c, current}
      <4>1. pte[current][w] # None /\ Maps(current, w, pte[p][v].frame)
        BY <1>1, <1>5, <2>1, <3>1, <3>2 DEF Maps
      <4>2. p = current
        BY <1>1, <2>1, <3>1, <4>1 DEF IInv, WritableIsExclusive
      <4> QED BY <3>1, <4>2
    <3>3. CASE q \notin {c, current}
      <4>1. Maps(q, w, pte[p][v].frame)
        BY <1>5, <2>1, <3>1, <3>3 DEF Maps
      <4> QED BY <2>1, <3>1, <4>1 DEF IInv, WritableIsExclusive
    <3> QED BY <3>2, <3>3
  <2> QED BY <1>1, <2>1 DEF WritableIsExclusive, Maps, Flushed
<1>9. SharedAtOnePage'
  <2> SUFFICES ASSUME NEW p \in live', NEW q \in live', NEW v \in Pages, NEW w \in Pages
               PROVE  AtOnePage(p, q, v, w)'
    BY DEF SharedAtOnePage
  <2> SUFFICES ASSUME pte'[p][v] # None, pte'[q][w] # None,
                      pte'[p][v].frame = pte'[q][w].frame
               PROVE  v = w
    BY DEF AtOnePage
  <2> DEFINE from(r) == IF r \in {c, current} THEN current ELSE r
  <2>1. ASSUME NEW r \in live', NEW u \in Pages, pte'[r][u] # None
        PROVE  /\ from(r) \in live
               /\ pte[from(r)][u] # None /\ pte'[r][u].frame = pte[from(r)][u].frame
    <3>1. r \in Procs
      BY <1>4 DEF TypeOK
    <3> QED BY <1>1, <1>5, <2>1, <3>1
  <2> HIDE DEF from
  <2>2. pte[from(p)][v].frame = pte[from(q)][w].frame
    BY <2>1
  <2>3. AtOnePage(from(p), from(q), v, w)
    BY <2>1 DEF IInv, SharedAtOnePage
  <2> QED BY Zenon, <2>1, <2>2, <2>3 DEF AtOnePage
<1> QED BY <1>1, <1>4, <1>6, <1>7, <1>8, <1>9 DEF IInv

\* A fork that ran out of memory has only made entries of the parent
\* read-only; what its TLB still lets it store to is still its own.
LEMMA ForkOomStep ==
  ASSUME IInv, NEW t, process_fork_oom(t)
  PROVE  IInv'
<1>1. /\ current \in Procs /\ current \in live
      /\ UNCHANGED <<live, current, used, tlb>>
  BY DEF IInv, TypeOK, process_fork_oom
<1>2. ASSUME NEW v \in Pages
      PROVE  /\ pte'[current][v] \in {pte[current][v], Cow(pte[current][v])}
             /\ pte[current][v] \in PTEs \cup {None}
  BY <1>1 DEF IInv, TypeOK, process_fork_oom, ClonedBefore
<1>3. \A q \in Procs \ {current} : pte'[q] = pte[q]
  BY DEF IInv, TypeOK, process_fork_oom
<1>4. TypeOK'
  <2>1. ClonedBefore(t) \in [Pages -> PTEs \cup {None}]
    BY <1>2, CowEntry DEF ClonedBefore
  <2>2. pte' \in [Procs -> [Pages -> PTEs \cup {None}]]
    BY <2>1 DEF IInv, TypeOK, process_fork_oom
  <2> QED BY <2>2 DEF IInv, TypeOK, process_fork_oom
<1>5. ASSUME NEW q \in Procs, NEW w \in Pages
      PROVE  /\ pte'[q][w] = None <=> pte[q][w] = None
             /\ pte[q][w] # None => /\ pte'[q][w].frame = pte[q][w].frame
                                    /\ pte'[q][w].write => pte[q][w].write
  <2>1. CASE q = current /\ pte'[q][w] = Cow(pte[current][w])
    BY Zenon, <1>2, <2>1, CowEntry
  <2>2. CASE pte'[q][w] = pte[q][w]
    BY <2>2
  <2> QED BY <1>2, <1>3, <2>1, <2>2
<1>6. MappedIsUsed'
  BY <1>1, <1>5 DEF IInv, MappedIsUsed
<1>7. TlbCoherent'
  BY <1>1, <1>5 DEF IInv, TlbCoherent
<1>8. WritableIsExclusive'
  <2>1. ASSUME NEW p \in Procs, NEW q \in Procs, NEW v \in Pages, NEW w \in Pages,
               p \in live, pte'[p][v] # None, pte'[p][v].write,
               q \in live, pte'[q][w] # None, pte'[q][w].frame = pte'[p][v].frame
        PROVE  p = q /\ v = w
    <3>1. /\ pte[p][v] # None /\ pte[p][v].write
          /\ pte'[p][v].frame = pte[p][v].frame
      BY <1>5, <2>1
    <3>2. pte[q][w] # None /\ pte'[q][w].frame = pte[q][w].frame
      BY <1>5, <2>1
    <3>3. Maps(q, w, pte[p][v].frame)
      BY <2>1, <3>1, <3>2 DEF Maps
    <3>4. p \in live /\ pte[p][v] # None /\ pte[p][v].write
             /\ Maps(q, w, pte[p][v].frame) => p = q /\ v = w
      BY <2>1 DEF IInv, WritableIsExclusive
    <3> QED BY <2>1, <3>1, <3>3, <3>4
  <2>2. ASSUME NEW q \in Procs, NEW v \in Pages, NEW w \in Pages,
               tlb[v] # None, tlb[v].write,
               q \in live, pte'[q][w] # None, pte'[q][w].frame = tlb[v].frame
        PROVE  q = current /\ v = w
    <3>1. Maps(q, w, tlb[v].frame)
      BY <1>5, <2>2 DEF Maps
    <3> QED BY Zenon, <1>1, <2>2, <3>1 DEF IInv, WritableIsExclusive
  <2> QED BY <1>1, <2>1, <2>2 DEF WritableIsExclusive, Maps
<1>9. SharedAtOnePage'
  <2>1. ASSUME NEW p \in live, NEW q \in live, NEW v \in Pages, NEW w \in Pages
        PROVE  AtOnePage(p, q, v, w)'
    <3>1. AtOnePage(p, q, v, w)
      BY DEF IInv, SharedAtOnePage
    <3>2. p \in Procs /\ q \in Procs
      BY DEF IInv, TypeOK
    <3>3. /\ pte'[p][v] = None <=> pte[p][v] = None
          /\ pte[p][v] # None => pte'[p][v].frame = pte[p][v].frame
      BY <1>5, <3>2
    <3>4. /\ pte'[q][w] = None <=> pte[q][w] = None
          /\ pte[q][w] # None => pte'[q][w].frame = pte[q][w].frame
      BY <1>5, <3>2
    <3> QED BY <3>1, <3>3, <3>4 DEF AtOnePage
  <2> QED BY <1>1, <2>1 DEF SharedAtOnePage
<1> QED BY <1>1, <1>4, <1>6, <1>7, <1>8, <1>9 DEF IInv

\* Frames handed out in order are all different.
LEMMA InOrderInjective ==
  ASSUME NEW S \in SUBSET Nat, NEW free \in SUBSET Nat, NEW m \in [S -> free],
         InOrder(S, m, free)
  PROVE  \A v, w \in S : m[v] = m[w] => v = w
<1> SUFFICES ASSUME NEW v \in S, NEW w \in S, m[v] = m[w] PROVE v = w
  OBVIOUS
<1>1. m[v] \in Nat /\ m[w] \in Nat /\ v \in Nat /\ w \in Nat
  BY Zenon
<1>2. (v < w => m[v] < m[w]) /\ (w < v => m[w] < m[v])
  BY DEF InOrder
<1> QED BY <1>1, <1>2

\* The write fault maps a copy in a frame nobody has.
LEMMA CowHandleRemaps ==
  ASSUME IInv, NEW v \in Pages, cow_handle(v)
  PROVE  /\ TypeOK' /\ UNCHANGED <<live, current, destroyed>>
         /\ \E m : /\ Remapped({v}, m)
                   /\ pte[current][v] # None
                   /\ content'[m[v]] = content[pte[current][v].frame]
<1>1. PICK f \in Frames :
        /\ LowestFree(f)
        /\ used' = used \cup {f}
        /\ content' = [content EXCEPT ![f] = content[pte[current][v].frame]]
        /\ pte' = [pte EXCEPT ![current][v] = [frame |-> f, write |-> TRUE, cow |-> FALSE]]
  BY Zenon DEF cow_handle
<1>2. f \notin used /\ current \in Procs
  BY <1>1 DEF LowestFree, IInv, TypeOK
<1>3. pte' = [pte EXCEPT ![current][v] = Writable(f)]
  BY <1>1 DEF Writable
<1>4. pte[current][v] \in PTEs
  <2>1. pte[current][v] \in PTEs \cup {None} /\ tlb[v] \in PTEs \cup {None}
    BY <1>2 DEF IInv, TypeOK
  <2>2. pte[current][v] # None
    BY <2>1 DEF cow_handle, Effective, IInv, TlbCoherent
  <2> QED BY <2>1, <2>2
<1>5. TypeOK'
  <2>1. content' \in [Frames -> Values]
    BY Zenon, <1>1, <1>4 DEF IInv, TypeOK, PTEs
  <2>2. pte' \in [Procs -> [Pages -> PTEs \cup {None}]]
    BY <1>3, WritableEntry DEF IInv, TypeOK
  <2> QED BY Zenon, <1>1, <2>1, <2>2 DEF IInv, TypeOK, cow_handle
<1> DEFINE m == [w \in {v} |-> f]
<1>6. /\ \A w \in {v} : m[w] \in Frames \ used /\ m[w] \in used'
      /\ \A w \in {v} : pte'[current][w] = Writable(m[w]) /\ tlb'[w] = None
  <2>1. pte'[current][v] = Writable(f)
    BY <1>2, <1>3 DEF IInv, TypeOK
  <2>2. tlb'[v] = None
    BY Zenon DEF cow_handle, IInv, TypeOK
  <2>3. f \in Frames \ used /\ f \in used' /\ m[v] = f
    BY <1>1, <1>2
  <2> QED BY <2>1, <2>2, <2>3
<1>7. /\ \A q \in Procs \ {current} : pte'[q] = pte[q]
      /\ \A w \in Pages \ {v} : pte'[current][w] = pte[current][w] /\ tlb'[w] = tlb[w]
  BY <1>2, <1>3 DEF cow_handle, IInv, TypeOK
<1>8. used \subseteq used' /\ UNCHANGED <<live, current, destroyed>>
  BY <1>1 DEF cow_handle
<1>9. /\ \A g \in used : content'[g] = content[g]
      /\ content'[m[v]] = content[pte[current][v].frame]
  BY <1>1, <1>2 DEF IInv, TypeOK
<1> HIDE DEF m
<1>10. Remapped({v}, m)
  BY <1>6, <1>7, <1>8, <1>9 DEF Remapped
<1> QED BY <1>4, <1>5, <1>8, <1>9, <1>10

\* mmap maps cleared frames, as many as it gets.
LEMMA MmapRemaps ==
  ASSUME IInv, NEW n \in Nat \ {0}, NEW k \in 0 .. n, sys_mmap(n, k)
  PROVE  /\ TypeOK' /\ UNCHANGED <<live, current, destroyed>>
         /\ \E T \in SUBSET Pages : \E m :
              /\ Remapped(T, m)
              /\ \A v \in T : content'[m[v]] = Zero
              /\ \A v \in Pages \ T : pte'[current][v] = pte[current][v]
<1> DEFINE S == MmapStart .. MmapStart + k - 1
           T == S \cap Pages
<1>0. /\ current \in Procs /\ MmapStart \in MMAP_BASE .. MMAP_LIMIT
      /\ MmapStart + n <= MMAP_LIMIT
  <2>1. current \in Procs /\ mmap_next[current] \in {0} \cup (MMAP_BASE .. MMAP_LIMIT)
    BY DEF IInv, TypeOK
  <2>2. MmapStart + n <= MMAP_LIMIT
    BY DEF sys_mmap
  <2>3. CASE mmap_next[current] = 0
    <3>1. MmapStart = MMAP_BASE
      BY <2>3 DEF MmapStart
    <3> QED BY <2>1, <2>2, <3>1
  <2>4. CASE mmap_next[current] # 0
    <3>1. MmapStart = mmap_next[current]
      BY <2>4 DEF MmapStart
    <3> QED BY <2>1, <2>2, <2>4, <3>1
  <2> QED BY <2>3, <2>4
<1>1. PICK m \in [S -> Frames \ used] :
        /\ InOrder(S, m, Frames \ used)
        /\ used' = used \cup ImageOf(S, m)
        /\ content' = Cleared(m, S)
        /\ pte' = [pte EXCEPT ![current] =
                     [v \in Pages |-> IF v \in S THEN Writable(m[v]) ELSE pte[current][v]]]
  BY Zenon DEF sys_mmap
<1>2. \A v, w \in S : m[v] = m[w] => v = w
  <2>1. MmapStart \in Nat
    BY <1>0
  <2>2. S \in SUBSET Nat
    BY <2>1
  <2>3. Frames \ used \in SUBSET Nat
    BY Zenon
  <2> HIDE DEF S
  <2> QED BY <1>1, <2>2, <2>3, InOrderInjective
<1>3. TypeOK'
  <2>1. content' \in [Frames -> Values]
    BY <1>1 DEF Cleared, IInv, TypeOK
  <2>2. [v \in Pages |-> IF v \in S THEN Writable(m[v]) ELSE pte[current][v]]
          \in [Pages -> PTEs \cup {None}]
    <3>1. ASSUME NEW v \in Pages, v \in S PROVE Writable(m[v]) \in PTEs
      BY Zenon, <1>1, <3>1, WritableEntry
    <3>2. ASSUME NEW v \in Pages PROVE pte[current][v] \in PTEs \cup {None}
      BY <1>0 DEF IInv, TypeOK
    <3> HIDE DEF S
    <3> QED BY <3>1, <3>2
  <2>3. pte' \in [Procs -> [Pages -> PTEs \cup {None}]]
    BY <1>1, <2>2 DEF IInv, TypeOK
  <2>4. used' \in SUBSET Frames
    <3>1. used \in SUBSET Frames
      BY DEF IInv, TypeOK
    <3>2. ASSUME NEW v \in S PROVE m[v] \in Frames
      BY <1>1, <3>2
    <3> HIDE DEF S
    <3>3. ImageOf(S, m) \in SUBSET Frames
      BY <3>2 DEF ImageOf
    <3> QED BY <1>1, <3>1, <3>3
  <2>5. tlb' \in [Pages -> PTEs \cup {None}]
    BY DEF sys_mmap, IInv, TypeOK
  <2>6. mmap_next' \in [Procs -> {0} \cup (MMAP_BASE .. MMAP_LIMIT)]
    <3>1. MmapStart + (IF k = n THEN n ELSE 0) \in MMAP_BASE .. MMAP_LIMIT
      BY <1>0
    <3> QED BY <3>1 DEF sys_mmap, IInv, TypeOK
  <2> QED BY Zenon, <2>1, <2>3, <2>4, <2>5, <2>6 DEF sys_mmap, IInv, TypeOK
<1>4. /\ \A v \in T : m[v] \in Frames \ used /\ m[v] \in used'
      /\ \A v, w \in T : m[v] = m[w] => v = w
      /\ used \subseteq used'
  BY <1>1, <1>2 DEF ImageOf
<1>5. /\ \A q \in Procs \ {current} : pte'[q] = pte[q]
      /\ \A v \in T : pte'[current][v] = Writable(m[v]) /\ tlb'[v] = None
      /\ \A v \in Pages \ T : pte'[current][v] = pte[current][v] /\ tlb'[v] = tlb[v]
  BY Zenon, <1>0, <1>1 DEF sys_mmap, IInv, TypeOK
<1>6. UNCHANGED <<live, current, destroyed>>
  BY DEF sys_mmap
<1>7. T \in SUBSET Pages
  OBVIOUS
<1>8. /\ \A f \in used : content'[f] = content[f]
      /\ \A v \in T : content'[m[v]] = Zero
  BY <1>1 DEF Cleared, IInv, TypeOK
<1> HIDE DEF S, T
<1>9. Remapped(T, m)
  BY Zenon, <1>4, <1>5, <1>7, <1>8 DEF Remapped
<1>10. \A v \in Pages \ T : pte'[current][v] = pte[current][v]
  BY Zenon, <1>5
<1>11. \A v \in T : content'[m[v]] = Zero
  BY <1>8
<1> QED BY <1>3, <1>6, <1>7, <1>9, <1>10, <1>11

\* execve, successful or failing late, leaves the process with fresh frames.
LEMMA ExecveRemaps ==
  ASSUME IInv, NEW mapped, Runs, LoadImage(mapped), UNCHANGED <<live, current, halted>>,
         destroyed' \in SUBSET Procs
  PROVE  /\ TypeOK' /\ mapped \in SUBSET Pages
         /\ \E m : /\ Remapped(mapped, m)
                   /\ \A v \in mapped : content'[m[v]] = Zero
                   /\ \A v \in Pages \ mapped : pte'[current][v] = None
<1> DEFINE S == Image \cup Stack
<1>0. current \in Procs /\ mapped \subseteq S /\ mapped \in SUBSET Pages
  BY DEF LoadImage, IInv, TypeOK
<1>1. PICK m \in [S -> Frames \ used] :
        /\ InOrder(S, m, Frames \ used)
        /\ used' = used \cup ImageOf(S, m)
        /\ content' = Cleared(m, S)
        /\ pte' = [pte EXCEPT ![current] =
                     [v \in Pages |-> IF v \in mapped THEN Writable(m[v]) ELSE None]]
  BY Zenon DEF LoadImage
<1>2. \A v, w \in S : m[v] = m[w] => v = w
  <2>1. S \in SUBSET Nat /\ Frames \ used \in SUBSET Nat
    BY Zenon
  <2> QED BY <1>1, <2>1, InOrderInjective
<1>3. TypeOK'
  <2>1. content' \in [Frames -> Values]
    BY <1>1 DEF Cleared, IInv, TypeOK
  <2>2. [v \in Pages |-> IF v \in mapped THEN Writable(m[v]) ELSE None]
          \in [Pages -> PTEs \cup {None}]
    BY Zenon, <1>0, WritableEntry
  <2>3. pte' \in [Procs -> [Pages -> PTEs \cup {None}]]
    BY <1>1, <2>2 DEF IInv, TypeOK
  <2>4. used' \in SUBSET Frames
    <3>1. used \in SUBSET Frames
      BY DEF IInv, TypeOK
    <3>2. ASSUME NEW v \in S PROVE m[v] \in Frames
      BY <1>1
    <3>3. ImageOf(S, m) \in SUBSET Frames
      BY Zenon, <3>2 DEF ImageOf
    <3> QED BY Zenon, <1>1, <3>1, <3>3
  <2>5. /\ mmap_next' \in [Procs -> {0} \cup (MMAP_BASE .. MMAP_LIMIT)]
        /\ tlb' \in [Pages -> PTEs \cup {None}]
    BY DEF LoadImage, Flushed, IInv, TypeOK
  <2> QED BY <2>1, <2>3, <2>4, <2>5 DEF IInv, TypeOK
<1>4. /\ \A v \in mapped : m[v] \in Frames \ used /\ m[v] \in used'
      /\ \A v, w \in mapped : m[v] = m[w] => v = w
      /\ used \subseteq used'
  BY Zenon, <1>0, <1>1, <1>2 DEF ImageOf
<1>5. /\ \A q \in Procs \ {current} : pte'[q] = pte[q]
      /\ \A v \in mapped : pte'[current][v] = Writable(m[v]) /\ tlb'[v] = None
      /\ \A v \in Pages \ mapped : pte'[current][v] = None /\ tlb'[v] = None
  BY Zenon, <1>0, <1>1 DEF LoadImage, Flushed, IInv, TypeOK
<1>6. /\ \A f \in used : content'[f] = content[f]
      /\ \A v \in mapped : content'[m[v]] = Zero
  BY <1>0, <1>1 DEF Cleared, IInv, TypeOK
<1>7. Remapped(mapped, m)
  BY Zenon, <1>0, <1>4, <1>5, <1>6 DEF Remapped
<1> QED BY Zenon, <1>0, <1>3, <1>5, <1>6, <1>7

\* Every step, the failing ones included, preserves the invariant.
THEOREM NextPreserves == IInv /\ [Next]_vars => IInv'
<1> SUFFICES ASSUME IInv, [Next]_vars PROVE IInv'
  OBVIOUS
<1>0. /\ current \in live /\ current \in Procs /\ content \in [Frames -> Values]
      /\ halted \in BOOLEAN /\ destroyed \in SUBSET Procs
  BY DEF IInv, TypeOK
<1>1. ASSUME NEW v \in Pages, NEW x \in Values, user_store(v, x) \/ kernel_store(v, x)
      PROVE IInv'
  <2>1. content' \in [Frames -> Values]
    BY <1>0, <1>1 DEF user_store, kernel_store
  <2> QED BY <1>0, <1>1, <2>1, TlbStep DEF user_store, kernel_store
<1>2. ASSUME NEW v \in Pages, user_load(v) PROVE IInv'
  BY Zenon, <1>0, <1>2, TlbStep DEF user_load
<1>3. ASSUME NEW v \in Pages, cow_handle(v) PROVE IInv'
  BY Zenon, <1>3, CowHandleRemaps, RemapStep
<1>4. ASSUME NEW v \in Pages, page_fault_handler_c(v) PROVE IInv'
  <2>1. TypeOK'
    BY <1>4 DEF page_fault_handler_c, IInv, TypeOK
  <2>2. UNCHANGED <<live, current, pte, tlb, used>>
    BY <1>4 DEF page_fault_handler_c
  <2> QED BY <1>0, <2>1, <2>2, SameTables DEF IInv
<1>5. ASSUME NEW c \in Procs, process_exit(c) \/ context_switch(c) PROVE IInv'
  <2>1. /\ tlb' = Flushed /\ current' \in live' /\ live' \subseteq live
        /\ UNCHANGED <<pte, content, used, mmap_next, destroyed, halted>>
    BY <1>0, <1>5 DEF process_exit, context_switch
  <2> QED BY <2>1, SwitchStep
<1>6. ASSUME NEW c \in Procs, process_fork(c) PROVE IInv'
  BY <1>6, ForkStep
<1>7. ASSUME NEW t, process_fork_oom(t) PROVE IInv'
  BY <1>7, ForkOomStep
<1>8. ASSUME NEW n \in Nat \ {0}, NEW k \in 0 .. n, sys_mmap(n, k) PROVE IInv'
  BY <1>8, MmapRemaps, RemapStep
<1>9. ASSUME NEW mapped, sys_execve(mapped) \/ sys_execve_late_oom(mapped) PROVE IInv'
  <2>1. /\ Runs /\ LoadImage(mapped) /\ UNCHANGED <<live, current, halted>>
        /\ destroyed' \in SUBSET Procs
    BY <1>0, <1>9 DEF sys_execve, sys_execve_late_oom
  <2> QED BY <2>1, ExecveRemaps, RemapStep
<1>10. CASE sys_execve_oom
  <2>1. PICK f \in Frames : used' = used \cup {f} /\ content' = [content EXCEPT ![f] = Zero]
    BY Zenon, <1>10 DEF sys_execve_oom
  <2>2. TypeOK'
    BY <1>10, <2>1 DEF sys_execve_oom, IInv, TypeOK
  <2>3. UNCHANGED <<live, current, pte, tlb>> /\ used \subseteq used'
    BY Zenon, <1>10, <2>1 DEF sys_execve_oom
  <2> QED BY <1>0, <2>2, <2>3, SameTables DEF IInv
<1>11. CASE UNCHANGED vars
  <2>1. TypeOK'
    BY <1>11 DEF vars, IInv, TypeOK
  <2>2. UNCHANGED <<live, current, pte, tlb, used>>
    BY <1>11 DEF vars
  <2> QED BY <1>0, <2>1, <2>2, SameTables DEF IInv
<1>12. CASE UserStep
  BY <1>1, <1>2, <1>3, <1>4, <1>12 DEF UserStep
<1>13. CASE KernelStep
  <2>1. KernelBuffers \subseteq Pages
    OBVIOUS
  <2>2. \A n \in 1 .. MMAP_LIMIT - MMAP_BASE : n \in Nat \ {0}
    OBVIOUS
  <2> QED BY <1>1, <1>5, <1>6, <1>7, <1>8, <1>9, <1>10, <1>13, <2>1, <2>2 DEF KernelStep
<1> QED BY <1>11, <1>12, <1>13 DEF Next

\* The inductive invariant holds in every reachable state.
THEOREM Invariance == Spec => []IInv
BY InitEstablishes, NextPreserves, PTL DEF Spec

\* Page tables, TLB and cursors keep their types; mmap stays in its window.
THEOREM TypeCorrect == Spec => []TypeOK
<1>1. IInv => TypeOK
  BY DEF IInv
<1> QED BY <1>1, Invariance, PTL

\* A frame anyone can store to from user mode is mapped once, for any number
\* of processes forking, faulting, mapping and failing in any order.
THEOREM CopyOnWriteSafe == Spec => []WritableIsExclusive
<1>1. IInv => WritableIsExclusive
  BY DEF IInv
<1> QED BY <1>1, Invariance, PTL

\* The TLB agrees with the page table on the frame of every page.
THEOREM TlbNeverStale == Spec => []TlbCoherent
<1>1. IInv => TlbCoherent
  BY DEF IInv
<1> QED BY <1>1, Invariance, PTL
-----------------------------------------------------------------------------
(***************************************************************************)
(* The refinement.  Each step is first described by what it does to the    *)
(* views of the processes.                                                 *)
(***************************************************************************)
SameView(p, v) == View(p, v)' = View(p, v)
SameViews == \A p \in Procs : \A v \in Pages : SameView(p, v)
OthersSame(c) == \A p \in Procs \ {c} : \A v \in Pages : SameView(p, v)

\* A view depends on the frame an entry names and on what the frame holds.
LEMMA ViewKept ==
  ASSUME NEW p, NEW v,
         p \in live' \ destroyed' <=> p \in live \ destroyed,
         p \in live \ destroyed => (pte'[p][v] = None <=> pte[p][v] = None),
         p \in live \ destroyed /\ pte[p][v] # None =>
           content'[pte'[p][v].frame] = content[pte[p][v].frame]
  PROVE  SameView(p, v)
BY Zenon DEF SameView, View

\* The frame of a live process's page is in use, and holds a value.
LEMMA FrameOf ==
  ASSUME IInv, NEW p \in live, NEW v \in Pages, pte[p][v] # None
  PROVE  /\ pte[p][v] \in PTEs /\ pte[p][v].frame \in used /\ pte[p][v].frame \in Frames
         /\ content[pte[p][v].frame] \in Values
<1>1. p \in Procs
  BY DEF IInv, TypeOK
<1>2. pte[p][v] \in PTEs
  BY <1>1 DEF IInv, TypeOK
<1>3. pte[p][v].frame \in used
  BY <1>1 DEF IInv, MappedIsUsed
<1> QED BY Zenon, <1>2, <1>3 DEF IInv, TypeOK

\* Nothing but the TLB, the current process or the halt changes.
LEMMA TablesKept ==
  ASSUME UNCHANGED <<live, destroyed, pte, content>>
  PROVE  SameViews
BY DEF SameViews, SameView, View

\* The processor's entry names the frame the page table names.
LEMMA EffectiveFrame ==
  ASSUME IInv, NEW v \in Pages, Effective(v) # None
  PROVE  /\ pte[current][v] # None /\ Effective(v).frame = pte[current][v].frame
         /\ Effective(v).frame \in Frames
<1>1. pte[current][v] # None /\ Effective(v).frame = pte[current][v].frame
  BY Zenon DEF IInv, TlbCoherent, Effective
<1>2. current \in live
  BY DEF IInv
<1> QED BY <1>1, <1>2, FrameOf

\* A store to page v is seen at page v only, in whatever process,
LEMMA StoreSeenAtPage ==
  ASSUME IInv, NEW v \in Pages, NEW x, Effective(v) # None,
         content' = [content EXCEPT ![Effective(v).frame] = x],
         UNCHANGED <<live, destroyed, pte>>,
         NEW p \in Procs, NEW w \in Pages, w # v
  PROVE  SameView(p, w)
<1>1. ASSUME p \in live, pte[p][w] # None
      PROVE  content'[pte[p][w].frame] = content[pte[p][w].frame]
  <2>1. AtOnePage(p, current, w, v)
    BY Zenon, <1>1 DEF IInv, SharedAtOnePage
  <2>2. pte[p][w].frame # Effective(v).frame
    BY Zenon, <1>1, <2>1, EffectiveFrame DEF AtOnePage
  <2>3. pte[p][w].frame \in Frames
    BY Zenon, <1>1, FrameOf
  <2> QED BY <2>2, <2>3 DEF IInv, TypeOK
<1> QED BY Zenon, <1>1, ViewKept

\* and a store of user code by the current process only.
LEMMA StoreSeenByOwner ==
  ASSUME IInv, NEW v \in Pages, NEW x, user_store(v, x)
  PROVE  /\ View(current, v) \in Values /\ View(current, v)' = x
         /\ \A p \in Procs, w \in Pages : p # current \/ w # v => SameView(p, w)
<1>1. /\ Effective(v) # None /\ Effective(v).write /\ current \in live \ destroyed
      /\ content' = [content EXCEPT ![Effective(v).frame] = x]
      /\ UNCHANGED <<live, destroyed, pte, current>>
  BY DEF user_store, Runs
<1>2. pte[current][v] # None /\ Effective(v).frame = pte[current][v].frame
  BY Zenon, <1>1, EffectiveFrame
<1>3. View(current, v) \in Values
  BY Zenon, <1>1, <1>2, FrameOf DEF View
<1>4. View(current, v)' = x
  <2>1. content'[pte[current][v].frame] = x
    BY Zenon, <1>1, <1>2, EffectiveFrame DEF IInv, TypeOK
  <2> QED BY Zenon, <1>1, <1>2, <2>1 DEF View
<1>5. ASSUME NEW p \in Procs, p # current
      PROVE  SameView(p, v)
  <2>1. ASSUME p \in live, pte[p][v] # None
        PROVE  content'[pte[p][v].frame] = content[pte[p][v].frame]
    <3>1. ~Maps(p, v, Effective(v).frame)
      <4>1. current \in Procs
        BY DEF IInv, TypeOK
      <4>2. CASE tlb[v] # None
        BY Zenon, <1>1, <1>5, <4>1, <4>2 DEF IInv, WritableIsExclusive, Effective
      <4>3. CASE tlb[v] = None
        BY Zenon, <1>1, <1>5, <4>1, <4>3 DEF IInv, WritableIsExclusive, Effective
      <4> QED BY <4>2, <4>3
    <3>2. pte[p][v].frame # Effective(v).frame
      BY <2>1, <3>1 DEF Maps
    <3>3. pte[p][v].frame \in Frames
      BY Zenon, <2>1, FrameOf
    <3> QED BY <1>1, <3>2, <3>3 DEF IInv, TypeOK
  <2> QED BY Zenon, <1>1, <2>1, ViewKept
<1>6. ASSUME NEW p \in Procs, NEW w \in Pages, w # v
      PROVE  SameView(p, w)
  BY Zenon, <1>1, <1>6, StoreSeenAtPage
<1> QED BY <1>3, <1>4, <1>5, <1>6

\* A remapping leaves the other processes, and the pages it leaves in place.
LEMMA RemapViews ==
  ASSUME IInv, NEW S, NEW m, Remapped(S, m), live' = live,
         NEW p \in Procs, p \in live' \ destroyed' <=> p \in live \ destroyed,
         NEW w \in Pages, pte'[p][w] = pte[p][w]
  PROVE  SameView(p, w)
<1>1. ASSUME p \in live, pte[p][w] # None
      PROVE  content'[pte'[p][w].frame] = content[pte[p][w].frame]
  BY Zenon, <1>1, FrameOf DEF Remapped
<1> QED BY Zenon, <1>1, ViewKept

\* The copy made at a write fault holds what the shared frame held.
LEMMA CowViews ==
  ASSUME IInv, NEW v \in Pages, cow_handle(v)
  PROVE  SameViews
<1>1. PICK m : /\ UNCHANGED <<live, current, destroyed>> /\ Remapped({v}, m)
               /\ pte[current][v] # None
               /\ content'[m[v]] = content[pte[current][v].frame]
  BY Zenon, CowHandleRemaps
<1>2. pte'[current][v] = Writable(m[v])
  BY Zenon, <1>1 DEF Remapped
<1>3. ASSUME NEW p \in Procs, NEW w \in Pages, p # current \/ w # v
      PROVE  pte'[p][w] = pte[p][w]
  <2>1. pte \in [Procs -> [Pages -> PTEs \cup {None}]]
    BY DEF IInv, TypeOK
  <2>2. PICK e : pte' = [pte EXCEPT ![current][v] = e]
    BY Zenon DEF cow_handle
  <2> QED BY <1>3, <2>1, <2>2
<1>4. m[v] \in Frames
  BY Zenon, <1>1 DEF Remapped
<1>5. SameView(current, v)
  <2>1. pte'[current][v] # None /\ pte'[current][v].frame = m[v]
    BY Zenon, <1>2, <1>4, WritableEntry
  <2> QED BY Zenon, <1>1, <2>1, ViewKept
<1>6. ASSUME NEW p \in Procs, NEW w \in Pages, p # current \/ w # v
      PROVE  SameView(p, w)
  <2>1. pte'[p][w] = pte[p][w]
    BY <1>3, <1>6
  <2>2. Remapped({v}, m) /\ live' = live /\ destroyed' = destroyed
    BY Zenon, <1>1
  <2> QED BY Zenon, <2>1, <2>2, RemapViews
<1> QED BY <1>5, <1>6 DEF SameViews

\* The entries a failed fork made read-only name the same frames.
LEMMA ForkOomViews ==
  ASSUME IInv, NEW t, process_fork_oom(t)
  PROVE  SameViews
<1>1. UNCHANGED <<live, destroyed, content>> /\ current \in Procs
  BY DEF process_fork_oom, IInv, TypeOK
<1>2. ASSUME NEW p \in Procs, NEW v \in Pages
      PROVE  SameView(p, v)
  <2>1. CASE pte'[p][v] = pte[p][v]
    BY Zenon, <1>1, <2>1, ViewKept
  <2>2. CASE p = current /\ pte'[p][v] = Cow(pte[p][v])
    <3>1. pte[p][v] \in PTEs \cup {None}
      BY DEF IInv, TypeOK
    <3>2. /\ pte'[p][v] = None <=> pte[p][v] = None
          /\ pte[p][v] # None => pte'[p][v].frame = pte[p][v].frame
      BY Zenon, <2>2, <3>1, CowEntry
    <3>3. content'[pte'[p][v].frame] = content[pte[p][v].frame] \/ pte[p][v] = None
      BY Zenon, <1>1, <3>2
    <3> QED BY Zenon, <1>1, <3>2, <3>3, ViewKept
  <2>3. pte'[p][v] = pte[p][v] \/ (p = current /\ pte'[p][v] = Cow(pte[p][v]))
    BY Zenon, <1>1 DEF process_fork_oom, ClonedBefore, IInv, TypeOK
  <2> QED BY Zenon, <2>1, <2>2, <2>3
<1> QED BY <1>2 DEF SameViews

\* An execve that fails early has filled a frame nobody maps.
LEMMA ExecveOomViews ==
  ASSUME IInv, sys_execve_oom
  PROVE  SameViews
<1>1. UNCHANGED <<live, destroyed, pte>>
  BY DEF sys_execve_oom
<1>2. \A f \in used : content'[f] = content[f]
  BY DEF sys_execve_oom, LowestFree, IInv, TypeOK
<1>3. ASSUME NEW p \in Procs, NEW v \in Pages
      PROVE  SameView(p, v)
  <2>1. ASSUME p \in live, pte[p][v] # None
        PROVE  content'[pte'[p][v].frame] = content[pte[p][v].frame]
    BY Zenon, <1>1, <1>2, <2>1, FrameOf
  <2> QED BY Zenon, <1>1, <2>1, ViewKept
<1> QED BY <1>3 DEF SameViews

\* The child of a fork sees what its parent sees; before, it saw nothing.
LEMMA ForkViews ==
  ASSUME IInv, NEW c \in Procs, process_fork(c)
  PROVE  /\ c # current /\ OthersSame(c)
         /\ \A v \in Pages : View(c, v) = None /\ View(c, v)' = View(current, v)
<1>1. /\ c \notin live /\ current \in live \ destroyed /\ c # current /\ current \in Procs
      /\ live' = live \cup {c} /\ destroyed' = destroyed \ {c} /\ content' = content
  BY DEF process_fork, Runs, IInv, TypeOK
<1>2. ASSUME NEW v \in Pages
      PROVE  /\ pte'[current][v] = Cow(pte[current][v]) /\ pte'[c][v] = Cow(pte[current][v])
             /\ pte[current][v] \in PTEs \cup {None}
  <2>1. pte \in [Procs -> [Pages -> PTEs \cup {None}]]
    BY DEF IInv, TypeOK
  <2>2. pte' = [pte EXCEPT ![current] = Cloned, ![c] = Cloned]
    BY DEF process_fork
  <2>3. pte'[current] = Cloned /\ pte'[c] = Cloned
    BY <1>1, <2>1, <2>2
  <2>4. pte[current][v] \in PTEs \cup {None}
    BY <1>1, <2>1
  <2>5. Cloned[v] = Cow(pte[current][v])
    BY DEF Cloned
  <2> QED BY <2>3, <2>4, <2>5
<1>3. ASSUME NEW v \in Pages
      PROVE  /\ Cow(pte[current][v]) = None <=> pte[current][v] = None
             /\ pte[current][v] # None =>
                  Cow(pte[current][v]).frame = pte[current][v].frame
  BY Zenon, <1>2, CowEntry
<1>4. ASSUME NEW p \in Procs \ {c}, NEW v \in Pages
      PROVE  SameView(p, v)
  <2>1. CASE p = current
    BY Zenon, <1>1, <1>2, <1>3, <2>1, ViewKept
  <2>2. CASE p # current
    <3>1. pte'[p][v] = pte[p][v]
      BY <2>2 DEF process_fork, IInv, TypeOK
    <3> QED BY Zenon, <1>1, <3>1, ViewKept
  <2> QED BY <2>1, <2>2
<1>5. ASSUME NEW v \in Pages
      PROVE  View(c, v) = None /\ View(c, v)' = View(current, v)
  BY Zenon, <1>1, <1>2, <1>3 DEF View
<1> QED BY <1>1, <1>4, <1>5 DEF OthersSame

\* An exit hides the memory of the process that exits.
LEMMA ExitViews ==
  ASSUME IInv, NEW q, process_exit(q), NEW o, o = current
  PROVE  OthersSame(o) /\ \A v \in Pages : View(o, v)' = None
<1>1. live' = live \ {current} /\ UNCHANGED <<destroyed, pte, content>>
  BY DEF process_exit
<1>2. ASSUME NEW p \in Procs \ {current}, NEW v \in Pages
      PROVE  SameView(p, v)
  BY Zenon, <1>1, ViewKept
<1>3. ASSUME NEW v \in Pages
      PROVE  View(o, v)' = None
  BY <1>1 DEF View
<1> QED BY <1>2, <1>3 DEF OthersSame

\* mmap gives the current process cleared pages and keeps its others.
LEMMA MmapViews ==
  ASSUME IInv, NEW n \in Nat \ {0}, NEW k \in 0 .. n, sys_mmap(n, k)
  PROVE  /\ OthersSame(current)
         /\ \E T \in SUBSET Pages :
              /\ \A v \in T : View(current, v)' = Zero
              /\ \A v \in Pages \ T : SameView(current, v)
<1>a. PICK T \in SUBSET Pages : \E m :
           /\ Remapped(T, m)
           /\ \A v \in T : content'[m[v]] = Zero
           /\ \A v \in Pages \ T : pte'[current][v] = pte[current][v]
  BY Zenon, MmapRemaps
<1>1. PICK m :
           /\ Remapped(T, m)
           /\ \A v \in T : content'[m[v]] = Zero
           /\ \A v \in Pages \ T : pte'[current][v] = pte[current][v]
  BY Zenon, <1>a
<1>2. UNCHANGED <<live, current, destroyed>>
  BY DEF sys_mmap
<1>3. current \in live \ destroyed /\ current \in Procs
  BY Zenon DEF sys_mmap, Runs, IInv, TypeOK
<1>4. ASSUME NEW v \in T
      PROVE  View(current, v)' = Zero
  <2>1. pte'[current][v] # None /\ pte'[current][v].frame = m[v]
    <3>1. pte'[current][v] = Writable(m[v]) /\ m[v] \in Frames
      BY Zenon, <1>1 DEF Remapped
    <3> QED BY Zenon, <3>1, WritableEntry
  <2> QED BY Zenon, <1>1, <1>2, <1>3, <2>1 DEF View
<1>5. ASSUME NEW v \in Pages \ T
      PROVE  SameView(current, v)
  BY Zenon, <1>1, <1>2, <1>3, RemapViews
<1>6. ASSUME NEW p \in Procs \ {current}, NEW v \in Pages
      PROVE  SameView(p, v)
  <2>1. pte'[p][v] = pte[p][v]
    BY Zenon, <1>1 DEF Remapped
  <2> QED BY Zenon, <1>1, <1>2, <2>1, RemapViews
<1> QED BY <1>4, <1>5, <1>6 DEF OthersSame

\* execve gives it a cleared image, or nothing when its tables were freed.
LEMMA ExecveViews ==
  ASSUME IInv, NEW mapped, sys_execve(mapped) \/ sys_execve_late_oom(mapped)
  PROVE  /\ OthersSame(current)
         /\ \E T \in SUBSET Pages :
              /\ \A v \in T : View(current, v)' = Zero
              /\ \A v \in Pages \ T : View(current, v)' = None
<1>1. /\ Runs /\ LoadImage(mapped) /\ UNCHANGED <<live, current, halted>>
      /\ destroyed' = destroyed \/ destroyed' = destroyed \cup {current}
  BY DEF sys_execve, sys_execve_late_oom
<1>2. current \in live \ destroyed /\ current \in Procs /\ destroyed' \in SUBSET Procs
  BY <1>1 DEF Runs, IInv, TypeOK
<1>3. /\ mapped \in SUBSET Pages
      /\ \E m : /\ Remapped(mapped, m)
                /\ \A v \in mapped : content'[m[v]] = Zero
                /\ \A v \in Pages \ mapped : pte'[current][v] = None
  BY <1>1, <1>2, ExecveRemaps
<1>4. PICK m : /\ Remapped(mapped, m)
               /\ \A v \in mapped : content'[m[v]] = Zero
               /\ \A v \in Pages \ mapped : pte'[current][v] = None
  BY <1>3
<1>5. ASSUME NEW p \in Procs \ {current}, NEW v \in Pages
      PROVE  SameView(p, v)
  <2>1. pte'[p][v] = pte[p][v]
    BY Zenon, <1>4 DEF Remapped
  <2> QED BY Zenon, <1>1, <1>4, <2>1, RemapViews
<1>6. ASSUME destroyed' = destroyed, NEW v \in mapped
      PROVE  View(current, v)' = Zero
  <2>1. pte'[current][v] # None /\ pte'[current][v].frame = m[v]
    <3>1. pte'[current][v] = Writable(m[v]) /\ m[v] \in Frames
      BY Zenon, <1>4 DEF Remapped
    <3> QED BY Zenon, <3>1, WritableEntry
  <2> QED BY Zenon, <1>1, <1>2, <1>4, <1>6, <2>1 DEF View
<1>7. ASSUME NEW v \in Pages \ mapped
      PROVE  View(current, v)' = None
  BY Zenon, <1>1, <1>4 DEF View
<1>8. ASSUME destroyed' = destroyed \cup {current}, NEW v \in Pages
      PROVE  View(current, v)' = None
  BY <1>1, <1>8 DEF View
<1>9. CASE destroyed' = destroyed
  BY Zenon, <1>3, <1>5, <1>6, <1>7, <1>9 DEF OthersSame
<1>10. CASE destroyed' = destroyed \cup {current}
  <2>1. {} \in SUBSET Pages /\ \A v \in Pages \ {} : View(current, v)' = None
    BY <1>8, <1>10
  <2> QED BY Zenon, <1>5, <2>1 DEF OthersSame
<1> QED BY <1>1, <1>9, <1>10

\* The private memory a state stands for.
MemoryOf == [p \in Procs |-> [v \in Seen |-> View(p, v)]]

LEMMA SameViewsStutter ==
  ASSUME \A p \in Procs, v \in Seen : SameView(p, v)
  PROVE  MemoryOf' = MemoryOf
BY DEF MemoryOf, SameView

LEMMA StoreRefines ==
  ASSUME NEW p \in Procs, NEW v \in Seen, NEW x, View(p, v) # None, View(p, v)' = x,
         \A q \in Procs, w \in Seen : q # p \/ w # v => SameView(q, w)
  PROVE  Memory!Store(p, v, x)
<1>1. MemoryOf[p][v] # None
  BY DEF MemoryOf
<1>2. MemoryOf' = [MemoryOf EXCEPT ![p][v] = x]
  <2>1. ASSUME NEW q \in Procs
        PROVE  MemoryOf'[q] = IF q = p THEN [MemoryOf[p] EXCEPT ![v] = x] ELSE MemoryOf[q]
    BY DEF MemoryOf, SameView
  <2>2. MemoryOf' = [MemoryOf EXCEPT ![p] = [MemoryOf[p] EXCEPT ![v] = x]]
    BY Zenon, <2>1 DEF MemoryOf
  <2> QED BY <2>2
<1> QED BY Zenon, <1>1, <1>2 DEF Memory!Store, MemoryOf

LEMMA ForkRefines ==
  ASSUME NEW p \in Procs, NEW c \in Procs \ {p},
         \A q \in Procs \ {c}, v \in Seen : SameView(q, v),
         \A v \in Seen : View(c, v) = None /\ View(c, v)' = View(p, v)
  PROVE  Memory!Fork(p, c)
<1>1. MemoryOf[c] = [v \in Seen |-> None]
  BY DEF MemoryOf
<1>2. MemoryOf' = [MemoryOf EXCEPT ![c] = MemoryOf[p]]
  <2>1. ASSUME NEW q \in Procs
        PROVE  MemoryOf'[q] = IF q = c THEN MemoryOf[p] ELSE MemoryOf[q]
    BY DEF MemoryOf, SameView
  <2> QED BY Zenon, <2>1 DEF MemoryOf
<1> QED BY <1>1, <1>2 DEF Memory!Fork, Memory!Nothing, MemoryOf

LEMMA MmapRefines ==
  ASSUME NEW p \in Procs, NEW S,
         \A q \in Procs \ {p}, v \in Seen : SameView(q, v),
         \A v \in Seen : IF v \in S THEN View(p, v)' = Zero ELSE SameView(p, v)
  PROVE  Memory!Mmap(p, S)
<1>1. ASSUME NEW q \in Procs
      PROVE  MemoryOf'[q] = IF q = p THEN [v \in Seen |-> IF v \in S THEN Zero ELSE MemoryOf[p][v]]
                                     ELSE MemoryOf[q]
  BY DEF MemoryOf, SameView
<1>2. MemoryOf' = [MemoryOf EXCEPT ![p] =
                     [v \in Seen |-> IF v \in S THEN Zero ELSE MemoryOf[p][v]]]
  BY Zenon, <1>1 DEF MemoryOf
<1> QED BY <1>2 DEF Memory!Mmap, MemoryOf

LEMMA ExecRefines ==
  ASSUME NEW p \in Procs, NEW S,
         \A q \in Procs \ {p}, v \in Seen : SameView(q, v),
         \A v \in Seen : View(p, v)' = IF v \in S THEN Zero ELSE None
  PROVE  Memory!Exec(p, S)
<1>1. ASSUME NEW q \in Procs
      PROVE  MemoryOf'[q] = IF q = p THEN [v \in Seen |-> IF v \in S THEN Zero ELSE None]
                                     ELSE MemoryOf[q]
  BY DEF MemoryOf, SameView
<1>2. MemoryOf' = [MemoryOf EXCEPT ![p] = [v \in Seen |-> IF v \in S THEN Zero ELSE None]]
  BY Zenon, <1>1 DEF MemoryOf
<1> QED BY <1>2 DEF Memory!Exec, MemoryOf

\* The first process starts with its image and stack cleared.
LEMMA InitRefines ==
  ASSUME Init
  PROVE  Memory!Init
<1> DEFINE S == (Image \cup Stack) \cap Seen
<1>1. ASSUME NEW p \in Procs, NEW v \in Seen
      PROVE  View(p, v) = IF p = First /\ v \in S THEN Zero ELSE None
  <2>1. v \in Pages
    BY SeenAssumption
  <2>2. CASE p = First /\ v \in S
    <3>1. PICK m \in [Image \cup Stack -> Frames] :
             pte = [q \in Procs |-> [w \in Pages |->
                      IF q = First /\ w \in Image \cup Stack THEN Writable(m[w]) ELSE None]]
      BY DEF Init
    <3>2. pte[p][v] = Writable(m[v]) /\ m[v] \in Frames
      BY <2>1, <2>2, <3>1
    <3>3. pte[p][v] # None /\ pte[p][v].frame \in Frames
      BY Zenon, <3>2, WritableEntry
    <3> QED BY <2>2, <3>3 DEF Init, View
  <2>3. CASE ~(p = First /\ v \in S)
    <3>1. live = {First}
      BY DEF Init
    <3>2. v \notin Image \cup Stack => pte[p][v] = None
      BY <2>1 DEF Init
    <3> QED BY <2>3, <3>1, <3>2 DEF View
  <2> QED BY <2>2, <2>3
<1>2. MemoryOf = [q \in Procs |-> IF q = First
                                    THEN [v \in Seen |-> IF v \in S THEN Zero ELSE None]
                                    ELSE [v \in Seen |-> None]]
  BY <1>1 DEF MemoryOf
<1>3. S \in SUBSET Seen
  OBVIOUS
<1> HIDE DEF S
<1> QED BY Zenon, <1>2, <1>3 DEF Memory!Init, Memory!Nothing, MemoryOf

\* Every step is a step of private memory, or changes nothing a process sees.
LEMMA StepRefines ==
  ASSUME IInv, [Next]_vars
  PROVE  [Memory!Next]_MemoryOf
<1> SUFFICES ASSUME MemoryOf' # MemoryOf
             PROVE  \E p \in Procs :
                      \/ \E v \in Seen, x \in Values : Memory!Store(p, v, x)
                      \/ \E c \in Procs \ {p} : Memory!Fork(p, c)
                      \/ \E S \in SUBSET Seen : Memory!Mmap(p, S) \/ Memory!Exec(p, S)
  BY Zenon DEF Memory!Next, MemoryOf
<1>0. current \in Procs /\ \A v \in Seen : v \in Pages /\ v \notin KernelBuffers
  BY SeenAssumption DEF IInv, TypeOK
<1>1. ~SameViews
  BY Zenon, <1>0, SameViewsStutter DEF SameViews
<1>2. CASE UserStep
  <2>1. PICK v \in Pages : \/ \E x \in Values : user_store(v, x)
                           \/ user_load(v) \/ cow_handle(v) \/ page_fault_handler_c(v)
    BY <1>2 DEF UserStep
  <2>2. CASE user_load(v) \/ cow_handle(v) \/ page_fault_handler_c(v)
    BY Zenon, <1>1, <2>2, TablesKept, CowViews DEF user_load, page_fault_handler_c
  <2>3. ASSUME NEW x \in Values, user_store(v, x)
        PROVE  v \in Seen /\ Memory!Store(current, v, x)
    <3>1. /\ View(current, v) \in Values /\ View(current, v)' = x
          /\ \A p \in Procs, w \in Pages : p # current \/ w # v => SameView(p, w)
      BY <2>3, StoreSeenByOwner
    <3>2. v \in Seen
      BY Zenon, <1>0, <3>1, SameViewsStutter
    <3>3. current' = current /\ View(current, v) # None
      BY Zenon, <2>3, <3>1, SeenAssumption DEF user_store
    <3> QED BY <1>0, <3>1, <3>2, <3>3, StoreRefines
  <2> QED BY <1>0, <2>1, <2>2, <2>3
<1>3. ASSUME NEW v \in KernelBuffers, NEW x, kernel_store(v, x)
      PROVE  FALSE
  <2>1. \A p \in Procs, w \in Seen : SameView(p, w)
    BY Zenon, <1>0, <1>3, StoreSeenAtPage DEF kernel_store
  <2> QED BY <2>1, SameViewsStutter
<1>4. ASSUME NEW c \in Procs, process_fork(c)
      PROVE  c \in Procs \ {current} /\ Memory!Fork(current, c)
  BY Zenon, <1>0, <1>4, ForkViews, ForkRefines DEF OthersSame
<1>5. ASSUME NEW q \in Procs, process_exit(q)
      PROVE  Memory!Exec(current, {})
  <2>1. PICK o \in Procs : o = current
    BY <1>0
  <2>2. OthersSame(o) /\ \A v \in Pages : View(o, v)' = None
    BY <1>5, <2>1, ExitViews
  <2>3. /\ \A p \in Procs \ {o}, v \in Seen : SameView(p, v)
        /\ \A v \in Seen : View(o, v)' = IF v \in {} THEN Zero ELSE None
    BY Zenon, <1>0, <2>2 DEF OthersSame
  <2>4. ASSUME NEW E, E = {} PROVE Memory!Exec(o, E)
    <3>1. /\ \A p \in Procs \ {o}, v \in Seen : SameView(p, v)
          /\ \A v \in Seen : View(o, v)' = IF v \in E THEN Zero ELSE None
      BY <2>3, <2>4
    <3> QED BY <3>1, ExecRefines
  <2> QED BY <2>1, <2>4
<1>6. ASSUME NEW p, context_switch(p)
      PROVE  FALSE
  BY <1>1, <1>6, TablesKept DEF context_switch
<1>7. ASSUME NEW t, process_fork_oom(t)
      PROVE  FALSE
  BY <1>1, <1>7, ForkOomViews
<1>8. ASSUME NEW n \in Nat \ {0}, NEW k \in 0 .. n, sys_mmap(n, k)
      PROVE  \E S \in SUBSET Seen : Memory!Mmap(current, S)
  <2>1. PICK T \in SUBSET Pages :
             /\ \A v \in T : View(current, v)' = Zero
             /\ \A v \in Pages \ T : SameView(current, v)
    BY <1>8, MmapViews
  <2>2. OthersSame(current) /\ current' = current
    BY Zenon, <1>8, MmapViews DEF sys_mmap
  <2>3. PICK o \in Procs : o = current
    BY <1>0
  <2>4. /\ \A p \in Procs \ {o}, v \in Seen : SameView(p, v)
        /\ \A v \in Seen : IF v \in T \cap Seen THEN View(o, v)' = Zero ELSE SameView(o, v)
    BY Zenon, <1>0, <2>1, <2>2, <2>3 DEF OthersSame
  <2>5. Memory!Mmap(o, T \cap Seen)
    BY Zenon, <2>4, MmapRefines
  <2> QED BY <2>3, <2>5
<1>9. ASSUME NEW mapped, sys_execve(mapped) \/ sys_execve_late_oom(mapped)
      PROVE  \E S \in SUBSET Seen : Memory!Exec(current, S)
  <2>1. PICK T \in SUBSET Pages :
             /\ \A v \in T : View(current, v)' = Zero
             /\ \A v \in Pages \ T : View(current, v)' = None
    BY <1>9, ExecveViews
  <2>2. OthersSame(current) /\ current' = current
    BY <1>9, ExecveViews DEF sys_execve, sys_execve_late_oom
  <2>3. Memory!Exec(current, T \cap Seen)
    BY Zenon, <1>0, <2>1, <2>2, ExecRefines DEF OthersSame
  <2> QED BY <2>3
<1>10. ~sys_execve_oom /\ ~UNCHANGED vars
  BY <1>1, ExecveOomViews, TablesKept DEF vars
<1>11. \A n \in 1 .. MMAP_LIMIT - MMAP_BASE : n \in Nat \ {0}
  OBVIOUS
<1>12. CASE KernelStep
  <2>1. CASE \E n \in 1 .. MMAP_LIMIT - MMAP_BASE : \E k \in 0 .. n : sys_mmap(n, k)
    BY Zenon, <1>0, <1>8, <1>11, <2>1
  <2>2. CASE \E c \in Procs : process_fork(c) \/ process_exit(c) \/ context_switch(c)
    <3>1. {} \in SUBSET Seen
      OBVIOUS
    <3> QED BY Zenon, <1>0, <1>4, <1>5, <1>6, <2>2, <3>1
  <2> QED BY Zenon, <1>0, <1>3, <1>7, <1>9, <1>10, <1>12, <2>1, <2>2 DEF KernelStep
<1> QED BY <1>2, <1>10, <1>12 DEF Next

\* Copy-on-write address spaces implement private memory: for any number of
\* processes, pages and frames, what fork, the write fault, mmap, execve, exit
\* and the TLB do looks to each process like memory only it stores to.
THEOREM AddressSpacesArePrivate == Spec => ImplementsPrivateMemory
<1>1. Init => Memory!Init
  BY InitRefines
<1>2. IInv /\ [Next]_vars => [Memory!Next]_MemoryOf
  BY StepRefines
<1> QED BY <1>1, <1>2, Invariance, PTL DEF Spec, ImplementsPrivateMemory, Memory!Spec, MemoryOf

\* A copy-on-write fault, a load, a switch and a failed fork change nothing a
\* process sees, at any page.
THEOREM FaultsStayInvisible == Spec => FaultsAreInvisible
<1>1. ASSUME IInv, NEW v \in Pages, cow_handle(v) \/ user_load(v)
      PROVE  SameViews
  BY <1>1, CowViews, TablesKept DEF user_load
<1>2. ASSUME IInv, NEW p, context_switch(p)
      PROVE  SameViews
  BY <1>2, TablesKept DEF context_switch
<1>3. IInv /\ [Next]_vars =>
        [(\E p \in Procs, v \in Pages : View(p, v)' # View(p, v)) =>
         ~ \/ \E v \in Pages : cow_handle(v) \/ user_load(v)
           \/ \E p \in Procs : context_switch(p)
           \/ \E t \in 0 .. AllTables - 1 : process_fork_oom(t)]_vars
  BY Zenon, <1>1, <1>2, ForkOomViews DEF SameViews, SameView
<1> QED BY <1>3, Invariance, PTL DEF Spec, FaultsAreInvisible
=============================================================================
