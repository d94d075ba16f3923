-------------------------- MODULE SchedulerProofs --------------------------
(***************************************************************************)
(* Proofs about modules Scheduler and Programs for every table size, slice *)
(* length and set of exit codes.                                           *)
(*                                                                         *)
(* The run queue is described without induction: a set of links is one     *)
(* cycle through M when no two links meet and no proper part of M is       *)
(* closed under them (operator Ring).  Insertion and removal preserve that *)
(* by set reasoning alone, and the scan of scheduler_yield cannot come     *)
(* back to its start without passing the idle process.  The shipped        *)
(* programs keep a chain of waiting parents (operator Chain).              *)
(***************************************************************************)
EXTENDS Programs, TLAPS

(***************************************************************************)
(* scheduler_add: inserting a node that is not in the ring after the head  *)
(* gives the ring with that node.                                          *)
(***************************************************************************)
LEMMA AddKeepsRing ==
  ASSUME NEW nx \in [Pids -> Pids \cup {NULL}],
         NEW M \in SUBSET Pids, Ring(nx, M),
         NEW h \in M, NEW c \in Pids \ M
  PROVE  Ring(AddLinks(nx, h, c), M \cup {c})
<1> DEFINE nn == [nx EXCEPT ![c] = nx[h], ![h] = c]
           N == M \cup {c}
<1>0. /\ h # NULL /\ h \in Pids /\ h # c
      /\ AddLinks(nx, h, c) = nn
  BY DEF AddLinks, NULL, Pids
<1>1. /\ nn[c] = nx[h]
      /\ nn[h] = c
      /\ \A p \in M \ {h} : nn[p] = nx[p]
      /\ \A p \in M : nx[p] \in M
  BY <1>0 DEF Ring
<1>2. \A p \in N : nn[p] \in N
  BY <1>1
<1>3. \A p, q \in N : nn[p] = nn[q] => p = q
  BY <1>1 DEF Ring
<1>4. ASSUME NEW S \in SUBSET N, S # {}, \A p \in S : nn[p] \in S
      PROVE  S = N
  <2> DEFINE T == S \ {c}
  <2>1. T # {} /\ T \in SUBSET M
    <3>1. CASE c \in S
      <4>1. nx[h] \in S /\ nx[h] # c
        BY <1>1, <1>4, <3>1
      <4> QED BY <4>1
    <3>2. CASE c \notin S
      BY <1>4, <3>2
    <3> QED BY <3>1, <3>2
  <2>2. ASSUME NEW p \in T PROVE nx[p] \in T
    <3>0. p \in M /\ nx[p] \in M /\ nx[p] # c
      BY <1>1, <2>1
    <3>1. CASE p = h
      <4>1. c \in S
        BY <1>1, <1>4, <3>1
      <4>2. nx[h] \in S
        BY <1>1, <1>4, <4>1
      <4> QED BY <3>0, <3>1, <4>2
    <3>2. CASE p # h
      <4>1. nx[p] = nn[p]
        BY <1>1, <3>0, <3>2
      <4> QED BY <1>4, <3>0, <4>1
    <3> QED BY <3>1, <3>2
  <2>3. T = M
    BY Zenon, <2>1, <2>2 DEF Ring
  <2>4. h \in S
    BY <2>3
  <2>5. c \in S
    BY <1>1, <1>4, <2>4
  <2> QED BY <2>3, <2>5
<1> HIDE DEF nn
<1> QED BY <1>0, <1>2, <1>3, <1>4 DEF Ring

(***************************************************************************)
(* Every node of the ring has a predecessor: scheduler_remove's search     *)
(* succeeds.                                                               *)
(***************************************************************************)
LEMMA RingHasPrev ==
  ASSUME NEW nx, NEW M \in SUBSET Pids, Ring(nx, M),
         NEW c \in M, M # {c}
  PROVE  \E q \in M \ {c} : nx[q] = c
<1> SUFFICES ASSUME \A q \in M \ {c} : nx[q] # c
             PROVE  FALSE
  OBVIOUS
<1> DEFINE S == M \ {c}
<1>1. S \in SUBSET M /\ S # {}
  OBVIOUS
<1>2. \A p \in S : nx[p] \in S
  BY DEF Ring
<1>3. S = M
  BY Zenon, <1>1, <1>2 DEF Ring
<1> QED BY <1>3

(***************************************************************************)
(* scheduler_remove: unlinking a node of a ring with more than one node    *)
(* gives the ring without it, and clears its link.                         *)
(***************************************************************************)
LEMMA RemoveKeepsRing ==
  ASSUME NEW nx \in [Pids -> Pids \cup {NULL}],
         NEW M \in SUBSET Pids, Ring(nx, M),
         \A p \in Pids \ M : nx[p] = NULL,
         NEW c \in M, M # {c}
  PROVE  /\ Ring(RemoveLinks(nx, c), M \ {c})
         /\ RemoveLinks(nx, c) \in [Pids -> Pids \cup {NULL}]
         /\ RemoveLinks(nx, c)[c] = NULL
         /\ \A p \in Pids \ M : RemoveLinks(nx, c)[p] = NULL
         /\ nx[c] # c
         /\ \E q \in Pids : nx[q] = c
<1> DEFINE r == PrevOf(nx, c)
           nn == [nx EXCEPT ![r] = nx[c], ![c] = NULL]
           N == M \ {c}
<1>0. PICK q \in M \ {c} : nx[q] = c
  BY RingHasPrev
<1>1. r \in Pids /\ nx[r] = c
  BY <1>0 DEF PrevOf
<1>2. r = q /\ r \in N
  <2>1. r \in M
    BY <1>1 DEF NULL, Pids
  <2> QED BY <1>0, <1>1, <2>1 DEF Ring
<1>3. RemoveLinks(nx, c) = nn
  BY <1>1 DEF RemoveLinks
<1> HIDE DEF r
<1>4. /\ nn[r] = nx[c]
      /\ nn[c] = NULL
      /\ \A p \in Pids \ {r, c} : nn[p] = nx[p]
      /\ nn \in [Pids -> Pids \cup {NULL}]
      /\ \A p \in M : nx[p] \in M
  BY <1>1, <1>2 DEF Ring
<1>5. nx[c] # c
  BY <1>0 DEF Ring
<1>6. \A p \in N \ {r} : nx[p] # c
  BY <1>1, <1>2 DEF Ring
<1>7. \A p \in N : nn[p] \in N
  BY <1>4, <1>5, <1>6
<1>8. \A p, p2 \in N : nn[p] = nn[p2] => p = p2
  BY <1>2, <1>4, <1>6 DEF Ring
<1>9. ASSUME NEW S \in SUBSET N, S # {}, \A p \in S : nn[p] \in S
      PROVE  S = N
  <2>1. CASE r \in S
    <3> DEFINE T == S \cup {c}
    <3>1. nx[c] \in S
      BY <1>4, <1>9, <2>1
    <3>2. \A p \in T : nx[p] \in T
      BY <1>1, <1>4, <1>9, <3>1
    <3>3. T \in SUBSET M /\ T # {}
      OBVIOUS
    <3>4. T = M
      BY Zenon, <3>2, <3>3 DEF Ring
    <3> QED BY <3>4
  <2>2. CASE r \notin S
    <3>1. \A p \in S : nx[p] \in S
      BY <1>4, <1>9, <2>2
    <3>2. S = M
      BY <1>9, <3>1 DEF Ring
    <3> QED BY <3>2
  <2> QED BY <2>1, <2>2
<1> HIDE DEF nn
<1>10. \A p \in Pids \ M : nn[p] = NULL
  BY <1>2, <1>4
<1> QED BY <1>0, <1>3, <1>4, <1>5, <1>7, <1>8, <1>9, <1>10 DEF Ring
-----------------------------------------------------------------------------
(***************************************************************************)
(* The scan of scheduler_yield ends at a runnable process: coming back to  *)
(* the head over processes that are not runnable would close a part of the *)
(* ring, hence the whole ring, which holds the idle process.               *)
(***************************************************************************)
LEMMA ScanFindsRunnable ==
  ASSUME NEW st, NEW nx, NEW M \in SUBSET Pids, Ring(nx, M),
         NEW h \in M, idle \in M, Runnable(st, idle),
         NEW q \in Pids, ScanStopsAt(st, nx, h, q)
  PROVE  Runnable(st, q)
<1> SUFFICES ASSUME ~Runnable(st, q)
             PROVE  FALSE
  OBVIOUS
<1>1. q = h
  BY DEF ScanStopsAt
<1>2. PICK Over \in SUBSET (Pids \ {h, q}) :
        /\ \A p \in Over : ~Runnable(st, p)
        /\ \A p \in Over \cup {h} : nx[p] \in Over \cup {q}
  BY DEF ScanStopsAt
<1> DEFINE S == (Over \cup {h}) \cap M
<1>3. S \in SUBSET M /\ S # {}
  OBVIOUS
<1>4. \A p \in S : nx[p] \in S
  BY <1>1, <1>2 DEF Ring
<1>5. S = M
  BY Zenon, <1>3, <1>4 DEF Ring
<1>6. idle \in Over \cup {h}
  BY <1>5
<1> QED BY <1>1, <1>2, <1>6

(***************************************************************************)
(* What a call of scheduler_yield does, whoever makes it and in whatever   *)
(* state the caller leaves itself: the CPU goes on with a runnable process *)
(* q, the only one RUNNING and the new head; every other process keeps its *)
(* state but for a preempted caller, which becomes READY.                  *)
(***************************************************************************)
LEMMA YieldLemma ==
  ASSUME IInv,
         NEW st \in [Pids -> States],
         \A p \in Pids \ {current_proc} : st[p] = state[p],
         st[current_proc] \in {"RUNNING", "ZOMBIE"},
         current_proc = idle => st[idle] = "RUNNING",
         NEW mode \in SaveModes, NEW flag \in BOOLEAN,
         scheduler_yield(st, mode, flag)
  PROVE  /\ state' \in [Pids -> States]
         /\ run_queue' \in Pids
         /\ current_proc' \in Pids
         /\ IFlag' \in BOOLEAN
         /\ saved' \in [Pids -> SaveModes]
         /\ run_queue' = current_proc'
         /\ \A p \in Pids : state'[p] = "RUNNING" <=> p = current_proc'
         /\ Live' = Live
         /\ Runnable(state', idle)
         /\ \A p \in Pids : state[p] = "ZOMBIE" => state'[p] = "ZOMBIE"
         /\ current_proc' # current_proc =>
              /\ state[current_proc'] = "READY"
              /\ IFlag' = (saved[current_proc'] = "iret" \/ flag)
              /\ saved' = [saved EXCEPT ![current_proc] = mode]
         /\ current_proc' = current_proc =>
              /\ IFlag' = (mode = "iret" \/ flag)
              /\ saved' = saved
<1> USE DEF IInv
<1>1. PICK q \in Pids :
        /\ ScanStopsAt(st, nxt, run_queue, q)
        /\ IF q = current_proc
           THEN /\ state' = st
                /\ IFlag' = Resume(mode, flag)
                /\ UNCHANGED <<run_queue, current_proc, saved>>
           ELSE /\ run_queue' = q
                /\ state' = [p \in Pids |->
                               IF p = q THEN "RUNNING"
                               ELSE IF p = current_proc /\ st[p] = "RUNNING"
                                    THEN "READY" ELSE st[p]]
                /\ current_proc' = q
                /\ saved' = [saved EXCEPT ![current_proc] = mode]
                /\ IFlag' = Resume(saved[q], flag)
  BY DEF scheduler_yield
<1>2. /\ run_queue = current_proc /\ current_proc \in Pids
      /\ state[current_proc] = "RUNNING"
      /\ \A p \in Pids : state[p] = "RUNNING" <=> p = current_proc
      /\ idle \in Pids /\ state[idle] \in {"READY", "RUNNING"}
      /\ state \in [Pids -> States]
      /\ saved \in [Pids -> SaveModes]
  BY ProcMaxAssumption DEF TypeOK, OneRunning, IdleInv, Runnable, idle, Pids
<1>3. Runnable(st, idle)
  BY <1>2 DEF Runnable
<1>4. Ring(nxt, Live) /\ run_queue \in Live /\ idle \in Live /\ Live \in SUBSET Pids
  BY <1>2 DEF RingIsLive, Live
<1>5. Runnable(st, q)
  BY <1>1, <1>3, <1>4, ScanFindsRunnable
<1>6. CASE q = current_proc
  <2>1. /\ state' = st /\ IFlag' = Resume(mode, flag)
        /\ run_queue' = run_queue /\ current_proc' = current_proc
        /\ saved' = saved
    BY <1>1, <1>6
  <2>2. st[current_proc] = "RUNNING"
    BY <1>5, <1>6 DEF Runnable
  <2>3. state' = state
    BY <2>1, <2>2, <1>2
  <2> QED BY <2>1, <2>3, <1>2 DEF Live, Resume, Runnable
<1>7. CASE q # current_proc
  <2>1. /\ run_queue' = q /\ current_proc' = q
        /\ state' = [p \in Pids |->
                       IF p = q THEN "RUNNING"
                       ELSE IF p = current_proc /\ st[p] = "RUNNING"
                            THEN "READY" ELSE st[p]]
        /\ saved' = [saved EXCEPT ![current_proc] = mode]
        /\ IFlag' = Resume(saved[q], flag)
    BY <1>1, <1>7
  <2>2. state[q] = "READY"
    BY <1>2, <1>5, <1>7 DEF Runnable
  <2>3. state' \in [Pids -> States]
    BY <2>1 DEF States
  <2>4. \A p \in Pids : state'[p] = "RUNNING" <=> p = q
    BY <2>1, <1>2
  <2>5. Live' = Live
    <3>1. \A p \in Pids : state'[p] # "UNUSED" <=> state[p] # "UNUSED"
      BY <2>1, <2>2, <1>2
    <3> QED BY <3>1 DEF Live
  <2>6. Runnable(state', idle)
    BY <2>1, <1>2, <1>3 DEF Runnable
  <2>7. \A p \in Pids : state[p] = "ZOMBIE" => state'[p] = "ZOMBIE"
    BY <2>1, <2>2, <1>2
  <2>8. saved' \in [Pids -> SaveModes] /\ IFlag' \in BOOLEAN
    BY <2>1, <1>2 DEF Resume, SaveModes
  <2> QED BY <1>7, <2>1, <2>2, <2>3, <2>4, <2>5, <2>6, <2>7, <2>8 DEF Resume
<1> QED BY <1>6, <1>7
-----------------------------------------------------------------------------
(***************************************************************************)
(* The boot ring, with idle alone, with init and with init and httpd, is a *)
(* ring through the launched processes.                                    *)
(***************************************************************************)
LEMMA BootRing ==
  /\ Ring(IdleLinks, {idle})
  /\ Ring(InitLinks, {idle, 1})
  /\ Ring(HttpdLinks, {idle, 1, 2})
  /\ IdleLinks \in [Pids -> Pids \cup {NULL}]
  /\ InitLinks \in [Pids -> Pids \cup {NULL}]
  /\ HttpdLinks \in [Pids -> Pids \cup {NULL}]
  /\ \A p \in Pids \ {idle} : IdleLinks[p] = NULL
  /\ \A p \in Pids \ {idle, 1} : InitLinks[p] = NULL
  /\ \A p \in Pids \ {idle, 1, 2} : HttpdLinks[p] = NULL
<1>1. idle \in Pids /\ 1 \in Pids /\ 2 \in Pids /\ idle # 1 /\ idle # 2 /\ idle # NULL
  BY ProcMaxAssumption DEF Pids, idle, NULL
<1>2. /\ IdleLinks \in [Pids -> Pids \cup {NULL}]
      /\ IdleLinks[idle] = idle
      /\ \A p \in Pids \ {idle} : IdleLinks[p] = NULL
  BY <1>1 DEF IdleLinks, NoLinks, AddLinks
<1>3. Ring(IdleLinks, {idle})
  BY <1>2 DEF Ring
<1>4. /\ InitLinks \in [Pids -> Pids \cup {NULL}]
      /\ \A p \in Pids \ {idle, 1} : InitLinks[p] = NULL
  BY <1>1, <1>2 DEF InitLinks, AddLinks
<1>5. Ring(InitLinks, {idle} \cup {1})
  BY <1>1, <1>2, <1>3, AddKeepsRing DEF InitLinks
<1>6. Ring(InitLinks, {idle, 1})
  <2>1. {idle} \cup {1} = {idle, 1}
    OBVIOUS
  <2> QED BY <1>5, <2>1
<1>7. /\ HttpdLinks \in [Pids -> Pids \cup {NULL}]
      /\ \A p \in Pids \ {idle, 1, 2} : HttpdLinks[p] = NULL
  BY <1>1, <1>4 DEF HttpdLinks, AddLinks
<1>8. Ring(HttpdLinks, {idle, 1} \cup {2})
  <2>1. {idle, 1} \in SUBSET Pids /\ idle \in {idle, 1} /\ 2 \in Pids \ {idle, 1}
    BY <1>1
  <2> QED BY <1>4, <1>6, <2>1, AddKeepsRing DEF HttpdLinks
<1>9. Ring(HttpdLinks, {idle, 1, 2})
  <2>1. {idle, 1} \cup {2} = {idle, 1, 2}
    OBVIOUS
  <2> QED BY <1>8, <2>1
<1> QED BY <1>2, <1>3, <1>4, <1>6, <1>7, <1>9

(***************************************************************************)
(* What module initialisation leaves satisfies the invariant.              *)
(***************************************************************************)
THEOREM InitEstablishes == Init => IInv
<1> SUFFICES ASSUME Init PROVE IInv
  OBVIOUS
<1>1. PICK launched \in {{}, {1}, {1, 2}} :
        /\ state = [p \in Pids |-> IF p = idle THEN "RUNNING"
                                   ELSE IF p \in launched THEN "READY"
                                   ELSE "UNUSED"]
        /\ nxt = IF 2 \in launched THEN HttpdLinks
                 ELSE IF 1 \in launched THEN InitLinks ELSE IdleLinks
  BY DEF Init
<1>2. /\ ppid = [p \in Pids |-> 0]
      /\ exit_status = [p \in Pids |-> 0]
      /\ run_queue = idle /\ current_proc = idle
      /\ tick_counter = 0 /\ IFlag = TRUE
      /\ saved = [p \in Pids |-> "iret"]
      /\ pc = [p \in Pids |-> IF p = idle THEN "yield" ELSE "user"]
      /\ child_of = [p \in Pids |-> NULL]
  BY DEF Init
<1>3. idle \in Pids /\ 1 \in Pids /\ 2 \in Pids /\ idle # 1 /\ idle # 2 /\ 0 \in Pids
  BY ProcMaxAssumption DEF Pids, idle
<1>4. nxt \in [Pids -> Pids \cup {NULL}]
  BY <1>1, BootRing
<1>5. TypeOK
  BY <1>1, <1>2, <1>3, <1>4, StatusAssumption, SliceAssumption
  DEF TypeOK, States, SaveModes, PCs
<1>6. RingIsLive
  <2>0. Live = {idle} \cup launched
    BY <1>1, <1>3 DEF Live
  <2>1. CASE launched = {}
    <3>1. Live = {idle} /\ nxt = IdleLinks
      BY <1>1, <2>0, <2>1
    <3> QED BY <3>1, BootRing DEF RingIsLive
  <2>2. CASE launched = {1}
    <3>1. Live = {idle, 1} /\ nxt = InitLinks
      BY <1>1, <2>0, <2>2
    <3> QED BY <3>1, BootRing DEF RingIsLive
  <2>3. CASE launched = {1, 2}
    <3>1. Live = {idle, 1, 2} /\ nxt = HttpdLinks
      BY <1>1, <2>0, <2>3
    <3> QED BY <3>1, BootRing DEF RingIsLive
  <2> QED BY <1>1, <2>1, <2>2, <2>3
<1>7. OneRunning
  BY <1>1, <1>2, <1>3 DEF OneRunning
<1>8. IdleInv
  BY <1>1, <1>2, <1>3 DEF IdleInv, Runnable, Pids, idle
<1>9. WaiterKeepsChild /\ UserRunsUnmasked
  BY <1>1, <1>2, <1>3 DEF WaiterKeepsChild, UserRunsUnmasked, Live
<1> QED BY <1>5, <1>6, <1>7, <1>8, <1>9 DEF IInv

(***************************************************************************)
(* The ring is a matter of the links and of which slots are in use.        *)
(***************************************************************************)
LEMMA RingFrame ==
  ASSUME RingIsLive, nxt' = nxt, Live' = Live
  PROVE  RingIsLive'
BY DEF RingIsLive, Ring

(***************************************************************************)
(* A step that calls scheduler_yield and else moves at most the caller's   *)
(* program counter keeps the invariant, provided a caller left in user     *)
(* mode is the one suspended under an interrupt.                           *)
(***************************************************************************)
LEMMA YieldKeepsIInv ==
  ASSUME IInv,
         NEW st \in [Pids -> States],
         \A p \in Pids \ {current_proc} : st[p] = state[p],
         st[current_proc] \in {"RUNNING", "ZOMBIE"},
         current_proc = idle => st[idle] = "RUNNING",
         NEW mode \in SaveModes, NEW flag \in BOOLEAN,
         scheduler_yield(st, mode, flag),
         NEW l \in PCs,
         pc' = [pc EXCEPT ![current_proc] = l],
         l = "waitpid" => pc[current_proc] = "waitpid",
         current_proc = idle => l \in {"yield", "hlt"},
         l = "user" => mode = "iret",
         exit_status' \in [Pids -> Status],
         tick_counter' \in 0 .. SCHED_TICKS_PER_SLICE - 1,
         UNCHANGED <<ppid, nxt, child_of>>
  PROVE  IInv'
<1>0. /\ TypeOK /\ RingIsLive /\ OneRunning /\ IdleInv /\ WaiterKeepsChild
      /\ UserRunsUnmasked
  BY DEF IInv
<1>1. /\ state' \in [Pids -> States]
      /\ run_queue' \in Pids
      /\ current_proc' \in Pids
      /\ IFlag' \in BOOLEAN
      /\ saved' \in [Pids -> SaveModes]
      /\ run_queue' = current_proc'
      /\ \A p \in Pids : state'[p] = "RUNNING" <=> p = current_proc'
      /\ Live' = Live
      /\ Runnable(state', idle)
      /\ current_proc' # current_proc =>
              /\ state[current_proc'] = "READY"
              /\ IFlag' = (saved[current_proc'] = "iret" \/ flag)
              /\ saved' = [saved EXCEPT ![current_proc] = mode]
      /\ current_proc' = current_proc =>
              /\ IFlag' = (mode = "iret" \/ flag)
              /\ saved' = saved
  BY YieldLemma
<1>2. /\ current_proc \in Pids /\ pc \in [Pids -> PCs] /\ idle \in Pids
      /\ saved \in [Pids -> SaveModes]
  BY <1>0, ProcMaxAssumption DEF TypeOK, idle, Pids
<1>3. TypeOK'
  BY <1>0, <1>1, <1>2 DEF TypeOK
<1>4. RingIsLive'
  BY <1>0, <1>1, RingFrame
<1>5. OneRunning'
  BY <1>1 DEF OneRunning
<1>6. IdleInv'
  BY <1>0, <1>1, <1>2 DEF IdleInv
<1>7. WaiterKeepsChild'
  BY <1>0, <1>1, <1>2 DEF WaiterKeepsChild
<1>8. UserRunsUnmasked'
  <2>1. CASE current_proc' = current_proc
    <3>1. pc'[current_proc'] = "user" => IFlag'
      BY Zenon, <1>1, <1>2, <2>1
    <3>2. \A p \in Live \ {current_proc'} : pc'[p] = "user" => saved'[p] = "iret"
      <4>1. \A p \in Live \ {current_proc} : pc[p] = "user" => saved[p] = "iret"
        BY Zenon, <1>0 DEF UserRunsUnmasked
      <4>2. \A p \in Live : p \in Pids
        BY Zenon DEF Live
      <4>3. \A p \in Pids : p # current_proc => pc'[p] = pc[p]
        BY Zenon, <1>2
      <4> QED BY Zenon, <1>1, <2>1, <4>1, <4>2, <4>3
    <3> QED BY <1>1, <3>1, <3>2 DEF UserRunsUnmasked
  <2>2. CASE current_proc' # current_proc
    <3>1. current_proc' \in Live
      BY <1>1, <2>2 DEF Live
    <3>2. pc'[current_proc'] = "user" => IFlag'
      BY Zenon, <1>0, <1>1, <1>2, <2>2, <3>1 DEF UserRunsUnmasked
    <3>3. \A p \in Live \ {current_proc'} : pc'[p] = "user" => saved'[p] = "iret"
      BY <1>0, <1>1, <1>2, <2>2 DEF UserRunsUnmasked, Live
    <3> QED BY <1>1, <3>2, <3>3 DEF UserRunsUnmasked
  <2> QED BY <2>1, <2>2
<1> QED BY <1>3, <1>4, <1>5, <1>6, <1>7, <1>8 DEF IInv
-----------------------------------------------------------------------------
(***************************************************************************)
(* Every step of the kernel preserves the invariant.                       *)
(***************************************************************************)
THEOREM NextPreserves == IInv /\ [Next]_vars => IInv'
<1> SUFFICES ASSUME IInv, [Next]_vars PROVE IInv'
  OBVIOUS
<1>0. /\ TypeOK /\ RingIsLive /\ OneRunning /\ IdleInv /\ WaiterKeepsChild
      /\ UserRunsUnmasked
  BY DEF IInv
<1>t. /\ state \in [Pids -> States] /\ ppid \in [Pids -> Pids]
      /\ exit_status \in [Pids -> Status]
      /\ nxt \in [Pids -> Pids \cup {NULL}]
      /\ run_queue \in Pids /\ current_proc \in Pids
      /\ tick_counter \in 0 .. SCHED_TICKS_PER_SLICE - 1
      /\ IFlag \in BOOLEAN
      /\ saved \in [Pids -> SaveModes]
      /\ pc \in [Pids -> PCs]
      /\ child_of \in [Pids -> Pids \cup {NULL}]
  BY <1>0 DEF TypeOK
<1>c. /\ idle \in Pids /\ NULL \notin Pids
      /\ state[current_proc] = "RUNNING" /\ run_queue = current_proc
      /\ current_proc \in Live /\ idle \in Live /\ Live \in SUBSET Pids
  BY <1>0, <1>t, ProcMaxAssumption
  DEF OneRunning, IdleInv, Runnable, Live, Pids, idle, NULL
<1>1. ASSUME NEW c \in Pids, process_fork(c) PROVE IInv'
  <2>0. c \notin Live /\ c # current_proc /\ c # idle /\ state[c] = "UNUSED"
    BY <1>1, <1>c DEF process_fork, IsFree, Live
  <2>1. /\ state' = [state EXCEPT ![c] = "READY"]
        /\ ppid' = [ppid EXCEPT ![c] = current_proc]
        /\ exit_status' = [exit_status EXCEPT ![c] = 0]
        /\ nxt' = AddLinks([nxt EXCEPT ![c] = NULL], run_queue, c)
        /\ run_queue' = run_queue
        /\ saved' = [saved EXCEPT ![c] = "iret"]
        /\ pc' = [pc EXCEPT ![c] = "user"]
        /\ child_of' = [child_of EXCEPT ![c] = NULL]
        /\ UNCHANGED <<current_proc, tick_counter, IFlag>>
    BY <1>1, <1>t, <1>c DEF process_fork
  <2>2. [nxt EXCEPT ![c] = NULL] = nxt
    BY <1>0, <1>t, <2>0 DEF RingIsLive
  <2>3. nxt' = AddLinks(nxt, run_queue, c)
    BY <2>1, <2>2
  <2>4. Live' = Live \cup {c}
    BY <1>t, <2>1 DEF Live
  <2>5. RingIsLive'
    <3>1. Ring(AddLinks(nxt, run_queue, c), Live \cup {c})
      BY <1>0, <1>t, <1>c, <2>0, AddKeepsRing DEF RingIsLive
    <3>2. \A p \in Pids \ (Live \cup {c}) : AddLinks(nxt, run_queue, c)[p] = NULL
      BY <1>0, <1>t, <1>c DEF RingIsLive, AddLinks
    <3> QED BY <2>3, <2>4, <3>1, <3>2 DEF RingIsLive
  <2>6. TypeOK'
    <3>1. nxt' \in [Pids -> Pids \cup {NULL}]
      BY <1>t, <2>3 DEF AddLinks
    <3> QED BY Zenon, <1>t, <2>1, <3>1, StatusAssumption
            DEF TypeOK, States, SaveModes, PCs
  <2>7. OneRunning'
    BY <1>0, <1>t, <2>0, <2>1 DEF OneRunning
  <2>8. IdleInv'
    BY <1>0, <1>t, <2>0, <2>1 DEF IdleInv, Runnable
  <2>9. WaiterKeepsChild'
    BY <1>0, <1>t, <2>0, <2>1, <2>4 DEF WaiterKeepsChild
  <2>10. UserRunsUnmasked'
    BY <1>0, <1>t, <2>0, <2>1, <2>4 DEF UserRunsUnmasked
  <2> QED BY <2>5, <2>6, <2>7, <2>8, <2>9, <2>10 DEF IInv
<1>2. ASSUME NEW c \in Pids, process_fork_oom(c) PROVE IInv'
  <2>0. c \notin Live /\ c # current_proc /\ c # idle
    BY <1>2, <1>c DEF process_fork_oom, IsFree, Live
  <2>1. /\ ppid' = [ppid EXCEPT ![c] = current_proc]
        /\ exit_status' = [exit_status EXCEPT ![c] = 0]
        /\ nxt' = [nxt EXCEPT ![c] = NULL]
        /\ UNCHANGED <<state, run_queue, current_proc, tick_counter, IFlag,
                       saved, pc, child_of>>
    BY <1>2 DEF process_fork_oom
  <2>2. nxt' = nxt /\ Live' = Live
    BY <1>0, <1>t, <2>0, <2>1 DEF RingIsLive, Live
  <2>3. TypeOK'
    BY <1>t, <2>1, <2>2, StatusAssumption DEF TypeOK
  <2>4. RingIsLive'
    BY <1>0, <2>2, RingFrame
  <2>5. OneRunning' /\ IdleInv' /\ UserRunsUnmasked'
    BY <1>0, <1>t, <2>0, <2>1, <2>2 DEF OneRunning, IdleInv, Runnable, UserRunsUnmasked
  <2>6. WaiterKeepsChild'
    BY <1>0, <1>t, <2>0, <2>1, <2>2 DEF WaiterKeepsChild
  <2> QED BY <2>3, <2>4, <2>5, <2>6 DEF IInv
<1>3. ASSUME NEW s \in Status, sys_exit(s) PROVE IInv'
  <2> DEFINE st == [state EXCEPT ![current_proc] = "ZOMBIE"]
  <2>1. /\ current_proc # idle
        /\ exit_status' = [exit_status EXCEPT ![current_proc] = s]
        /\ pc' = [pc EXCEPT ![current_proc] = "dead"]
        /\ scheduler_yield(st, "call", IFlag)
        /\ UNCHANGED <<ppid, nxt, tick_counter, child_of>>
    BY <1>3 DEF sys_exit, InUser
  <2>2. /\ st \in [Pids -> States]
        /\ \A p \in Pids \ {current_proc} : st[p] = state[p]
        /\ st[current_proc] = "ZOMBIE"
    BY <1>t DEF States
  <2>3. exit_status' \in [Pids -> Status]
    BY <1>t, <2>1
  <2> HIDE DEF st
  <2> QED BY <1>t, <2>1, <2>2, <2>3, YieldKeepsIInv DEF SaveModes, PCs
<1>4. ASSUME NEW c \in Pids, process_waitpid(c) PROVE IInv'
  <2>1. /\ current_proc # idle /\ c \in Live /\ ppid[c] = current_proc
        /\ pc[current_proc] = "user"
        /\ pc' = [pc EXCEPT ![current_proc] = "waitpid"]
        /\ child_of' = [child_of EXCEPT ![current_proc] = c]
        /\ UNCHANGED <<state, ppid, exit_status, nxt, run_queue, current_proc,
                       tick_counter, IFlag, saved>>
    BY <1>4 DEF process_waitpid, InUser, Live
  <2>2. c # current_proc
    BY <1>0, <1>t, <2>1 DEF IdleInv
  <2>3. Live' = Live
    BY <2>1 DEF Live
  <2>4. TypeOK'
    BY <1>t, <2>1 DEF TypeOK, PCs
  <2>5. RingIsLive'
    BY <1>0, <2>1, <2>3, RingFrame
  <2>6. OneRunning' /\ IdleInv'
    BY <1>0, <1>t, <2>1 DEF OneRunning, IdleInv, Runnable
  <2>7. WaiterKeepsChild'
    BY <1>0, <1>t, <2>1, <2>2, <2>3 DEF WaiterKeepsChild
  <2>8. UserRunsUnmasked'
    BY <1>0, <1>t, <2>1, <2>3 DEF UserRunsUnmasked
  <2> QED BY <2>4, <2>5, <2>6, <2>7, <2>8 DEF IInv
<1>5. ASSUME waitpid_spin PROVE IInv'
  <2>1. /\ pc[current_proc] = "waitpid"
        /\ scheduler_yield(state, "call", IFlag)
        /\ UNCHANGED <<ppid, exit_status, nxt, tick_counter, pc, child_of>>
    BY Zenon, <1>5 DEF waitpid_spin
  <2>2. pc' = [pc EXCEPT ![current_proc] = "waitpid"] /\ current_proc # idle
    BY <1>0, <1>t, <2>1 DEF IdleInv
  <2> QED BY <1>t, <1>c, <2>1, <2>2, YieldKeepsIInv DEF SaveModes, PCs
<1>6. ASSUME waitpid_reap PROVE IInv'
  <2> DEFINE c == child_of[current_proc]
  <2>1. /\ pc[current_proc] = "waitpid" /\ state[c] = "ZOMBIE"
        /\ nxt' = RemoveLinks(nxt, c)
        /\ run_queue' = RemoveHead(nxt, run_queue, c)
        /\ state' = [state EXCEPT ![c] = "UNUSED"]
        /\ pc' = [pc EXCEPT ![current_proc] = "user"]
        /\ child_of' = [child_of EXCEPT ![current_proc] = NULL]
        /\ IFlag' = TRUE
        /\ UNCHANGED <<ppid, exit_status, current_proc, tick_counter, saved>>
    BY <1>6 DEF waitpid_reap
  <2>2. c \in Live /\ ppid[c] = current_proc /\ c # current_proc
    BY <1>0, <1>t, <2>1 DEF WaiterKeepsChild
  <2> HIDE DEF c
  <2>3. c # idle /\ c \in Pids /\ current_proc # idle
    BY Zenon, <1>0, <1>c, <2>1, <2>2 DEF IdleInv, Runnable
  <2>4. Live' = Live \ {c}
    BY <1>t, <2>1, <2>3 DEF Live
  <2>5. /\ Ring(RemoveLinks(nxt, c), Live \ {c})
        /\ RemoveLinks(nxt, c) \in [Pids -> Pids \cup {NULL}]
        /\ RemoveLinks(nxt, c)[c] = NULL
        /\ \A p \in Pids \ Live : RemoveLinks(nxt, c)[p] = NULL
        /\ nxt[c] # c
        /\ \E q \in Pids : nxt[q] = c
    <3>1. Live # {c}
      BY <1>c, <2>3
    <3>2. Ring(nxt, Live) /\ \A p \in Pids \ Live : nxt[p] = NULL
      BY <1>0 DEF RingIsLive
    <3>3. nxt \in [Pids -> Pids \cup {NULL}] /\ Live \in SUBSET Pids /\ c \in Live
      BY <1>t, <1>c, <2>2
    <3> QED BY <3>1, <3>2, <3>3, RemoveKeepsRing
  <2>6. run_queue' = run_queue
    BY Zenon, <1>c, <2>1, <2>2, <2>5 DEF RemoveHead
  <2>7. RingIsLive'
    BY <2>1, <2>4, <2>5 DEF RingIsLive
  <2>8. TypeOK'
    BY Zenon, <1>t, <2>1, <2>5, <2>6 DEF TypeOK, States, PCs
  <2>9. OneRunning'
    BY <1>0, <1>t, <2>1, <2>2, <2>6 DEF OneRunning
  <2>10. IdleInv'
    BY <1>0, <1>t, <2>1, <2>3 DEF IdleInv, Runnable
  <2>11. WaiterKeepsChild'
    BY <1>0, <1>t, <2>1, <2>2, <2>4 DEF WaiterKeepsChild
  <2>12. UserRunsUnmasked'
    BY <1>0, <1>t, <2>1, <2>4 DEF UserRunsUnmasked
  <2> QED BY <2>7, <2>8, <2>9, <2>10, <2>11, <2>12 DEF IInv
<1>7. ASSUME tty_read PROVE IInv'
  <2>1. /\ current_proc # idle
        /\ pc' = [pc EXCEPT ![current_proc] = "read"]
        /\ UNCHANGED <<state, ppid, exit_status, nxt, run_queue, current_proc,
                       tick_counter, IFlag, saved, child_of>>
    BY <1>7 DEF tty_read, InUser
  <2>2. Live' = Live
    BY <2>1 DEF Live
  <2>3. TypeOK'
    BY <1>t, <2>1 DEF TypeOK, PCs
  <2>4. RingIsLive'
    BY <1>0, <2>1, <2>2, RingFrame
  <2>5. OneRunning' /\ IdleInv' /\ WaiterKeepsChild' /\ UserRunsUnmasked'
    <3>1. /\ pc'[current_proc] = "read"
          /\ \A p \in Pids : p # current_proc => pc'[p] = pc[p]
      BY <1>t, <2>1 DEF TypeOK
    <3>2. OneRunning' /\ IdleInv'
      <4>1. pc'[idle] = pc[idle]
        BY Zenon, <1>c, <2>1, <2>2, <3>1
      <4>2. OneRunning'
        BY Zenon, <1>0, <2>1 DEF OneRunning
      <4>3. IdleInv'
        BY Zenon, <1>0, <2>1, <4>1 DEF IdleInv, Runnable
      <4> QED BY <4>2, <4>3
    <3>3. WaiterKeepsChild'
      BY Zenon, <1>0, <2>1, <2>2, <3>1 DEF WaiterKeepsChild
    <3>4. UserRunsUnmasked'
      <4>1. \A p \in Live : p \in Pids
        BY Zenon DEF Live
      <4>2. /\ pc[current_proc] = "user" => IFlag
            /\ \A p \in Live \ {current_proc} : pc[p] = "user" => saved[p] = "iret"
        BY Zenon, <1>0 DEF UserRunsUnmasked
      <4>3. pc'[current_proc'] = "user" => IFlag'
        BY Zenon, <2>1, <3>1
      <4>4. \A p \in Live' \ {current_proc'} : pc'[p] = "user" => saved'[p] = "iret"
        BY Zenon, <2>1, <2>2, <3>1, <4>1, <4>2
      <4> QED BY Zenon, <4>3, <4>4 DEF UserRunsUnmasked
    <3> QED BY <3>2, <3>3, <3>4
  <2> QED BY <2>3, <2>4, <2>5 DEF IInv
<1>8. ASSUME tty_read_spin PROVE IInv'
  <2>1. /\ pc[current_proc] = "read"
        /\ scheduler_yield(state, "call", IFlag)
        /\ UNCHANGED <<ppid, exit_status, nxt, tick_counter, pc, child_of>>
    BY <1>8 DEF tty_read_spin
  <2>2. pc' = [pc EXCEPT ![current_proc] = "read"] /\ current_proc # idle
    BY <1>0, <1>t, <2>1 DEF IdleInv
  <2> QED BY <1>t, <1>c, <2>1, <2>2, YieldKeepsIInv DEF SaveModes, PCs
<1>9. ASSUME tty_read_return PROVE IInv'
  <2>1. /\ pc[current_proc] = "read"
        /\ pc' = [pc EXCEPT ![current_proc] = "user"]
        /\ IFlag' = TRUE
        /\ UNCHANGED <<state, ppid, exit_status, nxt, run_queue, current_proc,
                       tick_counter, saved, child_of>>
    BY <1>9 DEF tty_read_return
  <2>2. Live' = Live /\ current_proc # idle
    BY Zenon, <1>0, <2>1 DEF Live, IdleInv
  <2>3. TypeOK'
    BY <1>t, <2>1 DEF TypeOK, PCs
  <2>4. RingIsLive'
    BY <1>0, <2>1, <2>2, RingFrame
  <2>5. OneRunning' /\ IdleInv' /\ WaiterKeepsChild' /\ UserRunsUnmasked'
    <3>1. /\ pc'[current_proc] = "user"
          /\ \A p \in Pids : p # current_proc => pc'[p] = pc[p]
      BY <1>t, <2>1 DEF TypeOK
    <3>2. OneRunning' /\ IdleInv'
      <4>1. pc'[idle] = pc[idle]
        BY Zenon, <1>c, <2>1, <2>2, <3>1
      <4>2. OneRunning'
        BY Zenon, <1>0, <2>1 DEF OneRunning
      <4>3. IdleInv'
        BY Zenon, <1>0, <2>1, <4>1 DEF IdleInv, Runnable
      <4> QED BY <4>2, <4>3
    <3>3. WaiterKeepsChild'
      BY Zenon, <1>0, <2>1, <2>2, <3>1 DEF WaiterKeepsChild
    <3>4. UserRunsUnmasked'
      <4>1. \A p \in Live : p \in Pids
        BY Zenon DEF Live
      <4>2. /\ pc[current_proc] = "user" => IFlag
            /\ \A p \in Live \ {current_proc} : pc[p] = "user" => saved[p] = "iret"
        BY Zenon, <1>0 DEF UserRunsUnmasked
      <4>3. pc'[current_proc'] = "user" => IFlag'
        BY Zenon, <2>1, <3>1
      <4>4. \A p \in Live' \ {current_proc'} : pc'[p] = "user" => saved'[p] = "iret"
        BY Zenon, <2>1, <2>2, <3>1, <4>1, <4>2
      <4> QED BY Zenon, <4>3, <4>4 DEF UserRunsUnmasked
    <3> QED BY <3>2, <3>3, <3>4
  <2> QED BY <2>3, <2>4, <2>5 DEF IInv
<1>10. ASSUME idle_yield PROVE IInv'
  <2>1. /\ current_proc = idle
        /\ pc' = [pc EXCEPT ![current_proc] = "hlt"]
        /\ scheduler_yield(state, "call", IFlag)
        /\ UNCHANGED <<ppid, exit_status, nxt, tick_counter, child_of>>
    BY <1>10 DEF idle_yield
  <2> QED BY Zenon, <1>t, <1>c, <2>1, YieldKeepsIInv DEF SaveModes, PCs
<1>11. ASSUME timer_preempt PROVE IInv'
  <2>1. /\ current_proc # idle
        /\ tick_counter' = 0
        /\ scheduler_yield(state, "iret", FALSE)
        /\ UNCHANGED <<ppid, exit_status, nxt, pc, child_of>>
    BY Zenon, <1>11 DEF timer_preempt
  <2> DEFINE l == pc[current_proc]
  <2>2. l \in PCs /\ pc' = [pc EXCEPT ![current_proc] = l]
    BY <1>t, <2>1
  <2>3. tick_counter' \in 0 .. SCHED_TICKS_PER_SLICE - 1
    BY <2>1, SliceAssumption
  <2>4. l = "waitpid" => pc[current_proc] = "waitpid"
    OBVIOUS
  <2> HIDE DEF l
  <2> QED BY Zenon, <1>t, <1>c, <2>1, <2>2, <2>3, <2>4, YieldKeepsIInv DEF SaveModes
<1>12. ASSUME timer_tick \/ device_irq PROVE IInv'
  <2>1. /\ pc' = WakeIdle
        /\ UNCHANGED <<state, ppid, exit_status, nxt, run_queue, current_proc,
                       IFlag, saved, child_of>>
    BY <1>12 DEF timer_tick, device_irq
  <2>2. tick_counter' \in 0 .. SCHED_TICKS_PER_SLICE - 1
    <3>1. CASE timer_tick
      <4>1. \/ tick_counter' = 0
            \/ tick_counter' = tick_counter + 1 /\ tick_counter + 1 < SCHED_TICKS_PER_SLICE
        BY Zenon, <3>1 DEF timer_tick
      <4> QED BY <1>t, <4>1, SliceAssumption
    <3>2. CASE device_irq
      BY Zenon, <1>t, <3>2 DEF device_irq
    <3> QED BY Zenon, <1>12, <3>1, <3>2
  <2>3. \A p \in Pids : pc'[p] = pc[p] \/ (pc[p] = "hlt" /\ pc'[p] = "yield")
    BY <1>t, <2>1 DEF WakeIdle
  <2>4. pc' \in [Pids -> PCs]
    BY <1>t, <2>1 DEF WakeIdle, PCs
  <2>5. Live' = Live
    BY <2>1 DEF Live
  <2>6. TypeOK'
    BY <1>t, <2>1, <2>2, <2>4 DEF TypeOK
  <2>7. RingIsLive'
    BY <1>0, <2>1, <2>5, RingFrame
  <2>8. OneRunning' /\ IdleInv' /\ WaiterKeepsChild' /\ UserRunsUnmasked'
    <3>1. OneRunning'
      BY Zenon, <1>0, <2>1 DEF OneRunning
    <3>2. IdleInv'
      <4>1. idle \in Pids
        BY ProcMaxAssumption DEF idle, Pids
      <4> QED BY Zenon, <1>0, <2>1, <2>3, <4>1 DEF IdleInv, Runnable
    <3>3. WaiterKeepsChild'
      BY Zenon, <1>0, <2>1, <2>3, <2>5 DEF WaiterKeepsChild
    <3>4. \A p \in Pids : pc'[p] = "user" => pc[p] = "user"
      BY Zenon, <2>3
    <3>5. Live \subseteq Pids
      BY Zenon DEF Live
    <3>6. UserRunsUnmasked'
      BY Zenon, <1>0, <1>c, <2>1, <2>5, <3>4, <3>5 DEF UserRunsUnmasked
    <3> QED BY Zenon, <3>1, <3>2, <3>3, <3>6
  <2> QED BY <2>6, <2>7, <2>8 DEF IInv
<1>13. ASSUME UNCHANGED vars PROVE IInv'
  <2>1. Live' = Live
    BY <1>13 DEF vars, Live
  <2> QED BY Zenon, <1>0, <1>13, <2>1, RingFrame
          DEF vars, IInv, TypeOK, OneRunning, IdleInv, Runnable,
              WaiterKeepsChild, UserRunsUnmasked
<1> QED
  BY <1>1, <1>2, <1>3, <1>4, <1>5, <1>6, <1>7, <1>8, <1>9, <1>10, <1>11, <1>12,
     <1>13 DEF Next, Syscall, KernelStep, TimerIRQ
-----------------------------------------------------------------------------
(***************************************************************************)
(* The inductive invariant holds in every reachable state.                 *)
(***************************************************************************)
THEOREM Invariance == Spec => []IInv
BY InitEstablishes, NextPreserves, PTL DEF Spec

(***************************************************************************)
(* Type correctness of the process table, the run queue and the CPU state. *)
(***************************************************************************)
THEOREM TypeCorrect == Spec => []TypeOK
<1>1. IInv => TypeOK
  BY DEF IInv
<1> QED BY <1>1, Invariance, PTL

(***************************************************************************)
(* The run queue is always one cycle through exactly the slots in use, for *)
(* every table size: scheduler_add and scheduler_remove, called as fork    *)
(* and waitpid call them, never lose or leave behind a process.            *)
(***************************************************************************)
THEOREM RunQueueIsRing == Spec => []RingIsLive
<1>1. IInv => RingIsLive
  BY DEF IInv
<1> QED BY <1>1, Invariance, PTL

(***************************************************************************)
(* current_proc, the head of the run queue and the one RUNNING process     *)
(* always agree.                                                           *)
(***************************************************************************)
THEOREM CurrentIsRunning == Spec => []OneRunning
<1>1. IInv => OneRunning
  BY DEF IInv
<1> QED BY <1>1, Invariance, PTL

(***************************************************************************)
(* A waiter's child stays its child and in use until it reaps it, and user *)
(* code never runs with interrupts masked.                                 *)
(***************************************************************************)
THEOREM WaitersAndMasking == Spec => [](WaiterKeepsChild /\ UserRunsUnmasked)
<1>1. IInv => WaiterKeepsChild /\ UserRunsUnmasked
  BY DEF IInv
<1> QED BY <1>1, Invariance, PTL

(***************************************************************************)
(* A call of scheduler_yield from any of its call sites changes the        *)
(* current process only to a READY one and leaves every ZOMBIE a ZOMBIE.   *)
(***************************************************************************)
LEMMA YieldSites ==
  ASSUME IInv,
         \/ \E s \in Status : sys_exit(s)
         \/ waitpid_spin \/ tty_read_spin \/ idle_yield \/ timer_preempt
  PROVE  /\ current_proc' # current_proc => state[current_proc'] = "READY"
         /\ \A p \in Pids : state[p] = "ZOMBIE" => state'[p] = "ZOMBIE"
<1>1. /\ state \in [Pids -> States] /\ current_proc \in Pids /\ IFlag \in BOOLEAN
      /\ state[current_proc] = "RUNNING"
  BY DEF IInv, TypeOK, OneRunning
<1>2. ASSUME NEW s \in Status, sys_exit(s)
      PROVE  /\ current_proc' # current_proc => state[current_proc'] = "READY"
             /\ \A p \in Pids : state[p] = "ZOMBIE" => state'[p] = "ZOMBIE"
  <2> DEFINE st == [state EXCEPT ![current_proc] = "ZOMBIE"]
  <2>1. current_proc # idle /\ scheduler_yield(st, "call", IFlag)
    BY <1>2 DEF sys_exit, InUser
  <2>2. /\ st \in [Pids -> States]
        /\ \A p \in Pids \ {current_proc} : st[p] = state[p]
        /\ st[current_proc] = "ZOMBIE"
    BY <1>1 DEF States
  <2> HIDE DEF st
  <2> QED BY Zenon, <1>1, <2>1, <2>2, YieldLemma DEF SaveModes
<1>3. ASSUME NEW mode \in SaveModes, NEW flag \in BOOLEAN,
             scheduler_yield(state, mode, flag)
      PROVE  /\ current_proc' # current_proc => state[current_proc'] = "READY"
             /\ \A p \in Pids : state[p] = "ZOMBIE" => state'[p] = "ZOMBIE"
  BY Zenon, <1>1, <1>3, YieldLemma
<1>4. waitpid_spin \/ tty_read_spin \/ idle_yield =>
        scheduler_yield(state, "call", IFlag)
  BY Zenon DEF waitpid_spin, tty_read_spin, idle_yield
<1>5. timer_preempt => scheduler_yield(state, "iret", FALSE)
  BY Zenon DEF timer_preempt
<1> QED BY Zenon, <1>1, <1>2, <1>3, <1>4, <1>5 DEF SaveModes

(***************************************************************************)
(* The scheduler switches only to READY processes, so an exited process    *)
(* never runs again.                                                       *)
(***************************************************************************)
THEOREM OnlyReadyScheduled == Spec => SwitchesToReady
<1> DEFINE A == current_proc' # current_proc => state[current_proc'] = "READY"
<1>1. ASSUME IInv, [Next]_vars PROVE [A]_vars
  <2>1. CASE Next
    <3>1. CASE \/ \E s \in Status : sys_exit(s)
               \/ waitpid_spin \/ tty_read_spin \/ idle_yield \/ timer_preempt
      BY Zenon, <1>1, <3>1, YieldSites
    <3>2. CASE \/ \E c \in Pids : process_fork(c) \/ process_fork_oom(c)
                                  \/ process_waitpid(c)
               \/ tty_read \/ waitpid_reap \/ tty_read_return \/ timer_tick
               \/ device_irq
      <4>1. current_proc' = current_proc
        BY Zenon, <3>2 DEF process_fork, process_fork_oom, process_waitpid, tty_read,
                    waitpid_reap, tty_read_return, timer_tick, device_irq
      <4> QED BY <4>1
    <3> QED BY <2>1, <3>1, <3>2 DEF Next, Syscall, KernelStep, TimerIRQ
  <2> QED BY <1>1, <2>1
<1> QED BY <1>1, Invariance, PTL DEF Spec, SwitchesToReady

(***************************************************************************)
(* The exit status of a ZOMBIE is kept until the process recorded as its   *)
(* parent, waiting for it, frees the slot.                                 *)
(***************************************************************************)
THEOREM ExitStatusKept == Spec => ZombieKeptForParent
<1> DEFINE K(p) == \/ state'[p] = "ZOMBIE" /\ exit_status'[p] = exit_status[p]
                   \/ state'[p] = "UNUSED" /\ ppid[p] = current_proc
                      /\ child_of[current_proc] = p
           A == \A p \in Pids : state[p] = "ZOMBIE" => K(p)
<1>1. ASSUME IInv, [Next]_vars PROVE [A]_vars
  <2>0. /\ state \in [Pids -> States] /\ current_proc \in Pids
        /\ exit_status \in [Pids -> Status]
        /\ state[current_proc] = "RUNNING" /\ WaiterKeepsChild
    BY <1>1 DEF IInv, TypeOK, OneRunning
  <2>1. CASE Next
    <3> SUFFICES ASSUME NEW p \in Pids, state[p] = "ZOMBIE" PROVE K(p)
      BY Zenon
    <3>0. p # current_proc
      BY <2>0
    <3>1. CASE \/ \E s \in Status : sys_exit(s)
               \/ waitpid_spin \/ tty_read_spin \/ idle_yield \/ timer_preempt
      <4>1. state'[p] = "ZOMBIE"
        BY <1>1, <3>1, YieldSites
      <4>2. exit_status'[p] = exit_status[p]
        BY Zenon, <2>0, <3>0, <3>1
        DEF sys_exit, waitpid_spin, tty_read_spin, idle_yield, timer_preempt
      <4> QED BY Zenon, <4>1, <4>2
    <3>2. CASE \E c \in Pids : process_fork(c) \/ process_fork_oom(c)
      BY Zenon, <2>0, <3>2 DEF process_fork, process_fork_oom, IsFree
    <3>3. CASE waitpid_reap
      BY Zenon, <2>0, <3>3 DEF waitpid_reap, WaiterKeepsChild
    <3>4. CASE \/ \E c \in Pids : process_waitpid(c)
               \/ tty_read \/ tty_read_return \/ timer_tick \/ device_irq
      <4>1. state' = state /\ exit_status' = exit_status
        BY Zenon, <3>4 DEF process_waitpid, tty_read, tty_read_return, timer_tick, device_irq
      <4> QED BY <4>1
    <3> QED BY Zenon, <2>1, <3>1, <3>2, <3>3, <3>4 DEF Next, Syscall, KernelStep, TimerIRQ
  <2> QED BY Zenon, <1>1, <2>1
<1> QED BY <1>1, Invariance, PTL DEF Spec, ZombieKeptForParent
-----------------------------------------------------------------------------
(***************************************************************************)
(* What OneForeground rests on: the processes init started, directly or    *)
(* not, form a chain.  A live child has a live parent that waits for it;   *)
(* the others are the boot processes, of which httpd (pid 2) stays in its  *)
(* program; one process of the chain has no child; a reader of the         *)
(* terminal is a shell at its prompt, and who exits waits for nobody.      *)
(***************************************************************************)
Waits(p) == at[p] = "wait" \/ pc[p] = "waitpid"

Last(p) ==
  /\ p \in Live \ {idle} /\ (ppid[p] # idle \/ p = 1)
  /\ \A c \in Live : ppid[c] # p

Places == {"fork", "wait", "child", "failed", "prompt", "line", "serve"}

ProgramTypes == at \in [Pids -> Places] /\ pid \in [Pids -> Pids]

HasParent(c) ==
  ppid[c] # idle => ppid[c] \in Live /\ pid[ppid[c]] = c /\ Waits(ppid[c])

IsRoot(c) == ppid[c] = idle => c \in {idle, 1, 2} /\ (c = 2 => at[c] = "serve")

AtItsPlace(p) ==
  /\ pc[p] = "read" => at[p] = "line"
  /\ state[p] = "ZOMBIE" => pc[p] = "dead" /\ at[p] # "wait"

OneLast == \A p, q \in Pids : Last(p) /\ Last(q) => p = q

Chain == /\ \A p \in Live : HasParent(p) /\ IsRoot(p) /\ AtItsPlace(p)
         /\ OneLast

(***************************************************************************)
(* The shipped programs (module Programs).  Every step of theirs is a step *)
(* of Scheduler or leaves its variables alone, so IInv holds for them too. *)
(***************************************************************************)
LEMMA ProgramsStep ==
  ASSUME IInv, ProgramTypes, PNext
  PROVE  [Next]_vars
<1>0. pid[current_proc] \in Pids
  BY DEF IInv, TypeOK, ProgramTypes
<1>1. ASSUME NEW program, Fork(program) PROVE [Next]_vars
  BY <1>1 DEF Fork, Next, Syscall
<1>2. ASSUME NEW program, Wait(program) PROVE [Next]_vars
  BY Zenon, <1>0, <1>2 DEF Wait, Next, Syscall
<1>3. ASSUME NEW program, Execve(program) PROVE [Next]_vars
  BY <1>3 DEF Execve
<1>4. ASSUME NEW program, ExecFailed(program) PROVE [Next]_vars
  BY <1>4, FailureIsStatus DEF ExecFailed, Next, Syscall
<1>5. ASSUME readline \/ Builtin \/ Command PROVE [Next]_vars
  BY <1>5 DEF readline, Builtin, Command, Next, Syscall
<1>6. ASSUME ShellExits \/ HttpdExits PROVE [Next]_vars
  BY <1>6, FailureIsStatus, StatusAssumption DEF ShellExits, HttpdExits, Next, Syscall
<1>7. ASSUME Beneath(Syscall) \/ Beneath(KernelStep) \/ Beneath(TimerIRQ) \/ Beneath(device_irq)
      PROVE  [Next]_vars
  BY <1>7 DEF Beneath, Next
<1> QED BY <1>1, <1>2, <1>3, <1>4, <1>5, <1>6, <1>7 DEF PNext, Shipped

(***************************************************************************)
(* A step that changes nobody's parent keeps the chain when who waits      *)
(* still waits, who serves still serves, readers are at a line and the     *)
(* dead wait for nobody.                                                   *)
(***************************************************************************)
LEMMA ChainFrame ==
  ASSUME Chain, Live' = Live, pid' = pid,
         \A p \in Live : ppid'[p] = ppid[p],
         \A p \in Live : Waits(p) => Waits(p)',
         \A p \in Live : at[p] = "serve" => at'[p] = "serve",
         \A p \in Live : AtItsPlace(p)'
  PROVE  Chain'
<1>1. ASSUME NEW c \in Live PROVE HasParent(c)'
  <2>1. HasParent(c)
    BY Zenon DEF Chain
  <2>2. ppid'[c] = ppid[c] /\ pid' = pid /\ Live' = Live
    OBVIOUS
  <2>3. ppid[c] \in Live /\ Waits(ppid[c]) => Waits(ppid[c])'
    OBVIOUS
  <2> SUFFICES ASSUME ppid'[c] # idle
               PROVE  /\ ppid'[c] \in Live' /\ pid'[ppid'[c]] = c
                      /\ at'[ppid'[c]] = "wait" \/ pc'[ppid'[c]] = "waitpid"
    BY Zenon DEF HasParent, Waits
  <2>4. ppid[c] \in Live /\ pid[ppid[c]] = c /\ Waits(ppid[c])'
    BY Zenon, <2>1, <2>2, <2>3 DEF HasParent
  <2> QED BY Zenon, <2>2, <2>4 DEF Waits
<1>2. ASSUME NEW c \in Live PROVE IsRoot(c)'
  <2>1. IsRoot(c)
    BY Zenon DEF Chain
  <2>2. ppid'[c] = ppid[c] /\ (at[c] = "serve" => at'[c] = "serve")
    BY Zenon
  <2> QED BY <2>1, <2>2 DEF IsRoot
<1>3. ASSUME NEW p, Last(p)' PROVE Last(p)
  BY <1>3 DEF Last
<1>4. OneLast'
  <2>1. OneLast
    BY Zenon DEF Chain
  <2> QED BY Zenon, <1>3, <2>1 DEF OneLast
<1> QED BY Zenon, <1>1, <1>2, <1>4 DEF Chain

\* What IInv says that the proofs about the chain use.
LEMMA ChainFacts ==
  ASSUME IInv
  PROVE  /\ state \in [Pids -> States] /\ ppid \in [Pids -> Pids] /\ pc \in [Pids -> PCs]
         /\ current_proc \in Pids /\ current_proc \in Live /\ state[current_proc] = "RUNNING"
         /\ idle \in Pids /\ idle \in Live /\ Live \subseteq Pids
         /\ pc[idle] \in {"yield", "hlt"}
<1>1. TypeOK /\ OneRunning /\ IdleInv
  BY DEF IInv
<1>2. /\ state \in [Pids -> States] /\ ppid \in [Pids -> Pids] /\ pc \in [Pids -> PCs]
      /\ current_proc \in Pids
  BY <1>1 DEF TypeOK
<1>3. idle \in Pids
  BY ProcMaxAssumption DEF Pids, idle
<1>4. state[current_proc] = "RUNNING"
  BY <1>1, <1>2 DEF OneRunning
<1>5. state[idle] # "UNUSED" /\ pc[idle] \in {"yield", "hlt"}
  BY Zenon, <1>1 DEF IdleInv, Runnable
<1> QED BY <1>2, <1>3, <1>4, <1>5 DEF Live

\* Whom scheduler_yield leaves a ZOMBIE was left one by its caller.
LEMMA YieldChain ==
  ASSUME IInv, NEW st \in [Pids -> States],
         \A p \in Pids \ {current_proc} : st[p] = state[p],
         st[current_proc] \in {"RUNNING", "ZOMBIE"},
         current_proc = idle => st[idle] = "RUNNING",
         NEW mode \in SaveModes, NEW flag \in BOOLEAN,
         scheduler_yield(st, mode, flag)
  PROVE  /\ Live' = Live
         /\ \A p \in Pids : state'[p] = "ZOMBIE" => st[p] = "ZOMBIE"
<1>1. Live' = Live
  BY Zenon, YieldLemma
<1>2. \A p \in Pids : state'[p] = "ZOMBIE" => st[p] = "ZOMBIE"
  BY Zenon DEF scheduler_yield
<1> QED BY <1>1, <1>2

\* The steps of the kernel and the interrupts but the reaping of a child.
LEMMA KernelKeepsChain ==
  ASSUME IInv, Chain, UNCHANGED uvars,
         \/ waitpid_spin \/ tty_read_spin \/ tty_read_return \/ idle_yield
         \/ timer_tick \/ timer_preempt \/ device_irq
  PROVE  Chain'
<1>0. /\ at' = at /\ pid' = pid
      /\ state \in [Pids -> States] /\ ppid \in [Pids -> Pids] /\ pc \in [Pids -> PCs]
      /\ current_proc \in Live /\ state[current_proc] = "RUNNING"
      /\ idle \in Live /\ Live \subseteq Pids /\ pc[idle] \in {"yield", "hlt"}
      /\ IFlag \in BOOLEAN
  BY Zenon, ChainFacts DEF uvars, IInv, TypeOK
<1>1. ppid' = ppid
  BY Zenon DEF waitpid_spin, tty_read_spin, tty_read_return, idle_yield, timer_tick, timer_preempt,
         device_irq
<1>2. Live' = Live /\ \A p \in Pids : state'[p] = "ZOMBIE" => state[p] = "ZOMBIE"
  <2>1. CASE waitpid_spin \/ tty_read_spin \/ idle_yield \/ timer_preempt
    <3>1. PICK mode \in SaveModes, flag \in BOOLEAN : scheduler_yield(state, mode, flag)
      BY Zenon, <1>0, <2>1 DEF waitpid_spin, tty_read_spin, idle_yield, timer_preempt, SaveModes
    <3> QED BY <1>0, <3>1, YieldChain
  <2>2. CASE tty_read_return \/ timer_tick \/ device_irq
    BY Zenon, <2>2 DEF tty_read_return, timer_tick, device_irq, Live
  <2> QED BY <2>1, <2>2
<1>3. ASSUME NEW p \in Live
      PROVE  \/ pc'[p] = pc[p]
             \/ pc[p] = "read" /\ pc'[p] = "user"
             \/ pc[p] \in {"yield", "hlt"} /\ pc'[p] \in {"yield", "hlt"}
  <2>1. CASE waitpid_spin \/ tty_read_spin \/ timer_preempt
    BY Zenon, <2>1 DEF waitpid_spin, tty_read_spin, timer_preempt
  <2>2. CASE tty_read_return
    BY <1>0, <2>2 DEF tty_read_return
  <2>3. CASE idle_yield
    BY <1>0, <2>3 DEF idle_yield
  <2>4. CASE timer_tick \/ device_irq
    BY Zenon, <1>0, <2>4 DEF timer_tick, device_irq, WakeIdle
  <2> QED BY Zenon, <2>1, <2>2, <2>3, <2>4
<1>4. ASSUME NEW p \in Live
      PROVE  (Waits(p) => Waits(p)') /\ AtItsPlace(p)'
  <2>1. AtItsPlace(p)
    BY DEF Chain
  <2>2. /\ at'[p] = at[p] /\ (state'[p] = "ZOMBIE" => state[p] = "ZOMBIE")
        /\ pc'[p] \in {"read", "dead", "waitpid"} => pc[p] = pc'[p]
        /\ pc[p] \in {"dead", "waitpid"} => pc'[p] = pc[p]
    BY Zenon, <1>0, <1>2, <1>3
  <2> QED BY Zenon, <2>1, <2>2 DEF AtItsPlace, Waits
<1>5. \A p \in Live : ppid'[p] = ppid[p] /\ at'[p] = at[p]
  BY <1>0, <1>1
<1> QED BY Zenon, <1>0, <1>2, <1>4, <1>5, ChainFrame

\* The steps of a program but a fork.
LEMMA ProgramKeepsChain ==
  ASSUME IInv, ProgramTypes, Chain,
         \/ \E program \in {"init", "shell"} :
              \/ Execve(program) \/ ExecFailed(program) \/ Wait(program)
         \/ readline \/ Builtin \/ Command \/ ShellExits \/ HttpdExits
  PROVE  Chain' /\ ProgramTypes'
<1> DEFINE me == current_proc
<1>0. /\ at \in [Pids -> Places] /\ pid \in [Pids -> Pids]
      /\ state \in [Pids -> States] /\ ppid \in [Pids -> Pids] /\ pc \in [Pids -> PCs]
      /\ me \in Live /\ me \in Pids /\ state[me] = "RUNNING" /\ Live \subseteq Pids
      /\ IFlag \in BOOLEAN
  BY Zenon, ChainFacts DEF ProgramTypes, IInv, TypeOK
<1>1. pid' = pid /\ pc[me] = "user" /\ me # idle
  BY Zenon DEF Execve, ExecFailed, Wait, readline, Builtin, Command, ShellExits, HttpdExits, uvars,
         Runs, InUser
<1>2. ASSUME NEW a \in Places, NEW l \in PCs,
             at[me] = "wait" => l = "waitpid", at[me] = "serve" => a = "serve",
             l = "read" => a = "line", l = "dead" => a # "wait",
             at' = [at EXCEPT ![me] = a], pc' = [pc EXCEPT ![me] = l],
             Live' = Live, ppid' = ppid,
             \A p \in Live : state'[p] = "ZOMBIE" => \/ state[p] = "ZOMBIE"
                                                     \/ p = me /\ l = "dead"
      PROVE  Chain' /\ ProgramTypes'
  <2>1. ASSUME NEW p \in Live
        PROVE  /\ Waits(p) => Waits(p)'
               /\ at[p] = "serve" => at'[p] = "serve"
               /\ AtItsPlace(p)'
    <3>0. AtItsPlace(p)
      BY DEF Chain
    <3>1. CASE p = me
      <4>1. at'[p] = a /\ pc'[p] = l
        BY Zenon, <1>0, <1>2, <3>1
      <4>2. state'[p] = "ZOMBIE" => l = "dead"
        BY Zenon, <1>0, <1>1, <1>2, <3>1
      <4>3. Waits(p) => l = "waitpid"
        BY Zenon, <1>1, <1>2, <3>1 DEF Waits
      <4> QED BY Zenon, <1>2, <3>1, <4>1, <4>2, <4>3 DEF AtItsPlace, Waits
    <3>2. CASE p # me
      <4>1. /\ at'[p] = at[p] /\ pc'[p] = pc[p]
            /\ state'[p] = "ZOMBIE" => state[p] = "ZOMBIE"
        BY Zenon, <1>0, <1>2, <3>2
      <4> QED BY Zenon, <3>0, <4>1 DEF AtItsPlace, Waits
    <3> QED BY Zenon, <3>1, <3>2
  <2>2. \A p \in Live : ppid'[p] = ppid[p]
    BY Zenon, <1>2
  <2>3. Chain'
    BY Zenon, <1>1, <1>2, <2>1, <2>2, ChainFrame
  <2> QED BY Zenon, <1>0, <1>1, <1>2, <2>3 DEF ProgramTypes
<1>3. ASSUME UNCHANGED vars
      PROVE  /\ pc' = [pc EXCEPT ![me] = "user"] /\ Live' = Live /\ ppid' = ppid /\ state' = state
  BY Zenon, <1>0, <1>1, <1>3 DEF vars, Live
<1>4. ASSUME NEW program \in {"init", "shell"}, Execve(program) PROVE Chain' /\ ProgramTypes'
  <2>1. PICK a \in Places \ {"wait"} : at' = [at EXCEPT ![me] = a] /\ UNCHANGED vars
    BY Zenon, <1>4 DEF Execve, Goto, Places
  <2>2. at[me] = "child"
    BY Zenon, <1>4 DEF Execve, Runs
  <2> QED BY Zenon, <1>2, <1>3, <2>1, <2>2 DEF PCs
<1>5. ASSUME NEW s \in Status, sys_exit(s), at' = at, at[me] # "wait"
      PROVE  Chain' /\ ProgramTypes'
  <2> DEFINE st == [state EXCEPT ![me] = "ZOMBIE"]
  <2>1. /\ pc' = [pc EXCEPT ![me] = "dead"] /\ ppid' = ppid
        /\ scheduler_yield(st, "call", IFlag)
    BY <1>5 DEF sys_exit
  <2>2. /\ st \in [Pids -> States] /\ st[me] = "ZOMBIE"
        /\ \A p \in Pids \ {me} : st[p] = state[p]
    BY <1>0 DEF States
  <2> HIDE DEF st
  <2>3. Live' = Live /\ \A p \in Pids : state'[p] = "ZOMBIE" => st[p] = "ZOMBIE"
    BY Zenon, <1>0, <1>1, <2>1, <2>2, YieldChain DEF SaveModes
  <2>4. at' = [at EXCEPT ![me] = at[me]] /\ at[me] \in Places
    BY <1>0, <1>5
  <2>5. \A p \in Live : state'[p] = "ZOMBIE" => state[p] = "ZOMBIE" \/ p = me
    BY <1>0, <2>2, <2>3
  <2> QED BY Zenon, <1>2, <1>5, <2>1, <2>3, <2>4, <2>5 DEF PCs
<1>6. ASSUME NEW program \in {"init", "shell"}, ExecFailed(program) PROVE Chain' /\ ProgramTypes'
  BY Zenon, <1>5, <1>6, FailureIsStatus DEF ExecFailed, Runs, uvars
<1>7. ASSUME ShellExits \/ HttpdExits PROVE Chain' /\ ProgramTypes'
  BY Zenon, <1>5, <1>7, FailureIsStatus, StatusAssumption DEF ShellExits, HttpdExits, Runs, uvars
<1>8. ASSUME Builtin \/ Command PROVE Chain' /\ ProgramTypes'
  <2>1. PICK a \in {"prompt", "fork"} : at' = [at EXCEPT ![me] = a] /\ UNCHANGED vars
    BY Zenon, <1>8 DEF Builtin, Command, Goto
  <2>2. at[me] = "line"
    BY Zenon, <1>8 DEF Builtin, Command, Runs
  <2> QED BY Zenon, <1>2, <1>3, <2>1, <2>2 DEF PCs, Places
<1>9. ASSUME readline PROVE Chain' /\ ProgramTypes'
  <2>1. /\ at' = [at EXCEPT ![me] = "line"] /\ pc' = [pc EXCEPT ![me] = "read"]
        /\ state' = state /\ ppid' = ppid /\ at[me] \in {"prompt", "line"}
    BY Zenon, <1>9 DEF readline, tty_read, Goto, Runs
  <2>2. Live' = Live
    BY <2>1 DEF Live
  <2> QED BY Zenon, <1>2, <2>1, <2>2 DEF PCs, Places
<1>10. ASSUME NEW program \in {"init", "shell"}, Wait(program) PROVE Chain' /\ ProgramTypes'
  <2>1. PICK a \in {"fork", "prompt"} : at' = [at EXCEPT ![me] = a]
    BY Zenon, <1>10 DEF Wait, Goto, Again
  <2>2. CASE process_waitpid(pid[me])
    <3>1. pc' = [pc EXCEPT ![me] = "waitpid"] /\ state' = state /\ ppid' = ppid
      BY Zenon, <2>2 DEF process_waitpid
    <3>2. Live' = Live
      BY <3>1 DEF Live
    <3>3. at[me] = "wait"
      BY Zenon, <1>10 DEF Wait, Runs
    <3>4. a \in Places /\ "waitpid" \in PCs /\ \A p \in Live : state'[p] = state[p]
      BY <3>1 DEF PCs, Places
    <3> QED BY Zenon, <1>2, <2>1, <3>1, <3>2, <3>3, <3>4
  <2>3. CASE UNCHANGED vars /\ ~(state[pid[me]] # "UNUSED" /\ ppid[pid[me]] = me)
    <3>1. \A c \in Live : ppid[c] # me
      <4> SUFFICES ASSUME NEW c \in Live, ppid[c] = me PROVE FALSE
        OBVIOUS
      <4>1. HasParent(c)
        BY DEF Chain
      <4>2. pid[me] = c
        BY <1>1, <4>1 DEF HasParent
      <4> QED BY <2>3, <4>2 DEF Live
    <3>2. at' \in [Pids -> Places] /\ pc' = pc /\ state' = state /\ ppid' = ppid /\ Live' = Live
      BY Zenon, <1>0, <2>1, <2>3 DEF vars, Live, Places
    <3>3. \A p \in Live \ {me} : at'[p] = at[p]
      BY <1>0, <2>1
    <3>4. at'[me] \in {"fork", "prompt"} /\ at[me] = "wait"
      BY Zenon, <1>0, <1>10, <2>1 DEF Wait, Runs
    <3>5. Chain'
      <4>1. ASSUME NEW c \in Live PROVE HasParent(c)' /\ IsRoot(c)' /\ AtItsPlace(c)'
        <5>1. HasParent(c) /\ IsRoot(c) /\ AtItsPlace(c)
          BY DEF Chain
        <5>2. HasParent(c)'
          <6> SUFFICES ASSUME ppid[c] # idle
                       PROVE  /\ ppid[c] \in Live /\ pid[ppid[c]] = c
                              /\ at'[ppid[c]] = "wait" \/ pc[ppid[c]] = "waitpid"
            BY Zenon, <1>1, <3>2 DEF HasParent, Waits
          <6>1. ppid[c] \in Live \ {me} /\ pid[ppid[c]] = c /\ Waits(ppid[c])
            BY Zenon, <3>1, <5>1 DEF HasParent
          <6> QED BY Zenon, <3>3, <6>1 DEF Waits
        <5>3. at'[c] = at[c] \/ (c = me /\ at'[c] # "wait" /\ at[c] # "serve")
          BY Zenon, <3>3, <3>4
        <5>4. pc[me] = "user" /\ state[me] = "RUNNING"
          BY <1>0, <1>1
        <5>5. IsRoot(c)'
          BY <3>2, <5>1, <5>3 DEF IsRoot
        <5>6. AtItsPlace(c)'
          BY Zenon, <3>2, <5>1, <5>3, <5>4 DEF AtItsPlace
        <5> QED BY <5>2, <5>5, <5>6
      <4>2. ASSUME NEW p, Last(p)' PROVE Last(p)
        BY <3>2, <4>2 DEF Last
      <4>3. OneLast
        BY DEF Chain
      <4>4. OneLast'
        BY <4>2, <4>3 DEF OneLast
      <4> QED BY Zenon, <3>2, <4>1, <4>4 DEF Chain
    <3> QED BY Zenon, <1>0, <1>1, <3>2, <3>5 DEF ProgramTypes
  <2> QED BY Zenon, <1>10, <2>2, <2>3 DEF Wait
<1> QED BY <1>4, <1>6, <1>7, <1>8, <1>9, <1>10

\* A fork: the parent was the last of the chain, the child is now.
LEMMA ForkKeepsChain ==
  ASSUME IInv, ProgramTypes, Chain, NEW program \in {"init", "shell"}, Fork(program)
  PROVE  Chain' /\ ProgramTypes'
<1> DEFINE me == current_proc
<1>0. /\ at \in [Pids -> Places] /\ pid \in [Pids -> Pids]
      /\ state \in [Pids -> States] /\ ppid \in [Pids -> Pids] /\ pc \in [Pids -> PCs]
      /\ me \in Live /\ me \in Pids /\ state[me] = "RUNNING" /\ Live \subseteq Pids
      /\ idle \in Live /\ me # idle /\ pc[me] = "user" /\ at[me] = "fork"
  BY Zenon, ChainFacts DEF ProgramTypes, Fork, Runs, InUser
<1>1. \A c \in Live : ppid[c] # me
  <2> SUFFICES ASSUME NEW c \in Live, ppid[c] = me PROVE FALSE
    OBVIOUS
  <2>1. HasParent(c)
    BY DEF Chain
  <2> QED BY <1>0, <2>1 DEF HasParent, Waits
<1>2. CASE \E c \in Pids : /\ process_fork(c)
                           /\ at' = [at EXCEPT ![c] = "child", ![me] = "wait"]
                           /\ pid' = [pid EXCEPT ![c] = 0, ![me] = c]
  <2>1. PICK c \in Pids : /\ process_fork(c)
                          /\ at' = [at EXCEPT ![c] = "child", ![me] = "wait"]
                          /\ pid' = [pid EXCEPT ![c] = 0, ![me] = c]
    BY Zenon, <1>2
  <2>2. /\ state[c] = "UNUSED" /\ c \notin Live /\ c # me /\ c # idle
        /\ state' = [state EXCEPT ![c] = "READY"] /\ ppid' = [ppid EXCEPT ![c] = me]
        /\ pc' = [pc EXCEPT ![c] = "user"]
    BY Zenon, <1>0, <2>1 DEF process_fork, IsFree, Live
  <2>3. Live' = Live \cup {c}
    BY Zenon, <1>0, <2>2 DEF Live
  <2>4. /\ at'[c] = "child" /\ at'[me] = "wait" /\ pid'[me] = c /\ ppid'[c] = me
        /\ pc'[c] = "user" /\ state'[c] = "READY"
        /\ \A p \in Live : state'[p] = state[p] /\ ppid'[p] = ppid[p] /\ pc'[p] = pc[p]
        /\ \A p \in Live \ {me} : at'[p] = at[p] /\ pid'[p] = pid[p]
    BY Zenon, <1>0, <2>1, <2>2
  <2>5. \A d \in Live : ppid[d] # c
    BY Zenon, <2>2 DEF Chain, HasParent
  <2>6. Last(me)
    <3>1. IsRoot(me)
      BY <1>0 DEF Chain
    <3> QED BY Zenon, <1>0, <1>1, <3>1 DEF IsRoot, Last
  <2>7. ASSUME NEW p \in Pids, Last(p)' PROVE p = c
    <3>1. CASE p = me
      BY <2>3, <2>4, <2>7, <3>1 DEF Last
    <3>2. CASE p \in Live \ {me}
      <4>1. Last(p)
        BY Zenon, <2>3, <2>4, <2>7, <3>2 DEF Last
      <4>2. OneLast
        BY DEF Chain
      <4> QED BY <1>0, <2>6, <3>2, <4>1, <4>2 DEF OneLast
    <3> QED BY <2>3, <2>7, <3>1, <3>2 DEF Last
  <2>8. ASSUME NEW d \in Live', ppid'[d] # idle
        PROVE  /\ ppid'[d] \in Live' /\ pid'[ppid'[d]] = d
               /\ at'[ppid'[d]] = "wait" \/ pc'[ppid'[d]] = "waitpid"
    <3>1. CASE d = c
      BY Zenon, <1>0, <2>3, <2>4, <3>1
    <3>2. CASE d # c
      <4>1. d \in Live /\ ppid'[d] = ppid[d] /\ ppid[d] # me
        BY Zenon, <1>1, <2>3, <2>4, <3>2
      <4>2. /\ ppid[d] \in Live \ {me} /\ pid[ppid[d]] = d
            /\ at[ppid[d]] = "wait" \/ pc[ppid[d]] = "waitpid"
        <5>1. HasParent(d)
          BY <4>1 DEF Chain
        <5> QED BY Zenon, <2>8, <4>1, <5>1 DEF HasParent, Waits
      <4> QED BY Zenon, <2>3, <2>4, <4>1, <4>2
    <3> QED BY Zenon, <3>1, <3>2
  <2>9. ASSUME NEW d \in Live', ppid'[d] = idle
        PROVE  d \in {idle, 1, 2} /\ (d = 2 => at'[d] = "serve")
    <3>1. d \in Live /\ ppid[d] = idle
      BY Zenon, <1>0, <2>3, <2>4, <2>9
    <3>2. d \in {idle, 1, 2} /\ (d = 2 => at[d] = "serve")
      BY <3>1 DEF Chain, IsRoot
    <3> QED BY Zenon, <1>0, <2>4, <3>1, <3>2
  <2>10. ASSUME NEW p \in Live'
         PROVE  AtItsPlace(p)'
    <3>1. CASE p = c
      BY Zenon, <2>4, <3>1 DEF AtItsPlace
    <3>2. CASE p = me
      BY Zenon, <1>0, <2>4, <3>2 DEF AtItsPlace
    <3>3. CASE p \in Live \ {me}
      <4>1. AtItsPlace(p)
        BY <3>3 DEF Chain
      <4> QED BY Zenon, <2>4, <3>3, <4>1 DEF AtItsPlace
    <3> QED BY <2>3, <3>1, <3>2, <3>3
  <2>11. Chain'
    <3>1. ASSUME NEW d \in Live' PROVE HasParent(d)'
      BY Zenon, <2>8 DEF HasParent, Waits
    <3>2. ASSUME NEW d \in Live' PROVE IsRoot(d)'
      BY <2>9 DEF IsRoot
    <3>3. OneLast'
      BY <2>7 DEF OneLast
    <3> QED BY <2>10, <3>1, <3>2, <3>3 DEF Chain
  <2>12. at' \in [Pids -> Places] /\ pid' \in [Pids -> Pids]
    <3>1. 0 \in Pids
      BY ProcMaxAssumption DEF Pids
    <3>2. at' \in [Pids -> Places]
      BY <1>0, <2>1 DEF Places
    <3>3. pid' \in [Pids -> Pids]
      BY <1>0, <2>1, <3>1
    <3> QED BY <3>2, <3>3
  <2> QED BY <2>11, <2>12 DEF ProgramTypes
<1>3. CASE /\ \E c \in Pids : process_fork_oom(c)
           /\ Goto(Again(program)) /\ UNCHANGED pid
  <2>1. PICK c \in Pids : process_fork_oom(c)
    BY <1>3
  <2>2. /\ c \notin Live /\ ppid' = [ppid EXCEPT ![c] = me] /\ state' = state /\ pc' = pc
    BY <2>1 DEF process_fork_oom, IsFree, Live
  <2>3. \A p \in Live : ppid'[p] = ppid[p]
    BY <1>0, <2>2
  <2>4. Live' = Live
    BY <2>2 DEF Live
  <2>5. PICK a \in {"fork", "prompt"} : at' = [at EXCEPT ![me] = a]
    BY Zenon, <1>3 DEF Goto, Again
  <2>6. ASSUME NEW p \in Live
        PROVE  /\ Waits(p) => Waits(p)'
               /\ at[p] = "serve" => at'[p] = "serve"
               /\ AtItsPlace(p)'
    <3>1. AtItsPlace(p) /\ pc'[p] = pc[p] /\ state'[p] = state[p]
      BY Zenon, <2>2 DEF Chain
    <3>2. CASE p = me
      <4>1. at'[p] \in {"fork", "prompt"}
        BY <1>0, <2>5, <3>2
      <4> QED BY Zenon, <1>0, <3>1, <3>2, <4>1 DEF AtItsPlace, Waits
    <3>3. CASE p # me
      <4>1. at'[p] = at[p]
        BY <1>0, <2>5, <3>3
      <4> QED BY Zenon, <3>1, <4>1 DEF AtItsPlace, Waits
    <3> QED BY Zenon, <3>2, <3>3
  <2>7. Chain'
    BY Zenon, <1>3, <2>3, <2>4, <2>6, ChainFrame
  <2> QED BY <1>0, <1>3, <2>5, <2>7 DEF ProgramTypes, Places
<1>4. CASE UNCHANGED vars /\ Goto(Again(program)) /\ UNCHANGED pid
  <2>1. ppid' = ppid /\ state' = state /\ pc' = pc /\ Live' = Live
    BY <1>4 DEF vars, Live
  <2>2. PICK a \in {"fork", "prompt"} : at' = [at EXCEPT ![me] = a]
    BY Zenon, <1>4 DEF Goto, Again
  <2>3. ASSUME NEW p \in Live
        PROVE  /\ Waits(p) => Waits(p)'
               /\ at[p] = "serve" => at'[p] = "serve"
               /\ AtItsPlace(p)'
    <3>1. AtItsPlace(p) /\ pc'[p] = pc[p] /\ state'[p] = state[p]
      BY Zenon, <2>1 DEF Chain
    <3>2. CASE p = me
      <4>1. at'[p] \in {"fork", "prompt"}
        BY <1>0, <2>2, <3>2
      <4> QED BY Zenon, <1>0, <3>1, <3>2, <4>1 DEF AtItsPlace, Waits
    <3>3. CASE p # me
      <4>1. at'[p] = at[p]
        BY <1>0, <2>2, <3>3
      <4> QED BY Zenon, <3>1, <4>1 DEF AtItsPlace, Waits
    <3> QED BY Zenon, <3>2, <3>3
  <2>4. Chain'
    BY Zenon, <1>4, <2>1, <2>3, ChainFrame
  <2> QED BY Zenon, <1>0, <1>4, <2>2, <2>4 DEF ProgramTypes, Places
<1> QED BY Zenon, <1>2, <1>3, <1>4 DEF Fork

\* The end of waitpid: the child was the last of the chain, the parent is now.
LEMMA ReapKeepsChain ==
  ASSUME IInv, Chain, UNCHANGED uvars, waitpid_reap
  PROVE  Chain'
<1> DEFINE me == current_proc
<1>0. /\ at' = at /\ pid' = pid
      /\ state \in [Pids -> States] /\ ppid \in [Pids -> Pids] /\ pc \in [Pids -> PCs]
      /\ me \in Live /\ me \in Pids /\ state[me] = "RUNNING" /\ Live \subseteq Pids
      /\ idle \in Live /\ pc[idle] \in {"yield", "hlt"}
  BY ChainFacts DEF uvars
<1>1. PICK c : c = child_of[me]
  OBVIOUS
<1>2. /\ pc[me] = "waitpid" /\ state[c] = "ZOMBIE" /\ ppid' = ppid
      /\ state' = [state EXCEPT ![c] = "UNUSED"] /\ pc' = [pc EXCEPT ![me] = "user"]
  BY Zenon, <1>1 DEF waitpid_reap
<1>3. c \in Live /\ ppid[c] = me /\ c # me /\ me # idle
  BY Zenon, <1>0, <1>1, <1>2 DEF IInv, WaiterKeepsChild
<1>4. Live' = Live \ {c}
  BY Zenon, <1>0, <1>2, <1>3 DEF Live
<1>5. /\ \A p \in Live \ {c} : state'[p] = state[p]
      /\ \A p \in Live \ {me} : pc'[p] = pc[p]
      /\ pc'[me] = "user"
  BY <1>0, <1>2
<1>6. /\ pid[me] = c /\ \A d \in Live : ppid[d] = me => d = c
  BY Zenon, <1>3 DEF Chain, HasParent
<1>p. AtItsPlace(c)
  BY Zenon, <1>3 DEF Chain
<1>7. \A d \in Live : ppid[d] # c
  <2>1. ~Waits(c) /\ c # idle
    BY Zenon, <1>0, <1>2, <1>p DEF AtItsPlace, Waits
  <2> QED BY Zenon, <2>1 DEF Chain, HasParent
<1>8. Last(c)
  <2>1. c # idle
    BY Zenon, <1>0, <1>2, <1>p DEF AtItsPlace
  <2> QED BY <1>3, <1>7, <2>1 DEF Last
<1>9. ASSUME NEW p \in Pids, Last(p)' PROVE p = me
  <2>1. CASE p # me
    <3>1. Last(p)
      BY <1>2, <1>3, <1>4, <1>9, <2>1 DEF Last
    <3>2. p = c
      <4>1. OneLast
        BY DEF Chain
      <4> QED BY <1>0, <1>3, <1>8, <3>1, <4>1 DEF OneLast
    <3> QED BY <1>4, <1>9, <3>2 DEF Last
  <2> QED BY <2>1
<1>10. ASSUME NEW d \in Live', ppid'[d] # idle
       PROVE  /\ ppid'[d] \in Live' /\ pid'[ppid'[d]] = d
              /\ at'[ppid'[d]] = "wait" \/ pc'[ppid'[d]] = "waitpid"
  <2>1. d \in Live /\ d # c /\ ppid'[d] = ppid[d] /\ ppid[d] # me /\ ppid[d] # c
    BY Zenon, <1>2, <1>4, <1>6, <1>7
  <2>2. /\ ppid[d] \in Live /\ pid[ppid[d]] = d
        /\ at[ppid[d]] = "wait" \/ pc[ppid[d]] = "waitpid"
    <3>1. HasParent(d)
      BY Zenon, <2>1 DEF Chain
    <3> QED BY Zenon, <1>10, <2>1, <3>1 DEF HasParent, Waits
  <2> QED BY Zenon, <1>0, <1>4, <1>5, <2>1, <2>2
<1>11. ASSUME NEW d \in Live' PROVE IsRoot(d)'
  <2>1. IsRoot(d)
    BY <1>4 DEF Chain
  <2> QED BY Zenon, <1>0, <1>2, <2>1 DEF IsRoot
<1>12. ASSUME NEW p \in Live' PROVE AtItsPlace(p)'
  <2>1. AtItsPlace(p) /\ state'[p] = state[p] /\ (pc'[p] = pc[p] \/ p = me)
    BY Zenon, <1>4, <1>5 DEF Chain
  <2> QED BY Zenon, <1>0, <1>5, <2>1 DEF AtItsPlace
<1>13. OneLast'
  BY <1>9 DEF OneLast
<1>14. ASSUME NEW d \in Live' PROVE HasParent(d)'
  BY Zenon, <1>10 DEF HasParent, Waits
<1> QED BY <1>11, <1>12, <1>13, <1>14 DEF Chain

(***************************************************************************)
(* The shipped programs keep one process in the foreground                 *)
(* (OneForeground), for every size of the process table and however the    *)
(* timer interleaves them: two processes are never in tty_read at once,    *)
(* and whatever init or a shell forked is waited for by the one that       *)
(* forked it.                                                              *)
(***************************************************************************)
THEOREM ForegroundIsOne == PSpec => []OneForeground
<1> DEFINE PInv == IInv /\ ProgramTypes /\ (programs = "shipped" => Chain)
<1>1. PInit => PInv
  <2> SUFFICES ASSUME PInit PROVE PInv
    OBVIOUS
  <2>1. IInv
    BY InitEstablishes DEF PInit
  <2>2. ProgramTypes
    BY ProcMaxAssumption DEF PInit, ProgramTypes, Places, Pids
  <2>3. /\ Live \subseteq {idle, 1, 2} /\ \A p \in Pids : ppid[p] = idle
        /\ \A p \in Pids : state[p] # "ZOMBIE" /\ pc[p] # "read"
        /\ \A p \in Pids \ {1} : at[p] = "serve"
    <3>1. /\ \A p \in Pids \ {idle, 1, 2} : state[p] = "UNUSED"
          /\ \A p \in Pids : ppid[p] = idle /\ state[p] # "ZOMBIE"
      <4>1. PICK launched \in {{}, {1}, {1, 2}} :
              /\ state = [p \in Pids |-> IF p = idle THEN "RUNNING"
                                         ELSE IF p \in launched THEN "READY"
                                         ELSE "UNUSED"]
              /\ ppid = [p \in Pids |-> 0]
        BY Zenon DEF PInit, Init
      <4>2. \A p \in Pids : ppid[p] = idle
        BY Zenon, <4>1 DEF idle
      <4>3. launched \subseteq {1, 2}
        BY <4>1
      <4>4. \A p \in Pids \ {idle, 1, 2} : state[p] = "UNUSED"
        BY Zenon, <4>1, <4>3
      <4>5. \A p \in Pids : state[p] # "ZOMBIE"
        BY <4>1
      <4> QED BY Zenon, <4>2, <4>4, <4>5
    <3>2. \A p \in Pids : pc[p] # "read"
      BY DEF PInit, Init
    <3>3. \A p \in Pids \ {1} : at[p] = "serve"
      BY DEF PInit
    <3>4. Live \subseteq {idle, 1, 2}
      BY <3>1 DEF Live
    <3> QED BY <3>1, <3>2, <3>3, <3>4
  <2>4. OneLast
    BY <2>3 DEF OneLast, Last
  <2>5. Live \subseteq Pids
    BY DEF Live
  <2>6. ASSUME NEW p \in Live PROVE HasParent(p) /\ IsRoot(p) /\ AtItsPlace(p)
    <3>1. ppid[p] = idle /\ pc[p] # "read" /\ state[p] # "ZOMBIE" /\ p \in {idle, 1, 2}
      BY Zenon, <2>3, <2>5
    <3>2. p = 2 => at[p] = "serve"
      BY <2>3, <2>5
    <3> QED BY Zenon, <3>1, <3>2 DEF HasParent, IsRoot, AtItsPlace
  <2>7. Chain
    BY <2>4, <2>6 DEF Chain
  <2> QED BY <2>1, <2>2, <2>7
<1>2. PInv /\ [PNext]_pvars => PInv'
  <2> SUFFICES ASSUME PInv, [PNext]_pvars PROVE PInv'
    OBVIOUS
  <2>1. IInv'
    <3>1. [Next]_vars
      BY ProgramsStep DEF pvars
    <3> QED BY <3>1, NextPreserves
  <2>2. CASE UNCHANGED pvars
    <3>1. Live' = Live
      BY <2>2 DEF pvars, vars, Live
    <3>2. /\ state' = state /\ ppid' = ppid /\ pc' = pc /\ at' = at /\ pid' = pid
          /\ programs' = programs
      BY <2>2 DEF pvars, vars, uvars
    <3>3. ProgramTypes'
      BY <3>2 DEF ProgramTypes
    <3>4. Chain => \A p \in Live : AtItsPlace(p)'
      BY Zenon, <3>2 DEF Chain, AtItsPlace
    <3>5. \A p \in Live : Waits(p) => Waits(p)'
      BY Zenon, <3>2 DEF Waits
    <3>6. Chain => Chain'
      BY Zenon, <3>1, <3>2, <3>4, <3>5, ChainFrame
    <3> QED BY <2>1, <3>2, <3>3, <3>6
  <2>3. CASE Shipped
    <3>1. programs = "shipped"
      BY Zenon, <2>3 DEF Shipped, Fork, Execve, ExecFailed, Wait, readline, Builtin, Command,
                  ShellExits, HttpdExits, Runs
    <3>2. Chain' /\ ProgramTypes'
      BY <2>3, <3>1, ForkKeepsChain, ProgramKeepsChain DEF Shipped
    <3> QED BY <2>1, <3>2
  <2>4. CASE programs = "any" /\ Beneath(Syscall)
    <3>1. ProgramTypes' /\ programs' # "shipped"
      BY <2>4 DEF Beneath, uvars, ProgramTypes
    <3> QED BY <2>1, <3>1
  <2>5. CASE Beneath(KernelStep) \/ Beneath(TimerIRQ) \/ Beneath(device_irq)
    <3>1. UNCHANGED uvars
      BY <2>5 DEF Beneath
    <3>2. ProgramTypes' /\ programs' = programs
      BY <3>1 DEF uvars, ProgramTypes
    <3>3. Chain => Chain'
      BY <2>5, <3>1, KernelKeepsChain, ReapKeepsChain DEF Beneath, KernelStep, TimerIRQ
    <3> QED BY <2>1, <3>2, <3>3
  <2> QED BY Zenon, <2>2, <2>3, <2>4, <2>5 DEF PNext
<1>3. PInv => OneForeground
  <2> SUFFICES ASSUME IInv, Chain PROVE OneForeground
    BY DEF OneForeground
  <2>1. ASSUME NEW p \in Live, pc[p] = "read" PROVE p \in Pids /\ Last(p)
    <3>1. at[p] = "line" /\ p # idle /\ p \in Pids
      BY <2>1, ChainFacts DEF Chain, AtItsPlace
    <3>2. \A c \in Live : ppid[c] # p
      <4> SUFFICES ASSUME NEW c \in Live, ppid[c] = p PROVE FALSE
        OBVIOUS
      <4>1. HasParent(c)
        BY DEF Chain
      <4> QED BY Zenon, <2>1, <3>1, <4>1 DEF HasParent, Waits
    <3>3. IsRoot(p)
      BY <2>1 DEF Chain
    <3> QED BY <2>1, <3>1, <3>2, <3>3 DEF IsRoot, Last
  <2>2. \A p, q \in Live : pc[p] = "read" /\ pc[q] = "read" => p = q
    BY <2>1 DEF Chain, OneLast
  <2>3. ASSUME NEW c \in Live, c \notin {idle, 1, 2} \/ ppid[c] # idle
        PROVE  /\ ppid[c] \in Live /\ pid[ppid[c]] = c
               /\ at[ppid[c]] = "wait" \/ pc[ppid[c]] = "waitpid"
    <3>1. HasParent(c) /\ IsRoot(c)
      BY DEF Chain
    <3> QED BY Zenon, <2>3, <3>1 DEF HasParent, IsRoot, Waits
  <2> QED BY <2>2, <2>3 DEF OneForeground
<1> QED BY <1>1, <1>2, <1>3, PTL DEF PSpec
=============================================================================
