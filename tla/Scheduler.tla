----------------------------- MODULE Scheduler -----------------------------
(***************************************************************************)
(* The process table (src/src/process/process.c) and the round-robin       *)
(* scheduler (src/src/scheduler/scheduler.c) on the kernel's single CPU:   *)
(* fork, exit, waitpid, the timer interrupt that preempts, the idle loop.  *)
(*                                                                         *)
(* One action is one stretch of kernel code between two points where       *)
(* another context may run: a system call that does not yield is one       *)
(* action, every iteration of waitpid's yield loop is one, an interrupt is *)
(* one.  Preemption inside such a stretch is not modelled here.  User      *)
(* programs are arbitrary: the running process may issue any call at any   *)
(* time.                                                                   *)
(***************************************************************************)
EXTENDS Integers

CONSTANTS
  PROC_MAX,               \* slots of proc_table (64 in process_internal.h)
  Status,                 \* exit codes
  SCHED_TICKS_PER_SLICE   \* timer ticks per slice (10 in scheduler.c)

ASSUME ProcMaxAssumption == PROC_MAX \in Nat /\ PROC_MAX >= 3
ASSUME StatusAssumption == 0 \in Status
ASSUME SliceAssumption == SCHED_TICKS_PER_SLICE \in Nat \ {0}

Pids == 0 .. PROC_MAX - 1
NULL == -1                 \* the null process_t pointer
idle == 0                  \* pid 0

VARIABLES
  state,         \* process_t::state; PROC_BLOCKED is never assigned
  ppid,          \* process_t::ppid
  exit_status,   \* process_t::exit_status
  nxt,           \* process_t::next, the run-queue link
  run_queue,     \* head of the circular list
  current_proc,  \* process.c: current_proc
  tick_counter,  \* scheduler.c: tick_counter
  IFlag,         \* RFLAGS.IF of the CPU
  saved,         \* how a suspended context was left: see Resume
  pc,            \* where each context is
  child_of       \* process_waitpid's local `child`

vars == <<state, ppid, exit_status, nxt, run_queue, current_proc,
          tick_counter, IFlag, saved, pc, child_of>>

States == {"UNUSED", "READY", "RUNNING", "ZOMBIE"}

(***************************************************************************)
(* "call": suspended inside a call of scheduler_yield made by the context  *)
(* itself; context_switch returns to it with RFLAGS as they are.  "iret":  *)
(* suspended under irq_common, or not started yet; the context leaves      *)
(* through iretq or sysret, which load RFLAGS with IF set.                 *)
(***************************************************************************)
SaveModes == {"call", "iret"}

(***************************************************************************)
(* "user": user mode.  "waitpid": the loop of process_waitpid.  "read":    *)
(* the loop of tty_read.  "dead": after process_exit's yield.  "yield",    *)
(* "hlt": the idle loop of kernel_main, at scheduler_yield() and at the    *)
(* hlt after it.                                                           *)
(***************************************************************************)
PCs == {"user", "waitpid", "read", "dead", "yield", "hlt"}

Runnable(st, p) == st[p] \in {"READY", "RUNNING"}

Live == {p \in Pids : state[p] # "UNUSED"}
-----------------------------------------------------------------------------
(* The run queue.                                                          *)

\* Mutant: the two assignments of scheduler_add in the wrong order.
AddLinks_swapped(nx, h, p) ==
  IF h = NULL THEN [nx EXCEPT ![p] = p]
              ELSE [nx EXCEPT ![h] = p, ![p] = p]

\* Mutant: insert before the head instead of after it.
AddLinks_tail(nx, h, p) ==
  IF h = NULL THEN [nx EXCEPT ![p] = p]
              ELSE [q \in Pids |-> IF q = p THEN h
                                   ELSE IF nx[q] = h THEN p ELSE nx[q]]

\* The links after scheduler_add(p) with head h.
AddLinks(nx, h, p) ==
  IF h = NULL THEN [nx EXCEPT ![p] = p]
              ELSE [nx EXCEPT ![p] = nx[h], ![h] = p]

\* The node scheduler_remove's loop stops at: the one that points to p.
PrevOf(nx, p) == CHOOSE q \in Pids : nx[q] = p

\* The links and the head after scheduler_remove(p).
RemoveLinks(nx, p) ==
  IF \E q \in Pids : nx[q] = p
  THEN [nx EXCEPT ![PrevOf(nx, p)] = nx[p], ![p] = NULL]
  ELSE nx

RemoveHead(nx, h, p) ==
  IF \E q \in Pids : nx[q] = p
  THEN IF nx[p] = p THEN NULL ELSE IF h = p THEN nx[p] ELSE h
  ELSE h

(***************************************************************************)
(* The do-while of scheduler_yield stops at q: from the head h it steps    *)
(* along `next` over a set of nodes that are not runnable, and stops at    *)
(* the first runnable node, or back at h when it met none.                 *)
(***************************************************************************)
ScanStopsAt(st, nx, h, q) ==
  /\ Runnable(st, q) \/ q = h
  /\ \E Over \in SUBSET (Pids \ {h, q}) :
        /\ \A p \in Over : ~Runnable(st, p)
        /\ \A p \in Over \cup {h} : nx[p] \in Over \cup {q}
-----------------------------------------------------------------------------
(***************************************************************************)
(* scheduler_yield called by current_proc with process states st.  `mode`  *)
(* is how the caller would be resumed, `flag` is IF at the call.  The      *)
(* switch changes run_queue, the two states, current_proc and, in          *)
(* context_switch, the CPU's stack; IF is not part of cpu_context_t.       *)
(***************************************************************************)
Resume(mode, flag) == mode = "iret" \/ flag

\* Mutant: the head of the run queue does not advance.
scheduler_yield_fixedhead(st, mode, flag) ==
  \E q \in Pids :
    /\ ScanStopsAt(st, nxt, run_queue, q)
    /\ state' = [p \in Pids |->
                   IF p = q THEN "RUNNING"
                   ELSE IF p = current_proc /\ st[p] = "RUNNING"
                        THEN "READY" ELSE st[p]]
    /\ current_proc' = q
    /\ saved' = [saved EXCEPT ![current_proc] = mode]
    /\ IFlag' = Resume(saved[q], flag)
    /\ UNCHANGED run_queue

scheduler_yield(st, mode, flag) ==
  \E q \in Pids :
    /\ ScanStopsAt(st, nxt, run_queue, q)
    /\ IF q = current_proc
       THEN /\ state' = st
            /\ IFlag' = Resume(mode, flag)
            /\ UNCHANGED <<run_queue, current_proc, saved>>
       ELSE /\ run_queue' = q
            /\ state' = [p \in Pids |->
                           IF p = q THEN "RUNNING"
                           ELSE IF p = current_proc /\ st[p] = "RUNNING"
                                THEN "READY" ELSE st[p]]
            /\ current_proc' = q
            /\ saved' = [saved EXCEPT ![current_proc] = mode]
            /\ IFlag' = Resume(saved[q], flag)
-----------------------------------------------------------------------------
(* System calls of the running process.                                    *)

InUser == current_proc # idle /\ pc[current_proc] = "user"

\* Mutant: a slot whose process has exited counts as free.
IsFree_zombie(c) == state[c] \in {"UNUSED", "ZOMBIE"}

\* alloc_pid: the first unused slot.
IsFree(c) == /\ state[c] = "UNUSED"
             /\ \A d \in Pids : d < c => state[d] # "UNUSED"

\* process_fork, every allocation succeeding.  The child starts at
\* fork_sysret_trampoline, the parent returns from the system call.
process_fork(c) ==
  /\ InUser
  /\ IsFree(c)
  /\ state' = [state EXCEPT ![c] = "READY"]
  /\ ppid' = [ppid EXCEPT ![c] = current_proc]
  /\ exit_status' = [exit_status EXCEPT ![c] = 0]
  /\ nxt' = AddLinks([nxt EXCEPT ![c] = NULL], run_queue, c)
  /\ run_queue' = IF run_queue = NULL THEN c ELSE run_queue
  /\ saved' = [saved EXCEPT ![c] = "iret"]
  /\ pc' = [pc EXCEPT ![c] = "user"]
  /\ child_of' = [child_of EXCEPT ![c] = NULL]
  /\ UNCHANGED <<current_proc, tick_counter, IFlag>>

\* process_fork when kmalloc, vmm_create_user_pml4 or vmm_fork_pml4 fails:
\* the slot goes back to UNUSED with the fields already written.
process_fork_oom(c) ==
  /\ InUser
  /\ IsFree(c)
  /\ ppid' = [ppid EXCEPT ![c] = current_proc]
  /\ exit_status' = [exit_status EXCEPT ![c] = 0]
  /\ nxt' = [nxt EXCEPT ![c] = NULL]
  /\ UNCHANGED <<state, run_queue, current_proc, tick_counter, IFlag, saved,
                 pc, child_of>>

\* sys_exit and process_exit.
sys_exit(s) ==
  /\ InUser
  /\ exit_status' = [exit_status EXCEPT ![current_proc] = s]
  /\ pc' = [pc EXCEPT ![current_proc] = "dead"]
  /\ scheduler_yield([state EXCEPT ![current_proc] = "ZOMBIE"], "call", IFlag)
  /\ UNCHANGED <<ppid, nxt, tick_counter, child_of>>

\* Mutant: the parent check is dropped.
process_waitpid_nocheck(c) ==
  /\ InUser
  /\ state[c] # "UNUSED"
  /\ pc' = [pc EXCEPT ![current_proc] = "waitpid"]
  /\ child_of' = [child_of EXCEPT ![current_proc] = c]
  /\ UNCHANGED <<state, ppid, exit_status, nxt, run_queue, current_proc,
                 tick_counter, IFlag, saved>>

\* process_waitpid up to its loop; a failed check returns -1 at once.
process_waitpid(c) ==
  /\ InUser
  /\ state[c] # "UNUSED"
  /\ ppid[c] = current_proc
  /\ pc' = [pc EXCEPT ![current_proc] = "waitpid"]
  /\ child_of' = [child_of EXCEPT ![current_proc] = c]
  /\ UNCHANGED <<state, ppid, exit_status, nxt, run_queue, current_proc,
                 tick_counter, IFlag, saved>>

\* One iteration of the loop: the child has not exited, so yield.
waitpid_spin ==
  /\ pc[current_proc] = "waitpid"
  /\ state[child_of[current_proc]] # "ZOMBIE"
  /\ scheduler_yield(state, "call", IFlag)
  /\ UNCHANGED <<ppid, exit_status, nxt, tick_counter, pc, child_of>>

\* The loop is left: unlink the child, free its slot, sysret (IF is set).
waitpid_reap ==
  LET c == child_of[current_proc] IN
  /\ pc[current_proc] = "waitpid"
  /\ state[c] = "ZOMBIE"
  /\ nxt' = RemoveLinks(nxt, c)
  /\ run_queue' = RemoveHead(nxt, run_queue, c)
  /\ state' = [state EXCEPT ![c] = "UNUSED"]
  /\ pc' = [pc EXCEPT ![current_proc] = "user"]
  /\ child_of' = [child_of EXCEPT ![current_proc] = NULL]
  /\ IFlag' = TRUE
  /\ UNCHANGED <<ppid, exit_status, current_proc, tick_counter, saved>>

\* sys_read of the terminal, up to tty_read's loop.
tty_read ==
  /\ InUser
  /\ pc' = [pc EXCEPT ![current_proc] = "read"]
  /\ UNCHANGED <<state, ppid, exit_status, nxt, run_queue, current_proc,
                 tick_counter, IFlag, saved, child_of>>

\* The read ring, which tty_poll fills, is empty: yield and look again.
tty_read_spin ==
  /\ pc[current_proc] = "read"
  /\ scheduler_yield(state, "call", IFlag)
  /\ UNCHANGED <<ppid, exit_status, nxt, tick_counter, pc, child_of>>

\* It holds a line: the call returns through sysret.
tty_read_return ==
  /\ pc[current_proc] = "read"
  /\ pc' = [pc EXCEPT ![current_proc] = "user"]
  /\ IFlag' = TRUE
  /\ UNCHANGED <<state, ppid, exit_status, nxt, run_queue, current_proc,
                 tick_counter, saved, child_of>>
-----------------------------------------------------------------------------
(* Interrupts and the idle loop.                                           *)

\* A timer interrupt that does not end the slice, or ends it while idle
\* runs: scheduler_tick only counts.  It wakes a halted CPU.
WakeIdle == [pc EXCEPT ![current_proc] = IF @ = "hlt" THEN "yield" ELSE @]

timer_tick ==
  /\ IFlag
  /\ \/ /\ tick_counter + 1 < SCHED_TICKS_PER_SLICE
        /\ tick_counter' = tick_counter + 1
     \/ /\ tick_counter + 1 >= SCHED_TICKS_PER_SLICE
        /\ current_proc = idle
        /\ tick_counter' = 0
  /\ pc' = WakeIdle
  /\ UNCHANGED <<state, ppid, exit_status, nxt, run_queue, current_proc,
                 IFlag, saved, child_of>>

\* Mutant: the pending flag is cleared and scheduler_yield not called.
timer_preempt_forgotten ==
  /\ IFlag
  /\ tick_counter + 1 >= SCHED_TICKS_PER_SLICE
  /\ current_proc # idle
  /\ tick_counter' = 0
  /\ UNCHANGED <<state, ppid, exit_status, nxt, run_queue, current_proc, IFlag,
                 saved, pc, child_of>>

\* The tick that ends the slice of a process: scheduler_tick sets
\* scheduler_yield_pending, which irq_common tests and clears before it
\* calls scheduler_yield, all of it with IF = 0.
timer_preempt ==
  /\ IFlag
  /\ tick_counter + 1 >= SCHED_TICKS_PER_SLICE
  /\ current_proc # idle
  /\ tick_counter' = 0
  /\ scheduler_yield(state, "iret", FALSE)
  /\ UNCHANGED <<ppid, exit_status, nxt, pc, child_of>>

\* Any other interrupt: no yield is pending, so irq_common only wakes the CPU.
device_irq ==
  /\ IFlag
  /\ pc[current_proc] = "hlt"
  /\ pc' = WakeIdle
  /\ UNCHANGED <<state, ppid, exit_status, nxt, run_queue, current_proc,
                 tick_counter, IFlag, saved, child_of>>

\* kernel_main's loop: scheduler_yield(), then hlt.
idle_yield ==
  /\ current_proc = idle
  /\ pc[idle] = "yield"
  /\ pc' = [pc EXCEPT ![idle] = "hlt"]
  /\ scheduler_yield(state, "call", IFlag)
  /\ UNCHANGED <<ppid, exit_status, nxt, tick_counter, child_of>>
-----------------------------------------------------------------------------
(***************************************************************************)
(* What module initialisation leaves: idle runs, init (pid 1) and httpd    *)
(* (pid 2) are enqueued, httpd not if its launch failed and neither if     *)
(* init's did; then kernel_main sets IF and enters the idle loop.          *)
(* kthread_create does not write ppid.                                     *)
(***************************************************************************)
NoLinks == [p \in Pids |-> NULL]
IdleLinks == AddLinks(NoLinks, NULL, idle)
InitLinks == AddLinks(IdleLinks, idle, 1)
HttpdLinks == AddLinks(InitLinks, idle, 2)

Init ==
  \E launched \in {{}, {1}, {1, 2}} :
    /\ state = [p \in Pids |-> IF p = idle THEN "RUNNING"
                               ELSE IF p \in launched THEN "READY"
                               ELSE "UNUSED"]
    /\ nxt = IF 2 \in launched THEN HttpdLinks
             ELSE IF 1 \in launched THEN InitLinks ELSE IdleLinks
    /\ ppid = [p \in Pids |-> 0]
    /\ exit_status = [p \in Pids |-> 0]
    /\ run_queue = idle
    /\ current_proc = idle
    /\ tick_counter = 0
    /\ IFlag = TRUE
    /\ saved = [p \in Pids |-> "iret"]
    /\ pc = [p \in Pids |-> IF p = idle THEN "yield" ELSE "user"]
    /\ child_of = [p \in Pids |-> NULL]

Syscall ==
  \/ \E c \in Pids : process_fork(c) \/ process_fork_oom(c) \/ process_waitpid(c)
  \/ \E s \in Status : sys_exit(s)
  \/ tty_read

KernelStep ==
  waitpid_spin \/ waitpid_reap \/ tty_read_spin \/ tty_read_return \/ idle_yield

TimerIRQ == timer_tick \/ timer_preempt

Next == Syscall \/ KernelStep \/ TimerIRQ \/ device_irq

Spec == Init /\ [][Next]_vars

(***************************************************************************)
(* Fairness.  A context that gets the CPU again and again completes its    *)
(* next stretch of kernel code: a preempted one resumes where it stopped,  *)
(* and the PIT period is longer than the interrupt path.  The PIT          *)
(* interrupts at TIMER_HZ and the PIC holds a request raised while IF = 0, *)
(* hence strong fairness.  User programs and keyboards owe nothing.        *)
(***************************************************************************)
FairSpec ==
  /\ Spec
  /\ SF_vars(TimerIRQ)
  /\ \A p \in Pids : SF_vars(current_proc = p /\ KernelStep)
-----------------------------------------------------------------------------
TypeOK ==
  /\ state \in [Pids -> States]
  /\ ppid \in [Pids -> Pids]
  /\ exit_status \in [Pids -> Status]
  /\ nxt \in [Pids -> Pids \cup {NULL}]
  /\ run_queue \in Pids
  /\ current_proc \in Pids
  /\ tick_counter \in 0 .. SCHED_TICKS_PER_SLICE - 1
  /\ IFlag \in BOOLEAN
  /\ saved \in [Pids -> SaveModes]
  /\ pc \in [Pids -> PCs]
  /\ child_of \in [Pids -> Pids \cup {NULL}]

\* The links nx form one cycle through exactly the nodes of M.
Ring(nx, M) ==
  /\ \A p \in M : nx[p] \in M
  /\ \A p, q \in M : nx[p] = nx[q] => p = q
  /\ \A S \in SUBSET M :
        S # {} /\ (\A p \in S : nx[p] \in S) => S = M

(***************************************************************************)
(* The run queue is one cycle through exactly the slots in use: every link *)
(* of a live slot leads to a live slot, no two meet, no proper part of the *)
(* ring is closed, and a free slot is linked to nothing.  This is what     *)
(* scheduler_add, scheduler_remove and the order "unlink, then free" in    *)
(* process_waitpid must keep, or scheduler_yield's loop walks into a freed *)
(* slot or never meets the idle process.                                   *)
(***************************************************************************)
RingIsLive ==
  /\ Ring(nxt, Live)
  /\ \A p \in Pids \ Live : nxt[p] = NULL

(***************************************************************************)
(* The process the CPU executes is current_proc, it is the head of the run *)
(* queue, and it alone is RUNNING: the three notions of "the current       *)
(* process" in process.c and scheduler.c agree whenever a context runs.    *)
(***************************************************************************)
OneRunning ==
  /\ run_queue = current_proc
  /\ \A p \in Pids : state[p] = "RUNNING" <=> p = current_proc

(***************************************************************************)
(* A process inside waitpid keeps its claim: over all the yields of the    *)
(* loop its `child` pointer designates a slot in use whose ppid is still   *)
(* the waiter, so the slot it reaps is the one it checked on entry.        *)
(***************************************************************************)
WaiterKeepsChild ==
  \A p \in Pids : pc[p] = "waitpid" =>
    /\ child_of[p] \in Live
    /\ ppid[child_of[p]] = p
    /\ child_of[p] # p

(***************************************************************************)
(* User code never runs with interrupts masked: a context in user mode is  *)
(* only ever suspended under irq_common or before its first instruction,   *)
(* and those leave through iretq or sysret.  Otherwise a looping program   *)
(* could not be preempted.                                                 *)
(***************************************************************************)
UserRunsUnmasked ==
  /\ pc[current_proc] = "user" => IFlag
  /\ \A p \in Live \ {current_proc} : pc[p] = "user" => saved[p] = "iret"

(***************************************************************************)
(* The scheduler switches only to READY processes: an exited process never *)
(* executes again (process_exit's final hlt loop is not reached).          *)
(***************************************************************************)
SwitchesToReady ==
  [][current_proc' # current_proc => state[current_proc'] = "READY"]_vars

(***************************************************************************)
(* An exit status is not lost: from exit until the slot is freed nothing   *)
(* overwrites it, and only the process recorded as parent frees the slot.  *)
(***************************************************************************)
ZombieKeptForParent ==
  [][\A p \in Pids : state[p] = "ZOMBIE" =>
       \/ state'[p] = "ZOMBIE" /\ exit_status'[p] = exit_status[p]
       \/ state'[p] = "UNUSED" /\ ppid[p] = current_proc
          /\ child_of[current_proc] = p]_vars

(***************************************************************************)
(* The facts the safety properties rest on besides each other: the idle    *)
(* process is always runnable and never leaves kernel_main, which is why   *)
(* scheduler_yield always finds a runnable process, and only a process     *)
(* that waits has a `child`; nobody but pid 0 is its own parent.           *)
(***************************************************************************)
IdleInv ==
  /\ Runnable(state, idle)
  /\ pc[idle] \in {"yield", "hlt"}
  /\ \A p \in Pids \ {idle} : ppid[p] # p

\* The inductive invariant of module SchedulerProofs.
IInv ==
  /\ TypeOK
  /\ RingIsLive
  /\ OneRunning
  /\ IdleInv
  /\ WaiterKeepsChild
  /\ UserRunsUnmasked

\* The CPU is halted with interrupts masked: nothing will ever run again.
Stuck == current_proc = idle /\ pc[idle] = "hlt" /\ ~IFlag

(***************************************************************************)
(* Round robin starves nobody: a READY process eventually runs, however    *)
(* the others fork, exit, wait or loop, unless the CPU halts masked (see   *)
(* IdleYieldsToReady).  New children are inserted ahead of the others.     *)
(***************************************************************************)
NoStarvation ==
  \A p \in Pids : state[p] = "READY" ~> (state[p] = "RUNNING" \/ Stuck)

(***************************************************************************)
(* A waiter whose child has exited eventually returns from waitpid, unless *)
(* the CPU halts masked.                                                   *)
(***************************************************************************)
WaitpidReturns ==
  \A p \in Pids :
    pc[p] = "waitpid" /\ state[child_of[p]] = "ZOMBIE"
      ~> (pc[p] = "user" \/ Stuck)
-----------------------------------------------------------------------------
(***************************************************************************)
(* kernel.c:20 says the idle loop "yields the CPU whenever other processes *)
(* are ready".                                                             *)
(***************************************************************************)
IdleYieldsToReady == Stuck => \A p \in Pids : state[p] # "READY"
=============================================================================
