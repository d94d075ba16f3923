----------------------------- MODULE Interrupts -----------------------------
(***************************************************************************)
(* The interrupt path: the 8259A and its handler table (src/src/pic/pic.c, *)
(* irq_stubs.asm), the timer's callback table (src/src/timer/timer.c) and  *)
(* the deferred preemption of scheduler_tick, while processes switch away  *)
(* in the middle of an interrupt.  Which process runs next is module       *)
(* Scheduler's subject, what the callbacks do that of Terminal, Nic, Dhcp  *)
(* and Tcp.  Only lines 0 and 1 are ever unmasked, so the slave controller *)
(* never interrupts.                                                       *)
(***************************************************************************)
EXTENDS Processes, IrqTables

CONSTANTS SCHED_TICKS_PER_SLICE, NULL

irqvars == <<irr, isr, imr, irq_handlers, callbacks, owed, tick_counter,
          scheduler_yield_pending, current_proc, IFlag, frame>>

tables == <<irq_handlers, callbacks, imr>>

(***************************************************************************)
(* "run": outside an interrupt.  "hlt": idle, halted.  "stub": in          *)
(* irq_common before irq_dispatch.  "handler": the EOI is sent.  "cb": in  *)
(* timer_irq_handler, callback `next` is due.  "check": irq_dispatch has   *)
(* returned.  "iret": past scheduler_yield.                                *)
(***************************************************************************)
At(p, places) == current_proc = p /\ frame[p].at \in places
Goto(p, place) == [frame EXCEPT ![p].at = place]
-----------------------------------------------------------------------------
\* No handler, nothing in service, every line masked, all gates installed.
pic_init == [handlers |-> [l \in Lines |-> NULL], mask |-> Lines]

timer_init(b) ==
  [handlers |-> irq_register(b.handlers, 0, "timer"),
   mask |-> irq_enable(b.mask, 0)]

keyboard_init(b) ==
  [handlers |-> irq_register(b.handlers, 1, "keyboard"),
   mask |-> irq_enable(b.mask, 1)]
-----------------------------------------------------------------------------
\* The PIT or the keyboard raises its line; a second edge is lost.
Raise(l) ==
  /\ irr' = irr \cup {l}
  /\ UNCHANGED <<isr, tables, owed, tick_counter, scheduler_yield_pending,
                 current_proc, IFlag, frame>>

\* A line in service blocks itself and those of lower priority.
Deliverable(l) == l \in irr \ imr /\ \A k \in isr : l < k

\* The CPU takes line l; its gate clears IF and enters the stub.
irq_stub(p, l) ==
  /\ At(p, {"run", "hlt"}) /\ IFlag /\ Deliverable(l)
  /\ irr' = irr \ {l} /\ isr' = isr \cup {l}
  /\ IFlag' = FALSE
  /\ frame' = [frame EXCEPT ![p] = [at |-> "stub", irq |-> l, next |-> 1]]
  /\ UNCHANGED <<tables, owed, tick_counter, scheduler_yield_pending,
                 current_proc>>

\* A request that goes away before it is acknowledged is delivered as line 7
\* and is not in service.
spurious(p) ==
  /\ At(p, {"run", "hlt"}) /\ IFlag /\ \E l \in irr : Deliverable(l)
  /\ irr' = {l \in irr : ~Deliverable(l)}
  /\ IFlag' = FALSE
  /\ frame' = [frame EXCEPT ![p] = [at |-> "stub", irq |-> 7, next |-> 1]]
  /\ UNCHANGED <<isr, tables, owed, tick_counter, scheduler_yield_pending,
                 current_proc>>

\* A non-specific EOI ends the line of highest priority in service.
pic_eoi(irq) == isr' = {l \in isr : \E k \in isr : k < l}

\* irq_dispatch: EOI, then the handler if there is one.
irq_dispatch(p) ==
  /\ At(p, {"stub"})
  /\ pic_eoi(frame[p].irq)
  /\ frame' = Goto(p, IF irq_handlers[frame[p].irq] = NULL THEN "check"
                      ELSE "handler")
  /\ UNCHANGED <<irr, tables, owed, tick_counter, scheduler_yield_pending,
                 current_proc, IFlag>>

\* keyboard_irq_handler, which module Terminal models.
keyboard_irq_handler(p) ==
  /\ At(p, {"handler"}) /\ irq_handlers[frame[p].irq] = "keyboard"
  /\ frame' = Goto(p, "check")
  /\ UNCHANGED <<irr, isr, tables, owed, tick_counter,
                 scheduler_yield_pending, current_proc, IFlag>>

timer_irq_handler(p) ==
  /\ At(p, {"handler"}) /\ irq_handlers[frame[p].irq] = "timer"
  /\ owed' = [c \in Callbacks |-> owed[c] + 1]
  /\ frame' = Goto(p, "cb")
  /\ UNCHANGED <<irr, isr, tables, tick_counter, scheduler_yield_pending,
                 current_proc, IFlag>>
-----------------------------------------------------------------------------
\* scheduler_yield: process q goes on where it was, or the caller itself when
\* no other is ready.  RFLAGS is not part of a saved context.
SwitchTo(q) == current_proc' = q

\* Mutant: the preemption of scheduler_tick, done on the spot.
scheduler_tick_now(p) ==
  /\ tick_counter' = (tick_counter + 1) % SCHED_TICKS_PER_SLICE
  /\ IF tick_counter' = 0 /\ p # idle
     THEN \E q \in Procs \cup {idle} : SwitchTo(q)
     ELSE UNCHANGED current_proc
  /\ UNCHANGED scheduler_yield_pending

\* A slice that is used up asks for a preemption, except of idle.
scheduler_tick(p) ==
  /\ tick_counter' = (tick_counter + 1) % SCHED_TICKS_PER_SLICE
  /\ scheduler_yield_pending' =
       (scheduler_yield_pending \/ (tick_counter' = 0 /\ p # idle))
  /\ UNCHANGED current_proc

\* callbacks[i](), one a step.
Callback(p) ==
  LET i == frame[p].next IN
  /\ At(p, {"cb"}) /\ i <= Len(callbacks)
  /\ owed' = [owed EXCEPT ![callbacks[i]] = @ - 1]
  /\ frame' = [frame EXCEPT ![p].next = i + 1]
  /\ \/ callbacks[i] = "scheduler_tick" /\ scheduler_tick(p)
     \/ /\ callbacks[i] # "scheduler_tick"
        /\ UNCHANGED <<tick_counter, scheduler_yield_pending, current_proc>>
  /\ UNCHANGED <<irr, isr, tables, IFlag>>

TimerReturns(p) ==
  /\ At(p, {"cb"}) /\ frame[p].next > Len(callbacks)
  /\ frame' = Goto(p, "check")
  /\ UNCHANGED <<irr, isr, tables, owed, tick_counter,
                 scheduler_yield_pending, current_proc, IFlag>>

\* irq_common tests and clears the flag and yields, still with IF clear.
CheckYield(p) ==
  /\ At(p, {"check"})
  /\ frame' = Goto(p, "iret")
  /\ scheduler_yield_pending' = FALSE
  /\ IF scheduler_yield_pending
     THEN \E q \in Procs \cup {idle} : SwitchTo(q)
     ELSE UNCHANGED current_proc
  /\ UNCHANGED <<irr, isr, tables, owed, tick_counter, IFlag>>

\* The rest of irq_common; idle goes round its loop when hlt returns.
irq_return(p) ==
  /\ At(p, {"iret"})
  /\ IFlag' = TRUE
  /\ frame' = Goto(p, "run")
  /\ UNCHANGED <<irr, isr, tables, owed, tick_counter,
                 scheduler_yield_pending, current_proc>>

\* A process resumed in the kernel with IF clear gets it back at sysret.
sysret_sets_IF(p) ==
  /\ p # idle /\ At(p, {"run"}) /\ ~IFlag
  /\ IFlag' = TRUE
  /\ UNCHANGED <<irr, isr, tables, owed, tick_counter,
                 scheduler_yield_pending, current_proc, frame>>

\* A process yields in a system call, idle in its loop, to halt afterwards.
Yield(p) ==
  /\ At(p, {"run"})
  /\ \E q \in Procs \cup {idle} : SwitchTo(q)
  /\ frame' = IF p = idle THEN Goto(p, "hlt") ELSE frame
  /\ UNCHANGED <<irr, isr, tables, owed, tick_counter,
                 scheduler_yield_pending, IFlag>>
-----------------------------------------------------------------------------
\* kernel_main has started every module and executes sti.
IrqInit ==
  LET b == keyboard_init(timer_init(pic_init)) IN
  /\ irr \in SUBSET {0, 1} /\ isr = {} /\ imr = b.mask
  /\ irq_handlers = b.handlers /\ callbacks = BootCallbacks
  /\ owed = [c \in Callbacks |-> 0]
  /\ tick_counter = 0 /\ scheduler_yield_pending = FALSE
  /\ current_proc = idle /\ IFlag = TRUE
  /\ frame = [p \in Procs \cup {idle} |-> [at |-> "run", irq |-> 0, next |-> 1]]

IrqNext ==
  \/ \E l \in {0, 1} : Raise(l)
  \/ \E p \in Procs \cup {idle} :
       \/ \E l \in Lines : irq_stub(p, l)
       \/ spurious(p) \/ irq_dispatch(p)
       \/ keyboard_irq_handler(p) \/ timer_irq_handler(p)
       \/ Callback(p) \/ TimerReturns(p)
       \/ CheckYield(p) \/ irq_return(p) \/ sysret_sets_IF(p) \/ Yield(p)

IrqSpec == IrqInit /\ [][IrqNext]_irqvars
=============================================================================
