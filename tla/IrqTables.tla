----------------------------- MODULE IrqTables ------------------------------
(***************************************************************************)
(* The interrupt path's state and what it promises; module Interrupts has  *)
(* its steps.  The tables are filled while the modules start: the handlers *)
(* of pic.c and the timer callbacks of timer.c.  A number or a callback    *)
(* beyond a table is dropped.                                              *)
(***************************************************************************)
EXTENDS Naturals, Sequences

CONSTANTS
  IRQ_COUNT,              \* lines of the two controllers
  TIMER_MAX_CALLBACKS

\* Line 7, where a spurious interrupt arrives, has a stub and an entry, and the
\* timer has room for the callbacks the modules register (16 and 8 in the code).
ASSUME IrqTablesAssumption ==
  /\ IRQ_COUNT \in Nat /\ IRQ_COUNT > 7
  /\ TIMER_MAX_CALLBACKS \in Nat /\ TIMER_MAX_CALLBACKS >= 3

VARIABLES
  irr, isr, imr,            \* requested, in service and masked lines
  irq_handlers, callbacks,  \* the tables filled while the modules start
  owed,                     \* history: timer ticks a callback has not seen
  tick_counter,             \* scheduler.c: ticks of the current slice
  scheduler_yield_pending,
  current_proc,
  IFlag,                    \* RFLAGS.IF of the CPU
  frame                     \* where each process is: see At of Interrupts

Callbacks == {"tty_poll", "scheduler_tick", "net_poll"}

Lines == 0..IRQ_COUNT - 1

irq_register(handlers, irq, fn) ==
  IF irq < IRQ_COUNT THEN [handlers EXCEPT ![irq] = fn] ELSE handlers

irq_enable(mask, irq) == mask \ {irq}

timer_register_callback(cbs, fn) ==
  IF Len(cbs) >= TIMER_MAX_CALLBACKS THEN cbs ELSE Append(cbs, fn)

\* The order of the module table: tty, scheduler, dhcp.
BootCallbacks ==
  timer_register_callback(
    timer_register_callback(
      timer_register_callback(<<>>, "tty_poll"), "scheduler_tick"), "net_poll")
-----------------------------------------------------------------------------
\* An interrupt leaves nothing half done, whichever process the CPU switches to
\* in its middle.  Whenever interrupts are enabled no line is still in service,
\* where it would block the next tick (the EOI of irq_dispatch).  Outside the
\* handler, each callback has been called once for every tick, and no preemption
\* is pending that would hit the next process (timer_irq_handler, irq_common).
InterruptIsWhole ==
  /\ IFlag => isr = {}
  /\ frame[current_proc].at \in {"run", "hlt", "iret"} =>
       /\ \A c \in Callbacks : owed[c] = 0
       /\ ~scheduler_yield_pending
=============================================================================
