--------------------------- MODULE MachineProofs ----------------------------
(***************************************************************************)
(* The parts of the kernel next to the machine.  An interrupt leaves       *)
(* nothing half done, for any number of processes, any slice length and    *)
(* any tables that hold what the modules register.  A system call returns  *)
(* to where it was made, for any number of processes, kernel stacks and    *)
(* user contexts, wherever the timer preempts it.  And for every memory    *)
(* map, kernel size and number of frames, no frame is handed out twice and *)
(* the free counter never drifts from the bitmap.                          *)
(***************************************************************************)
EXTENDS Interrupts, SyscallEntry, Pmm, FiniteSetTheorems, TLAPS

(***************************************************************************)
(* Interrupts.  The invariant follows the interrupt through irq_common:    *)
(* only the current process can be inside one, a line is in service only   *)
(* before irq_dispatch, and inside the timer's loop exactly the callbacks  *)
(* not yet reached are owed the tick.                                      *)
(***************************************************************************)
All == Procs \cup {idle}
Outside == {"run", "hlt", "iret"}
Places == Outside \cup {"stub", "handler", "cb", "check"}
IrqFrames == [at : Places, irq : Lines, next : Nat]

IrqTypes ==
  /\ current_proc \in All
  /\ frame \in [All -> IrqFrames]
  /\ owed \in [Callbacks -> Nat]
  /\ IFlag \in BOOLEAN /\ scheduler_yield_pending \in BOOLEAN

\* Where a callback stands in the timer's table.
Slot(c) == IF c = "tty_poll" THEN 1 ELSE IF c = "scheduler_tick" THEN 2 ELSE 3

\* What the modules registered stays.
TablesFilled ==
  /\ callbacks \in Seq(Callbacks) /\ Len(callbacks) >= 3 /\ Len(callbacks) <= 3
  /\ \A c \in Callbacks : callbacks[Slot(c)] = c
  /\ irq_handlers = [l \in Lines |-> IF l = 0 THEN "timer"
                                     ELSE IF l = 1 THEN "keyboard" ELSE NULL]

\* What the place of the current process says of the controller, the ticks
\* owed and the pending preemption; f is its frame.
Progress(f) ==
  /\ IFlag => f.at \in Outside
  /\ \/ isr = {}
     \/ f.at = "stub" /\ isr = {f.irq}
  /\ f.at \in {"stub", "handler"} => f.next = 1
  /\ \A c \in Callbacks : owed[c] = IF f.at = "cb" /\ f.next <= Slot(c) THEN 1 ELSE 0
  /\ scheduler_yield_pending => f.at \in {"cb", "check"}
  /\ f.at = "cb" => f.next >= 1

\* A process that lost the CPU did so outside an interrupt or at its end.
OthersAreOutside == \A p \in All : p # current_proc => frame[p].at \in Outside

\* The inductive invariant.
IrqInv == IrqTypes /\ TablesFilled /\ OthersAreOutside /\ Progress(frame[current_proc])

USE IrqTablesAssumption

\* The timer's table has room for all three.  (The lengths are bounded from both
\* sides because the provers lose an equation between a length and a number.)
LEMMA ThreeCallbacks ==
  /\ BootCallbacks \in Seq(Callbacks)
  /\ Len(BootCallbacks) >= 3 /\ Len(BootCallbacks) <= 3
  /\ \A c \in Callbacks : BootCallbacks[Slot(c)] = c
<1> DEFINE one == timer_register_callback(<<>>, "tty_poll")
           two == timer_register_callback(one, "scheduler_tick")
           three == timer_register_callback(two, "net_poll")
<1>0. "tty_poll" \in Callbacks /\ "scheduler_tick" \in Callbacks /\ "net_poll" \in Callbacks
  BY DEF Callbacks
<1>1. one \in Seq(Callbacks) /\ Len(one) >= 1 /\ Len(one) <= 1 /\ one[1] = "tty_poll"
  BY <1>0 DEF timer_register_callback
<1> HIDE DEF one
<1>2. /\ two \in Seq(Callbacks) /\ Len(two) >= 2 /\ Len(two) <= 2
      /\ two[1] = "tty_poll" /\ two[2] = "scheduler_tick"
  <2>1. two = Append(one, "scheduler_tick")
    BY <1>1 DEF timer_register_callback
  <2> HIDE DEF two
  <2> QED BY <1>0, <1>1, <2>1
<1> HIDE DEF two
<1>3. /\ three \in Seq(Callbacks) /\ Len(three) >= 3 /\ Len(three) <= 3
      /\ three[1] = "tty_poll" /\ three[2] = "scheduler_tick" /\ three[3] = "net_poll"
  <2>1. three = Append(two, "net_poll")
    BY <1>2 DEF timer_register_callback
  <2> HIDE DEF three
  <2> QED BY <1>0, <1>2, <2>1
<1>4. BootCallbacks = three
  BY DEF BootCallbacks, one, two
<1> HIDE DEF three
<1>5. ASSUME NEW c \in Callbacks PROVE three[Slot(c)] = c
  <2>1. CASE c = "tty_poll"
    BY <1>3, <2>1 DEF Slot
  <2>2. CASE c = "scheduler_tick"
    BY <1>3, <2>2 DEF Slot
  <2>3. CASE c = "net_poll"
    BY <1>3, <2>3 DEF Slot
  <2> QED BY <2>1, <2>2, <2>3 DEF Callbacks
<1> QED BY <1>3, <1>4, <1>5

\* kernel_main enables interrupts with nothing in service and nothing owed.
THEOREM IrqStarts == IrqInit => IrqInv
<1> SUFFICES ASSUME IrqInit PROVE IrqInv
  OBVIOUS
<1> DEFINE start == [at |-> "run", irq |-> 0, next |-> 1]
<1>1. /\ current_proc = idle /\ idle \in All
      /\ frame = [p \in All |-> start]
      /\ owed = [c \in Callbacks |-> 0]
      /\ isr = {} /\ IFlag = TRUE /\ scheduler_yield_pending = FALSE
  BY DEF IrqInit, All
<1>2. start \in IrqFrames
  BY DEF IrqFrames, Places, Outside, Lines
<1>3. IrqTypes
  BY Zenon, <1>1, <1>2 DEF IrqTypes
<1>4. TablesFilled
  <2> DEFINE h0 == [l \in Lines |-> NULL]
             h1 == [h0 EXCEPT ![0] = "timer"]
             h2 == [h1 EXCEPT ![1] = "keyboard"]
  <2>1. timer_init(pic_init).handlers = h1
    BY DEF timer_init, pic_init, irq_register
  <2>2. keyboard_init(timer_init(pic_init)).handlers = h2
    BY <2>1 DEF keyboard_init, irq_register
  <2>3. h2 = [l \in Lines |-> IF l = 0 THEN "timer" ELSE IF l = 1 THEN "keyboard" ELSE NULL]
    BY DEF Lines
  <2>4. irq_handlers = h2 /\ callbacks = BootCallbacks
    BY <2>2 DEF IrqInit
  <2> QED BY <2>3, <2>4, ThreeCallbacks DEF TablesFilled
<1>5. frame[current_proc] = start
  BY <1>1
<1>6. OthersAreOutside
  BY <1>1 DEF OthersAreOutside, Outside
<1>7. Progress(frame[current_proc])
  <2>1. \A c \in Callbacks : owed[c] = 0
    BY <1>1
  <2>2. start.at = "run"
    OBVIOUS
  <2> QED BY <1>1, <1>5, <2>1, <2>2 DEF Progress, Outside
<1> QED BY <1>3, <1>4, <1>6, <1>7 DEF IrqInv

\* A step of the current process that keeps the CPU.
LEMMA FrameStep ==
  ASSUME IrqInv, UNCHANGED <<tables, current_proc>>, NEW f \in IrqFrames,
         frame' = [frame EXCEPT ![current_proc] = f],
         owed' \in [Callbacks -> Nat], IFlag' \in BOOLEAN,
         scheduler_yield_pending' \in BOOLEAN, Progress(f)'
  PROVE  IrqInv'
<1>1. IrqTypes' /\ TablesFilled' /\ OthersAreOutside'
  BY DEF IrqInv, IrqTypes, TablesFilled, OthersAreOutside, tables
<1>2. frame'[current_proc'] = f
  BY DEF IrqInv, IrqTypes
<1> QED BY <1>1, <1>2 DEF IrqInv, Progress

\* A step that leaves the process outside its interrupt may give the CPU to any
\* process, which is outside as well.
LEMMA SwitchStep ==
  ASSUME IrqInv, UNCHANGED <<tables, isr, owed>>, NEW f \in IrqFrames,
         f.at \in Outside,
         frame' = [frame EXCEPT ![current_proc] = f],
         current_proc' \in All,
         IFlag' \in BOOLEAN, scheduler_yield_pending' = FALSE,
         isr = {}, \A c \in Callbacks : owed[c] = 0
  PROVE  IrqInv'
<1>1. IrqTypes' /\ TablesFilled'
  BY Zenon DEF IrqInv, IrqTypes, TablesFilled, tables
<1>2. \A p \in All : frame'[p].at \in Outside
  BY DEF IrqInv, IrqTypes, OthersAreOutside
<1>3. Progress(frame[current_proc])'
  BY <1>1, <1>2 DEF Progress, Outside, IrqTypes
<1> QED BY <1>1, <1>2, <1>3 DEF IrqInv, OthersAreOutside
-----------------------------------------------------------------------------
\* The current process's frame with another place in it.
LEMMA GotoFrame ==
  ASSUME IrqTypes, NEW place \in Places, current_proc \in All
  PROVE  \E f \in IrqFrames :
           /\ f.at = place /\ f.irq = frame[current_proc].irq
           /\ f.next = frame[current_proc].next
           /\ Goto(current_proc, place) = [frame EXCEPT ![current_proc] = f]
<1> DEFINE g == [frame[current_proc] EXCEPT !.at = place]
<1>1. /\ g \in IrqFrames
      /\ g.at = place /\ g.irq = frame[current_proc].irq
      /\ g.next = frame[current_proc].next
      /\ Goto(current_proc, place) = [frame EXCEPT ![current_proc] = g]
  BY DEF IrqTypes, IrqFrames, Goto
<1> HIDE DEF g
<1> QED BY Zenon, <1>1

\* The gate: a line is taken only outside an interrupt, when none is in service.
LEMMA StubStep ==
  ASSUME IrqInv, NEW p \in All, NEW l \in Lines, irq_stub(p, l) \/ spurious(p)
  PROVE  IrqInv'
<1>1. /\ p = current_proc /\ frame[current_proc].at \in {"run", "hlt"}
      /\ UNCHANGED <<tables, owed, scheduler_yield_pending, current_proc>>
      /\ IFlag' = FALSE
  BY DEF irq_stub, spurious, At
<1>2. /\ isr = {} /\ ~scheduler_yield_pending /\ scheduler_yield_pending \in BOOLEAN
      /\ \A c \in Callbacks : owed[c] = 0
      /\ owed \in [Callbacks -> Nat]
  BY <1>1 DEF IrqInv, IrqTypes, Progress
<1>3. ASSUME NEW irq \in Lines, isr' \in {{}, {irq}},
             frame' = [frame EXCEPT ![p] = [at |-> "stub", irq |-> irq, next |-> 1]]
      PROVE  IrqInv'
  <2> DEFINE f == [at |-> "stub", irq |-> irq, next |-> 1]
  <2>1. f \in IrqFrames
    BY DEF IrqFrames, Places
  <2>2. f.at = "stub" /\ f.irq = irq /\ f.next = 1
    OBVIOUS
  <2> HIDE DEF f
  <2>3. Progress(f)'
    BY <1>1, <1>2, <1>3, <2>2 DEF Progress
  <2> QED BY Zenon, <1>1, <1>2, <1>3, <2>1, <2>3, FrameStep DEF f
<1>4. CASE irq_stub(p, l)
  <2>1. isr' = {l}
    BY <1>2, <1>4 DEF irq_stub
  <2> QED BY Zenon, <1>3, <1>4, <2>1 DEF irq_stub
<1>5. CASE spurious(p)
  <2>1. 7 \in Lines /\ isr' = {}
    BY <1>2, <1>5 DEF spurious, Lines
  <2> QED BY Zenon, <1>3, <1>5, <2>1 DEF spurious
<1> QED BY <1>4, <1>5

\* irq_dispatch: the EOI ends the one line in service.
LEMMA DispatchStep ==
  ASSUME IrqInv, NEW p \in All, irq_dispatch(p)
  PROVE  IrqInv'
<1> DEFINE g == frame[current_proc]
<1>1. /\ p = current_proc /\ g.at = "stub" /\ g \in IrqFrames /\ IrqTypes
      /\ UNCHANGED <<tables, owed, scheduler_yield_pending, current_proc, IFlag>>
  BY DEF irq_dispatch, At, IrqInv, IrqTypes
<1>2. PICK place \in {"check", "handler"} : frame' = Goto(current_proc, place)
  BY Zenon, <1>1 DEF irq_dispatch
<1>3. PICK f \in IrqFrames : /\ f.at = place /\ f.irq = g.irq /\ f.next = g.next
                         /\ frame' = [frame EXCEPT ![current_proc] = f]
  BY Zenon, <1>1, <1>2, GotoFrame DEF Places
<1>4. isr' = {}
  <2>1. isr = {} \/ isr = {g.irq}
    BY Zenon, <1>1 DEF IrqInv, Progress
  <2>2. g.irq \in Nat
    BY <1>1 DEF IrqFrames, Lines
  <2>3. isr' = {l \in isr : \E k \in isr : k < l}
    BY Zenon DEF irq_dispatch, pic_eoi
  <2> QED BY <2>1, <2>2, <2>3
<1>5. /\ ~IFlag /\ g.next = 1 /\ ~scheduler_yield_pending
      /\ \A c \in Callbacks : owed[c] = 0
  BY Zenon, <1>1 DEF IrqInv, Progress, Outside
<1>6. /\ owed \in [Callbacks -> Nat] /\ IFlag \in BOOLEAN
      /\ scheduler_yield_pending \in BOOLEAN
  BY <1>1 DEF IrqTypes
<1> HIDE DEF g
<1>7. Progress(f)'
  BY <1>1, <1>2, <1>3, <1>4, <1>5 DEF Progress
<1> QED BY Zenon, <1>1, <1>3, <1>6, <1>7, FrameStep

\* The handlers: the timer's owes every callback a tick, the keyboard's is done.
LEMMA HandlerStep ==
  ASSUME IrqInv, NEW p \in All, keyboard_irq_handler(p) \/ timer_irq_handler(p)
  PROVE  IrqInv'
<1> DEFINE g == frame[current_proc]
<1>1. /\ p = current_proc /\ g.at = "handler" /\ g \in IrqFrames /\ IrqTypes
      /\ UNCHANGED <<isr, tables, scheduler_yield_pending, current_proc, IFlag>>
  BY Zenon DEF keyboard_irq_handler, timer_irq_handler, At, IrqInv, IrqTypes
<1>2. /\ ~IFlag /\ g.next = 1 /\ ~scheduler_yield_pending /\ isr = {}
      /\ \A c \in Callbacks : owed[c] = 0
  BY Zenon, <1>1 DEF IrqInv, Progress, Outside
<1>3. /\ owed \in [Callbacks -> Nat] /\ IFlag \in BOOLEAN
      /\ scheduler_yield_pending \in BOOLEAN
  BY <1>1 DEF IrqTypes
<1>4. \A c \in Callbacks : 1 <= Slot(c)
  BY DEF Slot
<1>5. CASE keyboard_irq_handler(p)
  <2>1. frame' = Goto(current_proc, "check") /\ owed' = owed
    BY Zenon, <1>1, <1>5 DEF keyboard_irq_handler
  <2>2. PICK f \in IrqFrames : f.at = "check" /\ frame' = [frame EXCEPT ![current_proc] = f]
    BY Zenon, <1>1, <2>1, GotoFrame DEF Places
  <2> HIDE DEF g
  <2>3. Progress(f)'
    BY <1>1, <1>2, <2>1, <2>2 DEF Progress
  <2> QED BY <1>1, <1>3, <2>1, <2>2, <2>3, FrameStep
<1>6. CASE timer_irq_handler(p)
  <2>1. frame' = Goto(current_proc, "cb") /\ owed' = [c \in Callbacks |-> owed[c] + 1]
    BY Zenon, <1>1, <1>6 DEF timer_irq_handler
  <2>2. PICK f \in IrqFrames : /\ f.at = "cb" /\ f.next = g.next
                            /\ frame' = [frame EXCEPT ![current_proc] = f]
    BY Zenon, <1>1, <2>1, GotoFrame DEF Places
  <2>3. owed' \in [Callbacks -> Nat] /\ \A c \in Callbacks : owed'[c] = 1
    BY <1>2, <1>3, <2>1
  <2> HIDE DEF g
  <2>4. Progress(f)'
    BY <1>1, <1>2, <1>4, <2>2, <2>3 DEF Progress
  <2> QED BY Zenon, <1>1, <1>3, <2>2, <2>3, <2>4, FrameStep
<1> QED BY <1>5, <1>6

\* One turn of the timer's loop: the callback due gets its tick, and a slice
\* used up leaves its mark for irq_common.
LEMMA CallbackStep ==
  ASSUME IrqInv, NEW p \in All, Callback(p)
  PROVE  IrqInv'
<1> DEFINE g == frame[current_proc]
           i == g.next
<1>1. /\ p = current_proc /\ g.at = "cb" /\ g \in IrqFrames /\ IrqTypes /\ TablesFilled
      /\ i <= Len(callbacks)
      /\ owed' = [owed EXCEPT ![callbacks[i]] = @ - 1]
      /\ frame' = [frame EXCEPT ![current_proc].next = i + 1]
      /\ UNCHANGED <<isr, tables, IFlag>>
  BY DEF Callback, At, IrqInv, IrqTypes
<1>2. /\ ~IFlag /\ i >= 1 /\ isr = {}
      /\ \A c \in Callbacks : owed[c] = IF i <= Slot(c) THEN 1 ELSE 0
  BY <1>1 DEF IrqInv, Progress, Outside
<1>3. i \in {1, 2, 3}
  BY <1>1, <1>2 DEF TablesFilled, IrqFrames
<1>4. PICK c \in Callbacks : Slot(c) = i /\ callbacks[i] = c
  <2>1. CASE i = 1
    BY <1>1, <2>1 DEF TablesFilled, Callbacks, Slot
  <2>2. CASE i = 2
    BY <1>1, <2>2 DEF TablesFilled, Callbacks, Slot
  <2>3. CASE i = 3
    BY <1>1, <2>3 DEF TablesFilled, Callbacks, Slot
  <2> QED BY Zenon, <1>3, <2>1, <2>2, <2>3
<1>5. current_proc' = current_proc /\ scheduler_yield_pending' \in BOOLEAN
  <2>1. scheduler_yield_pending \in BOOLEAN
    BY <1>1 DEF IrqTypes
  <2> QED BY Zenon, <2>1 DEF Callback, scheduler_tick
<1>6. PICK f \in IrqFrames : /\ f.at = "cb" /\ f.next = i + 1
                          /\ frame' = [frame EXCEPT ![current_proc] = f]
  <2> DEFINE h == [g EXCEPT !.next = i + 1]
  <2>1. frame' = [frame EXCEPT ![current_proc] = h]
    BY <1>1, Zenon
  <2>2. i + 1 \in Nat
    BY <1>3
  <2>3. h \in IrqFrames /\ h.at = "cb" /\ h.next = i + 1
    BY Zenon, <1>1, <2>2 DEF IrqFrames
  <2> HIDE DEF h
  <2> QED BY Zenon, <2>1, <2>3
<1>7. \A d \in Callbacks : Slot(d) = Slot(c) => d = c
  BY <1>4 DEF Slot, Callbacks
<1>8. \A d \in Callbacks : Slot(d) \in Nat
  BY DEF Slot
<1>9. \A d \in Callbacks : owed'[d] = IF i + 1 <= Slot(d) THEN 1 ELSE 0
  <2> SUFFICES ASSUME NEW d \in Callbacks
               PROVE  owed'[d] = IF i + 1 <= Slot(d) THEN 1 ELSE 0
    BY Zenon
  <2>0. owed \in [Callbacks -> Nat] /\ i \in Nat
    BY <1>1, <1>3 DEF IrqTypes
  <2>1. CASE d = c
    <3>1. owed[c] = 1 /\ owed'[c] = owed[c] - 1
      BY <1>1, <1>2, <1>4, <2>0
    <3> QED BY <1>4, <2>0, <2>1, <3>1
  <2>2. CASE d # c
    <3>1. owed'[d] = owed[d] /\ Slot(d) # i
      BY <1>1, <1>4, <1>7, <2>0, <2>2
    <3> QED BY <1>2, <1>8, <2>0, <3>1
  <2> QED BY Zenon, <2>1, <2>2
<1>10. owed' \in [Callbacks -> Nat]
  <2>1. owed' = [d \in Callbacks |-> owed'[d]]
    BY Zenon, <1>1 DEF IrqTypes
  <2>2. \A d \in Callbacks : owed'[d] \in Nat
    BY <1>9
  <2> QED BY <2>1, <2>2
<1> HIDE DEF g, i
<1>11. Progress(f)'
  BY <1>1, <1>2, <1>3, <1>6, <1>9 DEF Progress
<1>12. IFlag' \in BOOLEAN
  BY <1>1 DEF IrqTypes
<1> QED BY Zenon, <1>1, <1>5, <1>6, <1>10, <1>11, <1>12, FrameStep

\* The end of the timer's loop, and of the interrupt.
LEMMA ReturnStep ==
  ASSUME IrqInv, NEW p \in All, TimerReturns(p) \/ irq_return(p)
  PROVE  IrqInv'
<1> DEFINE g == frame[current_proc]
<1>1. /\ p = current_proc /\ g.at \in {"cb", "iret"} /\ g \in IrqFrames /\ IrqTypes
      /\ UNCHANGED <<isr, tables, owed, scheduler_yield_pending, current_proc>>
  BY Zenon DEF TimerReturns, irq_return, At, IrqInv, IrqTypes
<1>2. /\ owed \in [Callbacks -> Nat] /\ IFlag \in BOOLEAN
      /\ scheduler_yield_pending \in BOOLEAN /\ isr = {}
  BY Zenon, <1>1 DEF IrqInv, Progress, IrqTypes
<1>3. CASE TimerReturns(p)
  <2>1. frame' = Goto(current_proc, "check") /\ IFlag' = IFlag /\ g.at = "cb"
    BY Zenon, <1>1, <1>3 DEF TimerReturns, At
  <2>2. PICK f \in IrqFrames : f.at = "check" /\ frame' = [frame EXCEPT ![current_proc] = f]
    BY Zenon, <1>1, <2>1, GotoFrame DEF Places
  <2>3. g.next \in Nat /\ g.next > 3
    BY <1>1, <1>3 DEF TimerReturns, IrqInv, TablesFilled, IrqFrames
  <2>4. ~IFlag /\ \A c \in Callbacks : owed[c] = 0
    BY <2>1, <2>3 DEF IrqInv, Progress, Outside, Slot
  <2> HIDE DEF g
  <2>5. Progress(f)'
    BY <1>1, <1>2, <2>1, <2>2, <2>4 DEF Progress
  <2> QED BY Zenon, <1>1, <1>2, <2>1, <2>2, <2>5, FrameStep
<1>4. CASE irq_return(p)
  <2>1. frame' = Goto(current_proc, "run") /\ IFlag' = TRUE /\ g.at = "iret"
    BY Zenon, <1>1, <1>4 DEF irq_return, At
  <2>2. PICK f \in IrqFrames : f.at = "run" /\ frame' = [frame EXCEPT ![current_proc] = f]
    BY Zenon, <1>1, <2>1, GotoFrame DEF Places, Outside
  <2>3. ~scheduler_yield_pending /\ \A c \in Callbacks : owed[c] = 0
    BY Zenon, <2>1 DEF IrqInv, Progress
  <2> HIDE DEF g
  <2>4. Progress(f)'
    BY Zenon, <1>1, <1>2, <2>1, <2>2, <2>3 DEF Progress, Outside
  <2> QED BY Zenon, <1>1, <1>2, <2>1, <2>2, <2>4, FrameStep
<1> QED BY <1>3, <1>4

\* The switches: irq_common's, and those of system calls and of idle's loop.
LEMMA YieldStep ==
  ASSUME IrqInv, NEW p \in All, CheckYield(p) \/ Yield(p)
  PROVE  IrqInv'
<1> DEFINE g == frame[current_proc]
<1>1. /\ p = current_proc /\ g.at \in {"check", "run"} /\ g \in IrqFrames /\ IrqTypes
      /\ UNCHANGED <<isr, tables, owed, IFlag>>
  BY Zenon DEF CheckYield, Yield, At, IrqInv, IrqTypes
<1>2. /\ isr = {} /\ IFlag' \in BOOLEAN /\ \A c \in Callbacks : owed[c] = 0
  BY Zenon, <1>1 DEF IrqInv, Progress, IrqTypes
<1>3. scheduler_yield_pending' = FALSE
  <2>1. CASE CheckYield(p)
    BY <2>1 DEF CheckYield
  <2>2. CASE Yield(p)
    BY Zenon, <1>1, <2>2 DEF Yield, At, IrqInv, Progress, IrqTypes
  <2> QED BY Zenon, <2>1, <2>2
<1>4. current_proc' \in All
  BY Zenon DEF CheckYield, Yield, SwitchTo, All, IrqInv, IrqTypes
<1>5. PICK f \in IrqFrames : f.at \in Outside /\ frame' = [frame EXCEPT ![current_proc] = f]
  <2>1. CASE CheckYield(p)
    <3>1. frame' = Goto(current_proc, "iret")
      BY Zenon, <1>1, <2>1 DEF CheckYield
    <3> QED BY Zenon, <1>1, <3>1, GotoFrame DEF Places, Outside
  <2>2. CASE Yield(p) /\ p = idle
    <3>1. frame' = Goto(current_proc, "hlt")
      BY Zenon, <1>1, <2>2 DEF Yield
    <3> QED BY Zenon, <1>1, <3>1, GotoFrame DEF Places, Outside
  <2>3. CASE Yield(p) /\ p # idle
    <3>1. g.at = "run" /\ frame' = frame
      BY Zenon, <1>1, <2>3 DEF Yield, At
    <3>2. frame = [frame EXCEPT ![current_proc] = g]
      BY <1>1 DEF IrqTypes
    <3> QED BY <1>1, <3>1, <3>2 DEF Outside
  <2> QED BY <2>1, <2>2, <2>3
<1> QED BY Zenon, <1>1, <1>2, <1>3, <1>4, <1>5, SwitchStep

\* Every step preserves the invariant.
THEOREM IrqPreserved == IrqInv /\ [IrqNext]_irqvars => IrqInv'
<1> SUFFICES ASSUME IrqInv, [IrqNext]_irqvars PROVE IrqInv'
  OBVIOUS
<1>1. ASSUME NEW l \in {0, 1}, Raise(l) PROVE IrqInv'
  BY Zenon, <1>1 DEF Raise, tables, IrqInv, IrqTypes, TablesFilled, OthersAreOutside, Progress
<1>2. ASSUME NEW p \in All, NEW l \in Lines, irq_stub(p, l) PROVE IrqInv'
  BY <1>2, StubStep
<1>3. ASSUME NEW p \in All, spurious(p) PROVE IrqInv'
  <2>1. 7 \in Lines
    BY DEF Lines
  <2> QED BY <1>3, <2>1, StubStep
<1>4. ASSUME NEW p \in All, sysret_sets_IF(p) PROVE IrqInv'
  <2>1. p = current_proc /\ frame[current_proc].at = "run" /\ IFlag' = TRUE
    BY <1>4 DEF sysret_sets_IF, At
  <2>2. UNCHANGED <<isr, tables, owed, scheduler_yield_pending, current_proc, frame>>
    BY <1>4 DEF sysret_sets_IF
  <2> QED BY Zenon, <2>1, <2>2 DEF tables, IrqInv, IrqTypes, TablesFilled, OthersAreOutside,
                            Progress, Outside
<1>5. CASE UNCHANGED irqvars
  BY Zenon, <1>5 DEF irqvars, IrqInv, IrqTypes, TablesFilled, OthersAreOutside, Progress
<1> QED
  BY Zenon, <1>1, <1>2, <1>3, <1>4, <1>5, DispatchStep, HandlerStep, CallbackStep,
     ReturnStep, YieldStep DEF IrqNext, All

\* The inductive invariant holds in every reachable state.
THEOREM IrqInvariance == IrqSpec => []IrqInv
BY IrqStarts, IrqPreserved, PTL DEF IrqSpec

\* Whatever process the CPU switches to and whenever lines are raised: with
\* interrupts enabled no line is in service, and outside the handler every
\* callback has had every tick and no preemption is pending (irq_dispatch,
\* timer_irq_handler, irq_common).
THEOREM InterruptsAreWhole == IrqSpec => []InterruptIsWhole
<1>1. IrqInv => InterruptIsWhole
  BY Zenon DEF IrqInv, InterruptIsWhole, Progress, Outside
<1> QED BY <1>1, IrqInvariance, PTL

HIDE IrqTablesAssumption
(***************************************************************************)
(* System calls.  FrameIsOwn alone is not inductive.  It needs that only   *)
(* the current process can be in user mode, so that a trap goes to the     *)
(* stack kernel_rsp designates, and that every process has a stack.        *)
(***************************************************************************)
Saved == Contexts \cup {Entry, None}

EntryTypes ==
  /\ cur \in Procs \cup {idle}
  /\ pc \in [Procs -> PCs]
  /\ ucontext \in [Procs -> Saved] /\ user_ctx \in [Procs -> Saved]
  /\ fork_point \in [Procs -> Saved]
  /\ kstack \in [Procs -> Stacks \cup {None}]
  /\ top \in [Stacks -> Saved]
  /\ kernel_rsp \in Stacks
  /\ saved_user \in Saved

\* Who is where: the current process runs, the others do not.
OnlyCurrentRuns ==
  /\ cur # idle => pc[cur] \in {"user", "entered", "handler"}
  /\ \A p \in Procs : p # cur => pc[p] # "user"

HasStack == \A p \in Procs : pc[p] # "free" => kstack[p] \in Stacks

\* The inductive invariant.
EntryInv == EntryTypes /\ OnlyCurrentRuns /\ HasStack /\ FrameIsOwn

USE IdleAssumption

\* What init_launch leaves satisfies the invariant.
THEOREM EntryStarts == EntryInit => EntryInv
<1> SUFFICES ASSUME EntryInit PROVE EntryInv
  OBVIOUS
<1>1. PICK k \in Stacks :
        /\ kstack = [p \in Procs |-> IF p = First THEN k ELSE None]
        /\ top = [s \in Stacks |-> IF s = k THEN Entry ELSE None]
        /\ kernel_rsp = k
        /\ cur = idle
        /\ pc = [p \in Procs |-> IF p = First THEN "irq" ELSE "free"]
        /\ ucontext = [p \in Procs |-> Entry]
        /\ saved_user = None
        /\ user_ctx = [p \in Procs |-> None]
        /\ fork_point = [p \in Procs |-> None]
  BY DEF EntryInit
<1>2. EntryTypes
  BY Zenon, <1>1 DEF EntryTypes, PCs, Saved
<1>3. OnlyCurrentRuns /\ HasStack
  BY <1>1 DEF OnlyCurrentRuns, HasStack
<1>4. FrameIsOwn
  BY <1>1 DEF FrameIsOwn, InKernel
<1> QED BY <1>2, <1>3, <1>4 DEF EntryInv

\* The trap: the frame goes to the caller's own stack, which no other process
\* has.
LEMMA EntryStep ==
  ASSUME EntryInv, NEW p \in Procs, syscall_entry(p)
  PROVE  EntryInv'
<1>1. /\ cur = p /\ pc[p] = "user" /\ kernel_rsp = kstack[p] /\ kstack[p] \in Stacks
  BY Zenon DEF syscall_entry, EntryInv, FrameIsOwn, HasStack, EntryTypes
<1>2. EntryTypes' /\ OnlyCurrentRuns' /\ HasStack'
  BY Zenon, <1>1 DEF syscall_entry, EntryInv, EntryTypes, OnlyCurrentRuns, HasStack, PCs
<1>3. \A s \in Stacks : top'[s] = IF s = kstack[p] THEN ucontext[p] ELSE top[s]
  BY <1>1 DEF syscall_entry, EntryInv, EntryTypes
<1>4. ASSUME NEW q \in Procs, InKernel(q)' \/ pc'[q] = "irq"
      PROVE  top'[kstack'[q]] = ucontext'[q]
  <2>1. CASE q = p
    BY Zenon, <1>1, <1>3, <2>1 DEF syscall_entry
  <2>2. CASE q # p
    <3>1. pc'[q] = pc[q] /\ kstack[q] # kstack[p] /\ kstack[q] \in Stacks
      BY Zenon, <1>1, <1>4, <2>2 DEF syscall_entry, EntryInv, EntryTypes, HasStack, FrameIsOwn, InKernel
    <3> QED BY <1>3, <1>4, <3>1 DEF syscall_entry, EntryInv, FrameIsOwn, InKernel
  <2> QED BY <2>1, <2>2
<1>5. FrameIsOwn'
  BY <1>1, <1>4 DEF syscall_entry, EntryInv, EntryTypes, FrameIsOwn
<1> QED BY <1>2, <1>5 DEF EntryInv

\* What the process does on its own stack: dispatch, the return, and steps of
\* the user program.
LEMMA OwnStep ==
  ASSUME EntryInv, NEW p \in Procs,
         syscall_dispatch(p) \/ sysret(p) \/ \E u \in Contexts : user_step(p, u)
  PROVE  EntryInv'
<1>1. cur = p /\ pc[p] \in {"user", "entered", "handler"} /\ kstack[p] \in Stacks
  BY Zenon DEF syscall_dispatch, sysret, user_step, EntryInv, HasStack
<1>2. EntryTypes'
  BY <1>1 DEF syscall_dispatch, sysret, user_step, EntryInv, EntryTypes, PCs, Saved
<1>3. /\ kstack' = kstack /\ top' = top /\ kernel_rsp' = kernel_rsp /\ cur' = cur
      /\ \A q \in Procs \ {p} : pc'[q] = pc[q] /\ ucontext'[q] = ucontext[q]
      /\ pc'[p] \in {"user", "handler"}
      /\ pc'[p] = "handler" => ucontext'[p] = ucontext[p] /\ pc[p] = "entered"
  BY Zenon, <1>1 DEF syscall_dispatch, sysret, user_step, EntryInv, EntryTypes
<1>4. OnlyCurrentRuns' /\ HasStack'
  BY Zenon, <1>1, <1>3 DEF EntryInv, OnlyCurrentRuns, HasStack
<1>5. FrameIsOwn'
  <2>1. ASSUME NEW q \in Procs, InKernel(q)' \/ pc'[q] = "irq"
        PROVE  top'[kstack'[q]] = ucontext'[q]
    <3>1. /\ InKernel(q) \/ pc[q] = "irq"
          /\ ucontext'[q] = ucontext[q]
      BY Zenon, <1>3, <2>1 DEF InKernel
    <3>2. top[kstack[q]] = ucontext[q]
      BY Zenon, <3>1 DEF EntryInv, FrameIsOwn
    <3> QED BY Zenon, <1>3, <3>1, <3>2
  <2>2. cur' # idle => kernel_rsp' = kstack'[cur']
    BY Zenon, <1>3 DEF EntryInv, FrameIsOwn
  <2>3. \A q \in Procs : pc'[q] # "free" => pc[q] # "free"
    BY Zenon, <1>1, <1>3
  <2>4. \A q, r \in Procs : pc'[q] # "free" /\ pc'[r] # "free" /\ q # r
                              => kstack'[q] # kstack'[r]
    BY Zenon, <1>3, <2>3 DEF EntryInv, FrameIsOwn
  <2> QED BY Zenon, <2>1, <2>2, <2>4 DEF FrameIsOwn
<1> QED BY <1>2, <1>4, <1>5 DEF EntryInv

\* fork and execve take a stack nobody has.
LEMMA NewStackStep ==
  ASSUME EntryInv, NEW p \in Procs, NEW c \in Procs, NEW k \in Stacks,
         process_fork(p, c, k) \/ sys_execve(p, k)
  PROVE  EntryInv'
<1>1. cur = p /\ pc[p] = "handler" /\ \A q \in Procs : kstack[q] # k
  BY Zenon DEF process_fork, sys_execve, FreeStacks
<1>2. EntryTypes'
  BY <1>1 DEF process_fork, sys_execve, EntryInv, EntryTypes, PCs, Saved
<1>3. CASE process_fork(p, c, k)
  <2>1. c # p /\ pc[c] = "free"
    BY Zenon, <1>1, <1>3 DEF process_fork
  <2>2. /\ kstack'[c] = k /\ pc'[c] = "new"
        /\ \A q \in Procs \ {c} : kstack'[q] = kstack[q] /\ pc'[q] = pc[q]
        /\ UNCHANGED <<cur, top, kernel_rsp, ucontext>>
    BY Zenon, <1>3 DEF process_fork, EntryInv, EntryTypes
  <2>3. OnlyCurrentRuns' /\ HasStack'
    BY Zenon, <1>1, <2>1, <2>2 DEF EntryInv, OnlyCurrentRuns, HasStack
  <2>4. FrameIsOwn'
    <3>1. ASSUME NEW q \in Procs, InKernel(q)' \/ pc'[q] = "irq"
          PROVE  top'[kstack'[q]] = ucontext'[q]
      <4>1. q # c /\ pc'[q] = pc[q] /\ kstack'[q] = kstack[q]
        BY Zenon, <2>2, <3>1 DEF InKernel
      <4> QED BY Zenon, <2>2, <3>1, <4>1 DEF EntryInv, FrameIsOwn, InKernel
    <3>2. cur' # idle => kernel_rsp' = kstack'[cur']
      BY Zenon, <1>1, <2>1, <2>2 DEF EntryInv, FrameIsOwn
    <3>3. ASSUME NEW q \in Procs, NEW r \in Procs, pc'[q] # "free", pc'[r] # "free", q # r
          PROVE  kstack'[q] # kstack'[r]
      <4>1. CASE q # c /\ r # c
        <5>1. kstack'[q] = kstack[q] /\ pc[q] # "free"
          BY Zenon, <2>2, <3>3, <4>1
        <5>2. kstack'[r] = kstack[r] /\ pc[r] # "free"
          BY Zenon, <2>2, <3>3, <4>1
        <5>3. kstack[q] # kstack[r]
          BY Zenon, <3>3, <5>1, <5>2 DEF EntryInv, FrameIsOwn
        <5> QED BY Zenon, <5>1, <5>2, <5>3
      <4>2. CASE q = c
        <5>1. kstack'[q] = k /\ kstack'[r] = kstack[r]
          BY Zenon, <2>2, <3>3, <4>2
        <5> QED BY Zenon, <1>1, <5>1
      <4>3. CASE r = c
        <5>1. kstack'[r] = k /\ kstack'[q] = kstack[q]
          BY Zenon, <2>2, <3>3, <4>3
        <5> QED BY Zenon, <1>1, <5>1
      <4> QED BY Zenon, <4>1, <4>2, <4>3
    <3> QED BY Zenon, <3>1, <3>2, <3>3 DEF FrameIsOwn
  <2> QED BY <1>2, <2>3, <2>4 DEF EntryInv
<1>4. CASE sys_execve(p, k)
  <2>1. /\ kstack'[p] = k /\ pc'[p] = "user" /\ kernel_rsp' = k
        /\ \A q \in Procs \ {p} : /\ kstack'[q] = kstack[q] /\ pc'[q] = pc[q]
                                  /\ ucontext'[q] = ucontext[q]
        /\ UNCHANGED <<cur, top>>
    BY Zenon, <1>4 DEF sys_execve, EntryInv, EntryTypes
  <2>2. OnlyCurrentRuns' /\ HasStack'
    BY Zenon, <1>1, <2>1 DEF EntryInv, OnlyCurrentRuns, HasStack
  <2>3. FrameIsOwn'
    <3>1. ASSUME NEW q \in Procs, InKernel(q)' \/ pc'[q] = "irq"
          PROVE  top'[kstack'[q]] = ucontext'[q]
      <4>1. q # p
        BY Zenon, <2>1, <3>1 DEF InKernel
      <4>2. pc'[q] = pc[q] /\ kstack'[q] = kstack[q] /\ ucontext'[q] = ucontext[q]
        BY Zenon, <2>1, <4>1
      <4> QED BY Zenon, <2>1, <3>1, <4>2 DEF EntryInv, FrameIsOwn, InKernel
    <3>2. cur' # idle => kernel_rsp' = kstack'[cur']
      BY Zenon, <1>1, <2>1
    <3>3. ASSUME NEW q \in Procs, NEW r \in Procs, pc'[q] # "free", pc'[r] # "free", q # r
          PROVE  kstack'[q] # kstack'[r]
      <4>1. CASE q # p /\ r # p
        <5>1. kstack'[q] = kstack[q] /\ pc[q] # "free"
          BY Zenon, <2>1, <3>3, <4>1
        <5>2. kstack'[r] = kstack[r] /\ pc[r] # "free"
          BY Zenon, <2>1, <3>3, <4>1
        <5>3. kstack[q] # kstack[r]
          BY Zenon, <3>3, <5>1, <5>2 DEF EntryInv, FrameIsOwn
        <5> QED BY Zenon, <5>1, <5>2, <5>3
      <4>2. CASE q = p
        <5>1. kstack'[q] = k /\ kstack'[r] = kstack[r]
          BY Zenon, <2>1, <3>3, <4>2
        <5> QED BY Zenon, <1>1, <5>1
      <4>3. CASE r = p
        <5>1. kstack'[r] = k /\ kstack'[q] = kstack[q]
          BY Zenon, <2>1, <3>3, <4>3
        <5> QED BY Zenon, <1>1, <5>1
      <4> QED BY Zenon, <4>1, <4>2, <4>3
    <3> QED BY Zenon, <3>1, <3>2, <3>3 DEF FrameIsOwn
  <2> QED BY Zenon, <1>2, <2>2, <2>3 DEF EntryInv
<1> QED BY Zenon, <1>3, <1>4

\* A switch: the preempted process leaves its frame on its own stack, and the
\* one resumed finds its own where it left it.
LEMMA EntryYields ==
  ASSUME EntryInv, NEW q \in Procs \cup {idle}, scheduler_yield(q)
  PROVE  EntryInv'
<1> DEFINE preempted == cur # idle /\ pc[cur] = "user"
           pcs == IF preempted THEN [pc EXCEPT ![cur] = "irq"] ELSE pc
           tops == IF preempted THEN [top EXCEPT ![kernel_rsp] = ucontext[cur]] ELSE top
<1>1. /\ q # cur /\ cur' = q /\ top' = tops
      /\ q # idle => pc[q] # "free"
      /\ q = idle => pc' = pcs /\ UNCHANGED <<ucontext, kernel_rsp>>
      /\ q # idle => Resumed(q, pcs, tops) /\ kernel_rsp' = kstack[q]
      /\ UNCHANGED <<kstack, saved_user, user_ctx, fork_point>>
  BY Zenon DEF scheduler_yield
<1>2. /\ cur # idle => cur \in Procs /\ kernel_rsp = kstack[cur]
      /\ \A p \in Procs : pc[p] # "free" => kstack[p] \in Stacks
      /\ pc \in [Procs -> PCs] /\ top \in [Stacks -> Saved] /\ kernel_rsp \in Stacks
      /\ ucontext \in [Procs -> Saved] /\ user_ctx \in [Procs -> Saved]
  BY Zenon DEF EntryInv, EntryTypes, FrameIsOwn, HasStack
<1>3. /\ pcs \in [Procs -> PCs] /\ tops \in [Stacks -> Saved]
      /\ \A p \in Procs : pcs[p] = IF preempted /\ p = cur THEN "irq" ELSE pc[p]
      /\ \A p \in Procs : pcs[p] # "user"
  BY Zenon, <1>2 DEF PCs, EntryInv, OnlyCurrentRuns
<1>4. ASSUME NEW p \in Procs, pcs[p] \in {"entered", "handler", "irq"}
      PROVE  tops[kstack[p]] = ucontext[p]
  <2>1. CASE preempted /\ p = cur
    BY Zenon, <1>2, <2>1 DEF EntryInv, HasStack
  <2>2. CASE ~(preempted /\ p = cur)
    <3>1. pc[p] \in {"entered", "handler", "irq"} /\ kstack[p] \in Stacks
      BY Zenon, <1>2, <1>3, <1>4, <2>2
    <3>2. top[kstack[p]] = ucontext[p]
      BY Zenon, <3>1 DEF EntryInv, FrameIsOwn, InKernel
    <3>3. preempted => kstack[p] # kernel_rsp
      BY Zenon, <1>2, <2>2, <3>1 DEF EntryInv, FrameIsOwn
    <3> QED BY Zenon, <1>2, <3>1, <3>2, <3>3
  <2> QED BY Zenon, <2>1, <2>2
<1> HIDE DEF preempted, pcs, tops
<1>5. /\ pc' \in [Procs -> PCs] /\ ucontext' \in [Procs -> Saved]
      /\ \A p \in Procs : p # q => pc'[p] = pcs[p] /\ ucontext'[p] = ucontext[p]
      /\ q \in Procs => /\ pc'[q] = IF pcs[q] \in {"irq", "new"} THEN "user" ELSE pcs[q]
                        /\ pc'[q] # "user" => ucontext'[q] = ucontext[q]
  <2>1. CASE q = idle
    BY Zenon, <1>1, <1>2, <1>3, <2>1
  <2>2. CASE q \in Procs
    <3>1. tops[kstack[q]] \in Saved
      BY Zenon, <1>1, <1>2, <1>3, <2>2
    <3>2. q # idle
      BY Zenon, <2>2
    <3>3. /\ pc' = [pcs EXCEPT ![q] = IF @ \in {"irq", "new"} THEN "user" ELSE @]
          /\ ucontext' = [ucontext EXCEPT ![q] = IF pcs[q] = "irq" THEN tops[kstack[q]]
                                                 ELSE IF pcs[q] = "new" THEN user_ctx[q]
                                                 ELSE @]
      BY Zenon, <1>1, <3>2 DEF Resumed
    <3>4. pc' \in [Procs -> PCs]
      BY Zenon, <1>3, <2>2, <3>3 DEF PCs
    <3>5. ucontext' \in [Procs -> Saved]
      BY Zenon, <1>2, <2>2, <3>1, <3>3
    <3>6. /\ \A p \in Procs : p # q => pc'[p] = pcs[p] /\ ucontext'[p] = ucontext[p]
          /\ pc'[q] = IF pcs[q] \in {"irq", "new"} THEN "user" ELSE pcs[q]
          /\ pc'[q] # "user" => ucontext'[q] = ucontext[q]
      BY Zenon, <1>2, <1>3, <2>2, <3>3
    <3> QED BY Zenon, <3>4, <3>5, <3>6
  <2> QED BY Zenon, <2>1, <2>2
<1>6. \A p \in Procs : pc'[p] # "free" <=> pc[p] # "free"
  BY <1>2, <1>3, <1>5 DEF preempted
<1>7. EntryTypes'
  BY Zenon, <1>1, <1>2, <1>3, <1>5 DEF EntryInv, EntryTypes
<1>8. OnlyCurrentRuns' /\ HasStack'
  <2>1. q \in Procs => pc'[q] \in {"user", "entered", "handler"}
    BY Zenon, <1>1, <1>3, <1>5, <1>6 DEF PCs
  <2>2. \A p \in Procs : p # q => pc'[p] # "user"
    BY Zenon, <1>3, <1>5
  <2> QED BY Zenon, <1>1, <1>2, <1>6, <2>1, <2>2 DEF OnlyCurrentRuns, HasStack
<1>9. FrameIsOwn'
  <2>1. ASSUME NEW p \in Procs, InKernel(p)' \/ pc'[p] = "irq"
        PROVE  top'[kstack'[p]] = ucontext'[p]
    <3>1. pc'[p] \in {"entered", "handler", "irq"}
      BY Zenon, <2>1 DEF InKernel
    <3>2. pcs[p] \in {"entered", "handler", "irq"} /\ ucontext'[p] = ucontext[p]
      BY Zenon, <1>5, <3>1
    <3>3. tops[kstack[p]] = ucontext[p]
      BY Zenon, <1>4, <3>2
    <3> QED BY Zenon, <1>1, <3>2, <3>3
  <2>2. cur' # idle => kernel_rsp' = kstack'[cur']
    BY Zenon, <1>1
  <2>3. \A p, r \in Procs : pc'[p] # "free" /\ pc'[r] # "free" /\ p # r
                              => kstack'[p] # kstack'[r]
    BY Zenon, <1>1, <1>6 DEF EntryInv, FrameIsOwn
  <2> QED BY Zenon, <2>1, <2>2, <2>3 DEF FrameIsOwn
<1> QED BY <1>7, <1>8, <1>9 DEF EntryInv
-----------------------------------------------------------------------------
\* Every step preserves the invariant.
THEOREM EntryPreserved == EntryInv /\ [EntryNext]_entryvars => EntryInv'
<1> SUFFICES ASSUME EntryInv, [EntryNext]_entryvars PROVE EntryInv'
  OBVIOUS
<1>1. ASSUME NEW p \in Procs, syscall_entry(p) PROVE EntryInv'
  BY <1>1, EntryStep
<1>2. ASSUME NEW p \in Procs, syscall_dispatch(p) \/ sysret(p) PROVE EntryInv'
  BY Zenon, <1>2, OwnStep
<1>3. ASSUME NEW p \in Procs, NEW u \in Contexts, user_step(p, u) PROVE EntryInv'
  BY <1>3, OwnStep
<1>4. ASSUME NEW p \in Procs, NEW k \in Stacks, sys_execve(p, k) PROVE EntryInv'
  BY Zenon, <1>4, NewStackStep
<1>5. ASSUME NEW p \in Procs, NEW c \in Procs, NEW k \in Stacks, process_fork(p, c, k)
      PROVE  EntryInv'
  BY <1>5, NewStackStep
<1>6. ASSUME NEW q \in Procs \cup {idle}, scheduler_yield(q) PROVE EntryInv'
  BY <1>6, EntryYields
<1>7. CASE UNCHANGED entryvars
  BY Zenon, <1>7 DEF entryvars, EntryInv, EntryTypes, OnlyCurrentRuns, HasStack, FrameIsOwn, InKernel
<1> QED BY Zenon, <1>1, <1>2, <1>3, <1>4, <1>5, <1>6, <1>7 DEF EntryNext

\* The inductive invariant holds in every reachable state.
THEOREM EntryInvariance == EntrySpec => []EntryInv
BY EntryStarts, EntryPreserved, PTL DEF EntrySpec

\* Whatever the timer interrupts, the frame of a call or of a preemption is on
\* the process's own stack and holds its own context, and a trap would go to
\* the stack of the process that runs (syscall_entry.asm, scheduler_yield,
\* sys_execve).
THEOREM FramesStayOwn == EntrySpec => []FrameIsOwn
<1>1. EntryInv => FrameIsOwn
  BY DEF EntryInv
<1> QED BY <1>1, EntryInvariance, PTL

\* A system call other than a successful execve returns to the context it was
\* made in: sysret takes it from the frame, and nothing else leaves the kernel.
THEOREM CallsReturnToCaller == EntrySpec => ReturnsToCaller
<1> DEFINE A == \A p \in Procs : InKernel(p) /\ pc'[p] = "user" /\ kstack'[p] = kstack[p]
                                   => ucontext'[p] = ucontext[p]
<1>1. ASSUME EntryInv, [EntryNext]_entryvars PROVE [A]_entryvars
  <2>1. CASE EntryNext
    <3> SUFFICES ASSUME NEW p \in Procs, InKernel(p), pc'[p] = "user", kstack'[p] = kstack[p]
                 PROVE  ucontext'[p] = ucontext[p]
      BY Zenon
    <3>0. /\ pc \in [Procs -> PCs] /\ ucontext \in [Procs -> Saved]
          /\ kstack \in [Procs -> Stacks \cup {None}]
          /\ pc[p] \in {"entered", "handler"} /\ top[kstack[p]] = ucontext[p]
      BY Zenon, <1>1 DEF EntryInv, EntryTypes, FrameIsOwn, InKernel
    <3>1. ASSUME NEW r \in Procs, syscall_entry(r) \/ syscall_dispatch(r) \/ sysret(r)
          PROVE  ucontext'[p] = ucontext[p]
      BY <3>0, <3>1 DEF syscall_entry, syscall_dispatch, sysret
    <3>2. ASSUME NEW r \in Procs, NEW k \in Stacks, sys_execve(r, k)
          PROVE  ucontext'[p] = ucontext[p]
      BY Zenon, <3>0, <3>2 DEF sys_execve, FreeStacks
    <3>3. ASSUME NEW r \in Procs, NEW c \in Procs, NEW k \in Stacks, process_fork(r, c, k)
          PROVE  ucontext'[p] = ucontext[p]
      BY Zenon, <3>3 DEF process_fork
    <3>4. ASSUME NEW r \in Procs, NEW u \in Contexts, user_step(r, u)
          PROVE  ucontext'[p] = ucontext[p]
      BY Zenon, <3>0, <3>4 DEF user_step
    <3>5. ASSUME NEW q \in Procs \cup {idle}, scheduler_yield(q)
          PROVE  ucontext'[p] = ucontext[p]
      BY Zenon, <3>0, <3>5 DEF scheduler_yield, Resumed
    <3> QED BY Zenon, <2>1, <3>1, <3>2, <3>3, <3>4, <3>5 DEF EntryNext
  <2> QED BY Zenon, <1>1, <2>1
<1> QED BY <1>1, EntryInvariance, PTL DEF EntrySpec, ReturnsToCaller

HIDE IdleAssumption
(***************************************************************************)
(* The frame allocator.  While pmm_init walks the memory map the           *)
(* counter is exact; from then on frame 0 and the kernel stay marked, and  *)
(* the counter is exact or one too low.                                    *)
(***************************************************************************)
IInv ==
  /\ TypeOK
  /\ owned \subseteq used
  /\ phase = "mmap" => owned = {} /\ free_frames = Cardinality(Free)
  /\ phase = "ready" => /\ 0 \in used \ owned
                        /\ KernelFrames \subseteq used \ owned
  /\ CounterTracksBitmap

\* The frames are a finite set, and so is every set of them; the counter has
\* room for all of them (used by every step that counts).
LEMMA FramesFinite ==
  ASSUME NEW S \in SUBSET Frames
  PROVE  /\ IsFiniteSet(S)
         /\ Cardinality(S) \in Nat
         /\ Cardinality(S) <= PMM_MAX_FRAMES
<1>1. IsFiniteSet(Frames) /\ Cardinality(Frames) = PMM_MAX_FRAMES
  BY FS_Interval, PmmAssumption DEF Frames
<1>2. IsFiniteSet(S) /\ Cardinality(S) <= Cardinality(Frames)
  BY <1>1, FS_Subset
<1> QED BY <1>1, <1>2, FS_CardinalityType

\* Clearing the bits of R adds the newly cleared frames to the free ones
\* (mark_range_free, pmm_free_frame).
LEMMA FreeingCounts ==
  ASSUME NEW u \in SUBSET Frames, NEW R \in SUBSET Frames
  PROVE  Cardinality(Frames \ (u \ R)) = Cardinality(Frames \ u) + Cardinality(R \cap u)
<1> DEFINE A == Frames \ u
           B == R \cap u
<1>1. IsFiniteSet(A) /\ IsFiniteSet(B) /\ A \cap B = {}
  BY FramesFinite
<1>2. Cardinality(A \cup B) = Cardinality(A) + Cardinality(B)
  <2>1. Cardinality(A \cup B) = Cardinality(A) + Cardinality(B) - Cardinality(A \cap B)
    BY <1>1, FS_Union
  <2>2. Cardinality(A) \in Nat /\ Cardinality(B) \in Nat /\ Cardinality(A \cap B) = 0
    BY Zenon, <1>1, FS_CardinalityType, FS_EmptySet
  <2> QED BY <2>1, <2>2
<1>3. Frames \ (u \ R) = A \cup B
  OBVIOUS
<1> QED BY Zenon, <1>2, <1>3

\* Setting the bits of R takes the newly set frames from the free ones
\* (mark_range_used, pmm_alloc_frame).
LEMMA UsingCounts ==
  ASSUME NEW u \in SUBSET Frames, NEW R \in SUBSET Frames
  PROVE  Cardinality(Frames \ u) = Cardinality(Frames \ (u \cup R)) + Cardinality(R \ u)
<1> DEFINE A == Frames \ (u \cup R)
           B == R \ u
<1>1. IsFiniteSet(A) /\ IsFiniteSet(B) /\ A \cap B = {}
  BY FramesFinite
<1>2. Cardinality(A \cup B) = Cardinality(A) + Cardinality(B)
  <2>1. Cardinality(A \cup B) = Cardinality(A) + Cardinality(B) - Cardinality(A \cap B)
    BY <1>1, FS_Union
  <2>2. Cardinality(A) \in Nat /\ Cardinality(B) \in Nat /\ Cardinality(A \cap B) = 0
    BY Zenon, <1>1, FS_CardinalityType, FS_EmptySet
  <2> QED BY <2>1, <2>2
<1>3. Frames \ u = A \cup B
  OBVIOUS
<1> QED BY <1>2, <1>3

\* A single frame counts for one.
LEMMA OneFrame ==
  ASSUME NEW f
  PROVE  Cardinality({f}) = 1
BY FS_Singleton

\* A u64 that holds n or n - 1 modulo 2^64 still does after both move down
\* or up by one (pmm_alloc_frame, pmm_free_frame).
LEMMA CounterStep ==
  ASSUME NEW n \in Nat, NEW c \in 0 .. WORD - 1, n <= PMM_MAX_FRAMES,
         c = n \/ c = (n - 1) % WORD
  PROVE  /\ n > 0 => \/ (c - 1) % WORD = n - 1
                     \/ (c - 1) % WORD = (n - 2) % WORD
         /\ n + 1 <= PMM_MAX_FRAMES => \/ (c + 1) % WORD = n + 1
                                       \/ (c + 1) % WORD = n % WORD
         /\ (c - 1) % WORD \in 0 .. WORD - 1
         /\ (c + 1) % WORD \in 0 .. WORD - 1
<1>1. WORD \in Nat /\ WORD > 1 /\ n < WORD
  BY PmmAssumption
<1>2. ASSUME NEW k \in 0 .. WORD - 1
      PROVE k % WORD = k
  BY <1>1
<1>3. (0 - 1) % WORD = WORD - 1
  BY <1>1
<1>4. CASE n = 0
  <2>1. c = 0 \/ c = WORD - 1
    BY <1>3, <1>4
  <2>2. CASE c = 0
    BY <1>1, <1>2, <1>3, <1>4, <2>2
  <2>3. CASE c = WORD - 1
    <3>1. (c + 1) % WORD = 0 /\ (c - 1) % WORD = WORD - 2
      BY <1>1, <2>3
    <3> QED BY <1>1, <1>2, <1>4, <3>1
  <2> QED BY Zenon, <2>1, <2>2, <2>3
<1>5. CASE n > 0
  <2>1. c = n \/ c = n - 1
    BY <1>1, <1>2, <1>5
  <2>2. (c + 1) % WORD = c + 1 \/ (c + 1 = WORD /\ (c + 1) % WORD = 0)
    BY <1>1, <1>2
  <2>3. CASE c > 0
    <3>1. (c - 1) % WORD = c - 1
      BY <1>1, <1>2, <2>3
    <3> QED BY <1>1, <1>2, <1>5, <2>1, <2>2, <2>3, <3>1, PmmAssumption
  <2>4. CASE c = 0
    <3>1. n = 1
      BY <1>5, <2>1, <2>4
    <3>2. (c - 1) % WORD = (n - 2) % WORD
      BY <2>4, <3>1
    <3>3. (c + 1) % WORD = 1 /\ n % WORD = 1
      BY <1>1, <1>2, <2>4, <3>1
    <3> QED BY <1>1, <1>3, <2>4, <3>1, <3>2, <3>3
  <2>5. c = 0 \/ c > 0
    BY <1>1, <1>2
  <2> QED BY Zenon, <2>3, <2>4, <2>5
<1>6. n = 0 \/ n > 0
  BY <1>1
<1> QED BY Zenon, <1>4, <1>5, <1>6

\* At boot the bitmap is full and the counter zero.
THEOREM InitEstablishes == Init => IInv
<1> SUFFICES ASSUME Init PROVE IInv
  OBVIOUS
<1>1. Free = {} /\ Cardinality(Free) = 0
  BY FS_EmptySet DEF Init, Free
<1> QED BY <1>1, PmmAssumption DEF Init, IInv, TypeOK, CounterTracksBitmap

\* An entry of the memory map keeps the counter exact (mark_range_free
\* counts the bits it clears).
LEMMA RegionKeepsIInv ==
  ASSUME IInv, NEW r \in Regions, mark_range_free(r)
  PROVE  IInv'
<1> DEFINE R == RangeFrames(r)
<1>1. R \in SUBSET Frames
  BY DEF RangeFrames
<1>2. used \in SUBSET Frames /\ phase = "mmap" /\ free_frames = Cardinality(Free)
  BY DEF IInv, TypeOK, mark_range_free
<1>3. Cardinality(Free') = Cardinality(Free) + Cardinality(R \cap used)
  <2>1. Free' = Frames \ (used \ R)
    BY DEF Free, mark_range_free
  <2> QED BY Zenon, <1>1, <1>2, <2>1, FreeingCounts DEF Free
<1>4. free_frames' = Cardinality(Free')
  BY <1>2, <1>3 DEF mark_range_free
<1>5. Cardinality(Free') \in 0 .. WORD - 1
  <2>1. Free' \in SUBSET Frames
    BY DEF Free
  <2> QED BY <2>1, FramesFinite, PmmAssumption
<1> QED BY <1>1, <1>2, <1>4, <1>5 DEF IInv, TypeOK, CounterTracksBitmap, mark_range_free

\* The end of pmm_init may leave the counter one too low, never more.
LEMMA InitEndKeepsIInv ==
  ASSUME IInv, pmm_init_end
  PROVE  IInv'
<1> DEFINE u0 == used \cup {0}
           K  == KernelFrames \ u0
           n  == Cardinality(Frames \ used)
           n0 == Cardinality(Frames \ u0)
           n1 == Cardinality(Free')
           k  == Cardinality(K)
<1>1. /\ used \in SUBSET Frames /\ 0 \in Frames /\ u0 \in SUBSET Frames
      /\ KernelFrames \in SUBSET Frames /\ K \in SUBSET Frames
      /\ owned = {} /\ free_frames = n
  BY PmmAssumption DEF IInv, TypeOK, pmm_init_end, Frames, Free
<1>2. n = n0 + Cardinality({0} \ used)
  BY Zenon, <1>1, UsingCounts
<1>3. Cardinality({0} \ used) \in {0, 1}
  <2>1. CASE 0 \in used
    <3>1. {0} \ used = {}
      BY <2>1
    <3> QED BY <3>1, FS_EmptySet
  <2>2. CASE 0 \notin used
    <3>1. {0} \ used = {0}
      BY <2>2
    <3> QED BY <3>1, OneFrame
  <2> QED BY <2>1, <2>2
<1>4. n0 = n1 + k
  <2>1. Free' = Frames \ (u0 \cup KernelFrames)
    BY DEF Free, pmm_init_end
  <2>2. Cardinality(Frames \ u0) = Cardinality(Frames \ (u0 \cup KernelFrames)) + Cardinality(KernelFrames \ u0)
    BY Zenon, <1>1, UsingCounts
  <2> QED BY <2>1, <2>2
<1>5. /\ n \in Nat /\ n0 \in Nat /\ n1 \in Nat /\ k \in Nat
      /\ n <= PMM_MAX_FRAMES /\ n1 <= PMM_MAX_FRAMES
  <2>1. /\ Frames \ used \in SUBSET Frames /\ Frames \ u0 \in SUBSET Frames
        /\ Free' \in SUBSET Frames
    BY DEF Free
  <2> QED BY <1>1, <2>1, FramesFinite
<1>6. free_frames' = Sat(Sat(n - 1) - k)
  BY <1>1 DEF pmm_init_end
<1>7. free_frames' = n1 \/ (n1 > 0 /\ free_frames' = n1 - 1)
  <2> HIDE DEF n, n0, n1, k, u0, K
  <2>1. n = n0 \/ n = n0 + 1
    <3> USE DEF n, n0
    <3> QED BY <1>2, <1>3, <1>5
  <2> QED BY <1>4, <1>5, <1>6, <2>1 DEF Sat
<1>8. free_frames' \in 0 .. WORD - 1
  BY <1>5, <1>7, PmmAssumption
<1>9. CounterTracksBitmap'
  <2>1. CASE free_frames' = n1
    BY <2>1 DEF CounterTracksBitmap
  <2>2. CASE n1 > 0 /\ free_frames' = n1 - 1
    <3>1. (n1 - 1) % WORD = n1 - 1
      BY <1>5, <2>2, PmmAssumption
    <3> QED BY <2>2, <3>1 DEF CounterTracksBitmap
  <2> QED BY <1>7, <2>1, <2>2
<1> QED BY <1>1, <1>8, <1>9 DEF IInv, TypeOK, pmm_init_end

\* Handing out the first free frame moves bitmap and counter together.
LEMMA AllocKeepsIInv ==
  ASSUME IInv, NEW f \in Frames, pmm_alloc_frame(f)
  PROVE  IInv'
<1> DEFINE n == Cardinality(Free)
<1>1. /\ used \in SUBSET Frames /\ f \notin used
      /\ free_frames \in 0 .. WORD - 1 /\ owned \subseteq used
      /\ phase = "ready" /\ phase' = "ready"
  BY DEF IInv, TypeOK, pmm_alloc_frame, FirstFree, Free
<1>2. n = Cardinality(Free') + 1
  <2>1. Free' = Frames \ (used \cup {f}) /\ {f} \ used = {f}
    BY <1>1 DEF Free, pmm_alloc_frame
  <2>2. Cardinality(Frames \ used) = Cardinality(Frames \ (used \cup {f})) + Cardinality({f} \ used)
    BY Zenon, <1>1, UsingCounts
  <2> QED BY Zenon, <2>1, <2>2, OneFrame DEF Free
<1>3. n \in Nat /\ Cardinality(Free') \in Nat /\ n <= PMM_MAX_FRAMES
  BY FramesFinite DEF Free
<1>4. \/ free_frames' = n - 1
      \/ free_frames' = (n - 2) % WORD
  <2>1. n > 0
    BY <1>2, <1>3
  <2>2. free_frames = n \/ free_frames = (n - 1) % WORD
    BY Zenon DEF IInv, CounterTracksBitmap
  <2>3. free_frames' = (free_frames - 1) % WORD
    BY Zenon DEF pmm_alloc_frame
  <2> HIDE DEF n
  <2> QED BY Zenon, <1>1, <1>3, <2>1, <2>2, <2>3, CounterStep
<1>5. free_frames' \in 0 .. WORD - 1
  BY Zenon, <1>1, <1>3, CounterStep DEF IInv, CounterTracksBitmap, pmm_alloc_frame
<1>6. CounterTracksBitmap'
  <2>1. Cardinality(Free') = n - 1 /\ Cardinality(Free') - 1 = n - 2
    BY <1>2, <1>3
  <2> QED BY <1>4, <2>1 DEF CounterTracksBitmap
<1> QED BY <1>1, <1>5, <1>6 DEF IInv, TypeOK, pmm_alloc_frame

\* Giving back a frame the client holds, or none at all behind the guard.
LEMMA FreeKeepsIInv ==
  ASSUME IInv, NEW f \in Frames, ClientFrees(f), pmm_free_frame(f)
  PROVE  IInv'
<1> DEFINE n == Cardinality(Free)
<1>1. /\ used \in SUBSET Frames /\ f \in used /\ f \in owned
      /\ free_frames \in 0 .. WORD - 1 /\ owned \subseteq used
      /\ phase = "ready" /\ phase' = "ready"
  BY DEF IInv, TypeOK, pmm_free_frame, ClientFrees, Free
<1>2. Cardinality(Free') = n + 1
  <2>1. Free' = Frames \ (used \ {f}) /\ {f} \cap used = {f}
    BY <1>1 DEF Free, pmm_free_frame
  <2>2. Cardinality(Frames \ (used \ {f})) = Cardinality(Frames \ used) + Cardinality({f} \cap used)
    BY Zenon, <1>1, FreeingCounts
  <2> QED BY <2>1, <2>2, OneFrame DEF Free
<1>3. /\ n \in Nat /\ Cardinality(Free') \in Nat /\ n <= PMM_MAX_FRAMES
      /\ n + 1 <= PMM_MAX_FRAMES
  BY <1>2, FramesFinite DEF Free
<1>4. \/ free_frames' = n + 1
      \/ free_frames' = n % WORD
  BY Zenon, <1>1, <1>3, CounterStep DEF IInv, CounterTracksBitmap, pmm_free_frame
<1>5. free_frames' \in 0 .. WORD - 1
  BY Zenon, <1>1, <1>3, CounterStep DEF IInv, CounterTracksBitmap, pmm_free_frame
<1>6. CounterTracksBitmap'
  <2>1. Cardinality(Free') - 1 = n
    BY <1>2, <1>3
  <2> QED BY <1>2, <1>4, <2>1 DEF CounterTracksBitmap
<1> QED BY <1>1, <1>5, <1>6 DEF IInv, TypeOK, pmm_free_frame

\* Every step of the allocator preserves the invariant.
THEOREM NextPreserves == IInv /\ [Next]_vars => IInv'
<1> SUFFICES ASSUME IInv, [Next]_vars PROVE IInv'
  OBVIOUS
<1>1. ASSUME NEW r \in Regions, mark_range_free(r) PROVE IInv'
  BY <1>1, RegionKeepsIInv
<1>2. CASE pmm_init_end
  BY <1>2, InitEndKeepsIInv
<1>3. ASSUME NEW f \in Frames, pmm_alloc_frame(f) PROVE IInv'
  BY <1>3, AllocKeepsIInv
<1>4. ASSUME NEW f \in Frames, ClientFrees(f), pmm_free_frame(f) PROVE IInv'
  BY <1>4, FreeKeepsIInv
<1>5. CASE UNCHANGED vars
  BY <1>5 DEF vars, IInv, TypeOK, CounterTracksBitmap, Free
<1> QED BY <1>1, <1>2, <1>3, <1>4, <1>5 DEF Next, pmm_alloc_frame_oom

\* The inductive invariant holds in every reachable state.
THEOREM Invariance == Spec => []IInv
BY InitEstablishes, NextPreserves, PTL DEF Spec

\* Bitmap, counter and ownership keep their types: free_frames stays a u64.
THEOREM TypeCorrect == Spec => []TypeOK
<1>1. IInv => TypeOK
  BY DEF IInv
<1> QED BY <1>1, Invariance, PTL

\* Clients never hold frame 0, a kernel frame or a free frame, whatever the
\* memory map and the order of pmm_alloc_frame and pmm_free_frame calls.
THEOREM ClientsHoldReserved == Spec => []OwnedIsReserved
<1>1. IInv => OwnedIsReserved
  BY DEF IInv, OwnedIsReserved
<1> QED BY <1>1, Invariance, PTL

\* pmm.free_frames is the number of clear bits, or one less modulo 2^64,
\* after any sequence of calls, exhaustion included.
THEOREM CounterNeverDrifts == Spec => []CounterTracksBitmap
<1>1. IInv => CounterTracksBitmap
  BY DEF IInv
<1> QED BY <1>1, Invariance, PTL

\* pmm_alloc_frame never returns a frame somebody holds.
THEOREM HandoutsAreDisjoint == Spec => NoDoubleHandout
<1>1. IInv /\ [Next]_vars => [\A f \in Frames : pmm_alloc_frame(f) => f \notin owned]_vars
  BY DEF IInv, pmm_alloc_frame, FirstFree, Free
<1> QED BY <1>1, Invariance, PTL DEF Spec, NoDoubleHandout

=============================================================================
