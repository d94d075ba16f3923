---------------------------- MODULE RoundRobin -----------------------------
(***************************************************************************)
(* What scheduler.h promises, without links, states or interrupts: the     *)
(* processes stand in a line, the first has the CPU, and whoever gives it  *)
(* up goes behind everyone who could have run.  A new process stands       *)
(* directly behind the running one.  Module SchedulerRefines shows that    *)
(* the linked ring of scheduler.c implements this.                         *)
(***************************************************************************)
EXTENDS Naturals, SequencesExt

CONSTANT Procs

VARIABLES
  line,       \* the processes in the order they will be served
  runnable    \* those that want the CPU

\* s with its first k elements moved to the end.
RotateBy(s, k) == SubSeq(s, k + 1, Len(s)) \o SubSeq(s, 1, k)

\* The line after the first process gave up the CPU, `r` being runnable:
\* those before the next runnable process, the first included, go to the end.
PassOn(s, r) ==
  LET ahead == {k \in 1 .. Len(s) - 1 : s[k + 1] \in r}
  IN  IF ahead = {} THEN s ELSE RotateBy(s, Min(ahead))

Admit(p) ==
  /\ p \in Procs \ Range(line)
  /\ line' = <<Head(line), p>> \o Tail(line)
  /\ runnable' = runnable \cup {p}

Yield ==
  /\ line' = PassOn(line, runnable)
  /\ UNCHANGED runnable

Exit ==
  /\ runnable' = runnable \ {Head(line)}
  /\ line' = PassOn(line, runnable')

Release(p) ==
  /\ p \in Range(line) \ runnable
  /\ line' = SelectSeq(line, LAMBDA q : q # p)
  /\ UNCHANGED runnable

Next == \/ Yield \/ Exit
        \/ \E p \in Procs : Admit(p) \/ Release(p)

Init == /\ line # <<>> /\ IsInjective(line)
        /\ runnable = Range(line)

Spec == Init /\ [][Next]_<<line, runnable>>
=============================================================================
