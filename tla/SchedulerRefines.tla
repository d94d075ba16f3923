-------------------------- MODULE SchedulerRefines --------------------------
(***************************************************************************)
(* The ring of process_t::next links with the head run_queue implements    *)
(* the line of module RoundRobin: read from the head, the ring is the line.*)
(***************************************************************************)
EXTENDS Programs, FiniteSets

\* The processes in the order scheduler_yield's scan meets them.
RingFrom(h) ==
  LET walk[i \in 1 .. PROC_MAX] == IF i = 1 THEN h ELSE nxt[walk[i - 1]]
  IN  [i \in 1 .. Cardinality(Live) |-> walk[i]]

RR == INSTANCE RoundRobin
        WITH Procs <- Pids,
             line <- RingFrom(run_queue),
             runnable <- {p \in Pids : Runnable(state, p)}

(***************************************************************************)
(* Scheduling is round robin: every step of the kernel that touches the    *)
(* run queue is an admission, a hand-over to the next runnable process, an *)
(* exit or a release of the line, and no other step moves anyone.          *)
(***************************************************************************)
ImplementsRoundRobin == RR!Spec
=============================================================================
