--------------------------- MODULE PrivateMemory ---------------------------
(***************************************************************************)
(* What fork, mmap and execve promise a user program: memory of its own.   *)
(* Every step changes the memory of one process; fork gives a process that *)
(* had none a copy of its parent's.                                        *)
(***************************************************************************)
CONSTANTS Procs, Pages, Values, Zero, Unmapped

VARIABLE mem    \* [Procs -> [Pages -> Values or Unmapped]]

Nothing == [v \in Pages |-> Unmapped]

Init == \E p \in Procs, S \in SUBSET Pages :
  mem = [q \in Procs |-> IF q = p THEN [v \in Pages |-> IF v \in S THEN Zero ELSE Unmapped]
                                  ELSE Nothing]

Store(p, v, x) ==
  /\ mem[p][v] # Unmapped
  /\ mem' = [mem EXCEPT ![p][v] = x]

Fork(p, c) ==
  /\ mem[c] = Nothing
  /\ mem' = [mem EXCEPT ![c] = mem[p]]

\* Pages S appear cleared; the others stay.
Mmap(p, S) ==
  mem' = [mem EXCEPT ![p] = [v \in Pages |-> IF v \in S THEN Zero ELSE mem[p][v]]]

\* A new image with cleared pages S replaces everything.
Exec(p, S) ==
  mem' = [mem EXCEPT ![p] = [v \in Pages |-> IF v \in S THEN Zero ELSE Unmapped]]

\* Steps that change the memory of some process.
Next ==
  /\ mem' # mem
  /\ \E p \in Procs :
       \/ \E v \in Pages, x \in Values : Store(p, v, x)
       \/ \E c \in Procs \ {p} : Fork(p, c)
       \/ \E S \in SUBSET Pages : Mmap(p, S) \/ Exec(p, S)

Spec == Init /\ [][Next]_mem
=============================================================================
