--------------------------- MODULE MCSyscallEntry ---------------------------
(* Model values for SyscallEntry: three process slots, two user contexts,  *)
(* one stack to spare.  Nothing orders stacks, so they are symmetric.      *)
EXTENDS SyscallEntry, TLC

Symmetry == Permutations(Stacks)
=============================================================================
