SPECIFICATION EntrySpec
CONSTANTS
  Procs = {p1, p2, p3}
  First = p1
  idle = idle
  Contexts = {main, loop}
  Entry = main
  Stacks = {k1, k2, k3, k4}
  None = None
SYMMETRY Symmetry
INVARIANT ChildStartsAtFork
