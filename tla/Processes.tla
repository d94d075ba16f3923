----------------------------- MODULE Processes ------------------------------
(***************************************************************************)
(* The process table as the ways into the kernel see it: the slots user    *)
(* processes take, and slot 0, which process_init gives to the loop of     *)
(* kernel_main before any process is made (src/src/process/process.c).     *)
(***************************************************************************)
CONSTANTS
  Procs,    \* slots of the process table other than idle
  idle      \* pid 0: it has no kstack and makes no system call

ASSUME IdleAssumption == idle \notin Procs
=============================================================================
