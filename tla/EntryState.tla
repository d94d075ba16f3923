----------------------------- MODULE EntryState -----------------------------
(***************************************************************************)
(* The state of the way into and out of the kernel, and what it promises   *)
(* the processes; module SyscallEntry has its steps.                       *)
(***************************************************************************)
EXTENDS Processes

VARIABLES
  cur,         \* process_current()
  pc,          \* where each process is: see PCs of SyscallEntry
  ucontext,    \* the user context a process is in, or left when it trapped
  kstack,      \* process_t::kstack
  top,         \* the frame at the top of each kernel stack
  kernel_rsp,  \* syscall_kernel_rsp and tss.rsp0, always set together
  saved_user,  \* syscall_saved_user_rip / _rsp / _rflags
  user_ctx,    \* process_t::user_rip / user_rsp / user_rflags
  fork_point   \* history: the context a child's parent forked in

entryvars == <<cur, pc, ucontext, kstack, top, kernel_rsp, saved_user, user_ctx,
               fork_point>>

\* Past sti of syscall_entry, before sysret.
InKernel(p) == pc[p] \in {"entered", "handler"}
-----------------------------------------------------------------------------
(***************************************************************************)
(* While a process is preempted or in a system call, the top of ITS kernel *)
(* stack holds ITS user context, however often other processes entered the *)
(* kernel, execed or were preempted in between; and a process in user mode *)
(* would trap onto its own stack, which nobody else uses.                  *)
(***************************************************************************)
FrameIsOwn ==
  /\ \A p \in Procs : InKernel(p) \/ pc[p] = "irq" => top[kstack[p]] = ucontext[p]
  /\ cur # idle => kernel_rsp = kstack[cur]
  /\ \A p, q \in Procs : pc[p] # "free" /\ pc[q] # "free" /\ p # q
                           => kstack[p] # kstack[q]

(***************************************************************************)
(* A system call returns to the context it was made in, through sysret,    *)
(* unless it was a successful execve ("we restore rcx/r11 from the kernel  *)
(* stack (not globals) - race-free", syscall_entry.asm:23).                *)
(***************************************************************************)
ReturnsToCaller ==
  [][\A p \in Procs : InKernel(p) /\ pc'[p] = "user" /\ kstack'[p] = kstack[p]
                        => ucontext'[p] = ucontext[p]]_entryvars
=============================================================================
