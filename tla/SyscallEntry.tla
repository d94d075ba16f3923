---------------------------- MODULE SyscallEntry ----------------------------
(***************************************************************************)
(* The way into and out of the kernel (src/src/syscall/syscall_entry.asm,  *)
(* syscall_dispatch, irq_common) while the timer may preempt a system call *)
(* at any instruction after `sti`: which kernel stack a call runs on,      *)
(* which user context it returns to, and which one fork copies.  Which     *)
(* process runs next is module Scheduler's subject; here it may be any.    *)
(***************************************************************************)
EXTENDS EntryState

CONSTANTS
  First,      \* the process launched at boot
  Contexts,   \* user contexts (rip, rsp, rflags)
  Entry,      \* the context at an ELF entry point
  Stacks,     \* kernel stacks kmalloc can provide
  None        \* no value

(***************************************************************************)
(* "free": no process.  "new": forked, at fork_sysret_trampoline.  "user". *)
(* "irq": preempted in user mode.  "entered": past sti, before             *)
(* syscall_dispatch has read the globals.  "handler": in the handler, then *)
(* up to cli.                                                              *)
(***************************************************************************)
PCs == {"free", "new", "user", "irq", "entered", "handler"}

-----------------------------------------------------------------------------
\* SYSCALL masks IF until sti, so this is one step: save the user context in
\* the globals, take the kernel stack, push the frame at its top.
syscall_entry(p) ==
  /\ cur = p /\ pc[p] = "user"
  /\ saved_user' = ucontext[p]
  /\ top' = [top EXCEPT ![kernel_rsp] = ucontext[p]]
  /\ pc' = [pc EXCEPT ![p] = "entered"]
  /\ UNCHANGED <<cur, ucontext, kstack, kernel_rsp, user_ctx, fork_point>>

\* syscall_dispatch calls process_save_user_ctx with the globals.
syscall_dispatch(p) ==
  /\ cur = p /\ pc[p] = "entered"
  /\ user_ctx' = [user_ctx EXCEPT ![p] = saved_user]
  /\ pc' = [pc EXCEPT ![p] = "handler"]
  /\ UNCHANGED <<cur, ucontext, kstack, top, kernel_rsp, saved_user, fork_point>>

\* Mutant: the return path reloads the globals instead of the stack frame.
sysret_globals(p) ==
  /\ cur = p /\ pc[p] = "handler"
  /\ ucontext' = [ucontext EXCEPT ![p] = saved_user]
  /\ pc' = [pc EXCEPT ![p] = "user"]
  /\ UNCHANGED <<cur, kstack, top, kernel_rsp, saved_user, user_ctx, fork_point>>

\* cli, reload rcx, r11 and rsp from the frame, sysret.
sysret(p) ==
  /\ cur = p /\ pc[p] = "handler"
  /\ ucontext' = [ucontext EXCEPT ![p] = top[kstack[p]]]
  /\ pc' = [pc EXCEPT ![p] = "user"]
  /\ UNCHANGED <<cur, kstack, top, kernel_rsp, saved_user, user_ctx, fork_point>>

FreeStacks == Stacks \ {kstack[p] : p \in Procs}

\* process_fork: the child's trampoline registers are the parent's user_ctx.
process_fork(p, c, k) ==
  /\ cur = p /\ pc[p] = "handler" /\ pc[c] = "free"
  /\ k \in FreeStacks
  /\ kstack' = [kstack EXCEPT ![c] = k]
  /\ user_ctx' = [user_ctx EXCEPT ![c] = user_ctx[p]]
  /\ fork_point' = [fork_point EXCEPT ![c] = ucontext[p]]
  /\ pc' = [pc EXCEPT ![c] = "new"]
  /\ UNCHANGED <<cur, ucontext, top, kernel_rsp, saved_user>>

\* Mutant: execve leaves tss.rsp0 and syscall_kernel_rsp at the old stack.
sys_execve_oldrsp(p, k) ==
  /\ cur = p /\ pc[p] = "handler"
  /\ k \in FreeStacks
  /\ kstack' = [kstack EXCEPT ![p] = k]
  /\ ucontext' = [ucontext EXCEPT ![p] = Entry]
  /\ pc' = [pc EXCEPT ![p] = "user"]
  /\ UNCHANGED <<cur, top, kernel_rsp, saved_user, user_ctx, fork_point>>

\* The end of a successful sys_execve: a fresh kernel stack, then iretq to
\* the entry point of the new image.  The old stack is never freed, which
\* does not matter here: FreeStacks lets it be used again.
sys_execve(p, k) ==
  /\ cur = p /\ pc[p] = "handler"
  /\ k \in FreeStacks
  /\ kstack' = [kstack EXCEPT ![p] = k]
  /\ kernel_rsp' = k
  /\ ucontext' = [ucontext EXCEPT ![p] = Entry]
  /\ pc' = [pc EXCEPT ![p] = "user"]
  /\ UNCHANGED <<cur, top, saved_user, user_ctx, fork_point>>

\* The user program runs on to another context.
user_step(p, u) ==
  /\ cur = p /\ pc[p] = "user"
  /\ ucontext' = [ucontext EXCEPT ![p] = u]
  /\ UNCHANGED <<cur, pc, kstack, top, kernel_rsp, saved_user, user_ctx, fork_point>>

\* What resuming q does to its pc and its user context: out of irq_common
\* through iretq, or through fork_sysret_trampoline.
Resumed(q, pcs, tops) ==
  /\ pc' = [pcs EXCEPT ![q] = IF @ \in {"irq", "new"} THEN "user" ELSE @]
  /\ ucontext' = [ucontext EXCEPT ![q] = IF pcs[q] = "irq" THEN tops[kstack[q]]
                                         ELSE IF pcs[q] = "new" THEN user_ctx[q]
                                         ELSE @]

\* A switch to q: by the timer when the CPU is in user mode (the interrupt
\* frame goes to the top of the stack tss.rsp0 designates) or inside a call
\* (the frame goes below the call's), or by idle's own yield.
scheduler_yield(q) ==
  LET preempted == cur # idle /\ pc[cur] = "user"
      pcs == IF preempted THEN [pc EXCEPT ![cur] = "irq"] ELSE pc
      tops == IF preempted THEN [top EXCEPT ![kernel_rsp] = ucontext[cur]] ELSE top
  IN  /\ q # cur
      /\ q # idle => pc[q] # "free"
      /\ cur' = q
      /\ top' = tops
      /\ IF q = idle THEN pc' = pcs /\ UNCHANGED <<ucontext, kernel_rsp>>
                     ELSE Resumed(q, pcs, tops) /\ kernel_rsp' = kstack[q]
      /\ UNCHANGED <<kstack, saved_user, user_ctx, fork_point>>
-----------------------------------------------------------------------------
\* init_launch left one process and its stack, with kernel_rsp at its top,
\* and an iretq frame at the entry point.
EntryInit ==
  \E k \in Stacks :
    /\ cur = idle
    /\ pc = [p \in Procs |-> IF p = First THEN "irq" ELSE "free"]
    /\ ucontext = [p \in Procs |-> Entry]
    /\ kstack = [p \in Procs |-> IF p = First THEN k ELSE None]
    /\ top = [s \in Stacks |-> IF s = k THEN Entry ELSE None]
    /\ kernel_rsp = k
    /\ saved_user = None
    /\ user_ctx = [p \in Procs |-> None]
    /\ fork_point = [p \in Procs |-> None]

EntryNext ==
  \/ \E p \in Procs : \/ syscall_entry(p) \/ syscall_dispatch(p) \/ sysret(p)
                      \/ \E k \in Stacks : sys_execve(p, k)
                      \/ \E c \in Procs, k \in Stacks : process_fork(p, c, k)
                      \/ \E u \in Contexts : user_step(p, u)
  \/ \E q \in Procs \cup {idle} : scheduler_yield(q)

EntrySpec == EntryInit /\ [][EntryNext]_entryvars
-----------------------------------------------------------------------------
(***************************************************************************)
(* syscall_entry.asm:36 says of the globals: "Written with IF=0; read by   *)
(* dispatch before sti so no concurrent write possible."  Then the context *)
(* fork copies to the child is the one its parent forked in.               *)
(***************************************************************************)
ChildStartsAtFork ==
  \A c \in Procs : pc[c] = "new" => user_ctx[c] = fork_point[c]
=============================================================================
