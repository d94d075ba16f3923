------------------------------ MODULE Programs ------------------------------
(***************************************************************************)
(* The programs the system ships with, on the processes of module          *)
(* Scheduler: init (userspace/programs/init/init.c), which starts a shell  *)
(* again and again, the shell (userspace/programs/shell/shell.c), which    *)
(* runs shells and httpd on request, and httpd, whose calls module Httpd   *)
(* models and of which only the end matters here.  A behaviour is either   *)
(* the shipped system or, with programs = "any", Scheduler's own, in which *)
(* a process makes any call at any time.                                   *)
(***************************************************************************)
EXTENDS Scheduler

VARIABLES
  programs,   \* "any" or "shipped"
  image,      \* the program each process executes
  at,         \* where it is in that program
  pid         \* its variable `pid`, what fork returned

\* The exit status of a program that fails.
ASSUME FailureIsStatus == 1 \in Status

uvars == <<programs, image, at, pid>>
pvars == <<vars, uvars>>

(***************************************************************************)
(* "fork", "wait": a parent at fork and at waitpid.  "child": its copy     *)
(* before execve.  "failed": execve has returned.  "prompt", "line": the   *)
(* shell before the first character of a line and after one.  "serve":     *)
(* inside httpd.                                                           *)
(***************************************************************************)
Runs(program, place) ==
  /\ programs = "shipped" /\ InUser
  /\ image[current_proc] = program /\ at[current_proc] = place

Goto(place) == at' = [at EXCEPT ![current_proc] = place]
-----------------------------------------------------------------------------
\* Where a parent goes on after waitpid or a failed fork: init forks again,
\* the shell prompts.
Again(program) == IF program = "init" THEN "fork" ELSE "prompt"

\* fork in init's main and in the shell's run.
Fork(program) ==
  /\ Runs(program, "fork")
  /\ \/ \E c \in Pids :
          /\ process_fork(c)
          /\ image' = [image EXCEPT ![c] = program]
          /\ at' = [at EXCEPT ![c] = "child", ![current_proc] = "wait"]
          /\ pid' = [pid EXCEPT ![c] = 0, ![current_proc] = c]
     \/ /\ \E c \in Pids : process_fork_oom(c)
        /\ Goto(Again(program)) /\ UNCHANGED <<image, pid>>
     \/ /\ \A c \in Pids : ~IsFree(c)
        /\ Goto(Again(program)) /\ UNCHANGED <<vars, image, pid>>
  /\ UNCHANGED programs

\* execve by the child: init's asks for the shell, the shell's for what was
\* typed.  A path sys_execve does not know, or want of memory, fails.
Execve(program) ==
  /\ Runs(program, "child")
  /\ \/ \E new \in IF program = "init" THEN {"shell"} ELSE {"shell", "httpd"} :
          /\ image' = [image EXCEPT ![current_proc] = new]
          /\ Goto(IF new = "shell" THEN "prompt" ELSE "serve")
     \/ Goto("failed") /\ UNCHANGED image
  /\ UNCHANGED <<vars, programs, pid>>

\* _exit(1) and _exit(127) after execve has failed.
ExecFailed(program) ==
  /\ Runs(program, "failed")
  /\ sys_exit(1)
  /\ UNCHANGED uvars

\* Mutant: the parent goes on without waiting for the child.
Wait_background(program) ==
  /\ Runs(program, "wait")
  /\ Goto(Again(program))
  /\ UNCHANGED <<vars, programs, image, pid>>

\* waitpid(pid): the parent's next step follows its return.
Wait(program) ==
  /\ Runs(program, "wait")
  /\ IF state[pid[current_proc]] # "UNUSED" /\ ppid[pid[current_proc]] = current_proc
     THEN process_waitpid(pid[current_proc])
     ELSE UNCHANGED vars
  /\ Goto(Again(program))
  /\ UNCHANGED <<programs, image, pid>>
-----------------------------------------------------------------------------
\* readline reads its line a character at a time.
readline ==
  /\ Runs("shell", "prompt") \/ Runs("shell", "line")
  /\ tty_read
  /\ Goto("line")
  /\ UNCHANGED <<programs, image, pid>>

\* An empty or blank line and cd, ls and cat, which only print.
Builtin ==
  /\ Runs("shell", "line")
  /\ Goto("prompt")
  /\ UNCHANGED <<vars, programs, image, pid>>

\* Any other word is a program to run.
Command ==
  /\ Runs("shell", "line")
  /\ Goto("fork")
  /\ UNCHANGED <<vars, programs, image, pid>>

\* exit: main returns, and the start-up code exits with what it returned.
ShellExits ==
  /\ Runs("shell", "line")
  /\ sys_exit(0)
  /\ UNCHANGED uvars

\* httpd's main returns when it gets no socket or port.
HttpdExits ==
  /\ Runs("httpd", "serve")
  /\ sys_exit(1)
  /\ UNCHANGED uvars
-----------------------------------------------------------------------------
\* init_launch starts init and httpd as pids 1 and 2.
PInit ==
  /\ Init
  /\ programs \in {"any", "shipped"}
  /\ image = [p \in Pids |-> IF p = 1 THEN "init" ELSE "httpd"]
  /\ at = [p \in Pids |-> IF p = 1 THEN "fork" ELSE "serve"]
  /\ pid = [p \in Pids |-> 0]

Shipped ==
  \/ \E program \in {"init", "shell"} :
       \/ Fork(program) \/ Execve(program) \/ ExecFailed(program) \/ Wait(program)
  \/ readline \/ Builtin \/ Command \/ ShellExits \/ HttpdExits

Beneath(action) == action /\ UNCHANGED uvars

PNext ==
  \/ Shipped
  \/ programs = "any" /\ Beneath(Syscall)
  \/ Beneath(KernelStep) \/ Beneath(TimerIRQ) \/ Beneath(device_irq)

\* The fairness of Scheduler's FairSpec.
PSpec ==
  /\ PInit /\ [][PNext]_pvars
  /\ SF_pvars(Beneath(TimerIRQ))
  /\ \A p \in Pids : SF_pvars(Beneath(current_proc = p /\ KernelStep))
-----------------------------------------------------------------------------
\* The shipped programs have one process in the foreground, at the end of a
\* chain from init in which each waits for the next; so at most one process
\* reads the terminal, as tty_read needs, which takes bytes from the ring
\* without a lock, and every process a program forks is reaped by it.
OneForeground ==
  programs = "shipped" =>
    /\ \A p, q \in Live : pc[p] = "read" /\ pc[q] = "read" => p = q
    /\ \A c \in Live : c \notin {idle, 1, 2} \/ ppid[c] # idle =>
         /\ ppid[c] \in Live /\ pid[ppid[c]] = c
         /\ at[ppid[c]] = "wait" \/ pc[ppid[c]] = "waitpid"
=============================================================================
