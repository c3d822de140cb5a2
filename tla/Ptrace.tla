------------------------------- MODULE Ptrace -------------------------------
(***************************************************************************)
(* The kernel side of ptrace(2) and wait(2), as far as the tracer in       *)
(* src/trace/tracer.cpp depends on it: the life of the traced tasks, the   *)
(* stops they report, and what kills them.  None of this is code of the    *)
(* repository; it is the environment of module Tracer.                     *)
(*                                                                         *)
(* A task is named by its thread id.  A thread id may be used again after  *)
(* the tracer has reaped its exit.                                         *)
(***************************************************************************)
EXTENDS Integers

CONSTANTS
  Task,         \* thread ids
  Root,         \* thread id of the process that GravelBox spawns
  Syscall,      \* system calls the target issues, arguments included
  NoSyscall,    \* orig_rax = -1, a system call number the kernel skips
  Effect,       \* what executing a system call does to the set of tasks
  ExitCode,     \* codes the target passes to exit() and exit_group()
  ThreadExec    \* may a thread that is not its group's leader call execve?

Effects == {"plain", "clone", "fork", "exec", "exit", "exit_group"}

ASSUME RootAssumption == Root \in Task
ASSUME SyscallAssumption == NoSyscall \notin Syscall
ASSUME EffectAssumption == Effect \in [Syscall -> Effects]
ASSUME ExitCodeAssumption == ExitCode \subseteq Nat
ASSUME ThreadExecAssumption == ThreadExec \in BOOLEAN

VARIABLES
  run,      \* where each task is: running, in one of its stops, dead
  seen,     \* has waitpid() already reported the stop the task is in?
  leader,   \* the leader of the task's thread group
  nr,       \* orig_rax: the system call the task is in
  rax,      \* what the system call returns to the task
  status    \* the wait status of a dead task

kernelVars == <<run, seen, leader, nr, rax, status>>

(***************************************************************************)
(* Stops.  "sigstop" is the stop by SIGSTOP that follows the automatic     *)
(* attachment of a new task; "signal" any signal-delivery stop; "sigborn"  *)
(* a signal-delivery stop of a new task whose own SIGSTOP is still         *)
(* pending; "event" a PTRACE_EVENT_CLONE/FORK/VFORK stop; "entry" and      *)
(* "exit" are the two syscall stops, which have the same wait status.      *)
(***************************************************************************)
Stops == {"sigstop", "signal", "sigborn", "event", "entry", "exit"}

\* Inside a system call, after the entry stop and before the exit stop.
InKernel == {"kernel", "spawned", "dethread", "event"}

RunStates == Stops \cup InKernel \cup {"free", "newborn", "user", "zombie"}

Results == {"value", "ENOSYS", "EPERM"}

\* exit() with a code of the target's or with GravelBox's own, or SIGKILL.
Statuses == [how : {"exited", "signaled"}, code : ExitCode \cup {0, 1, 9}]

WithCode(c) == [how |-> "exited", code |-> c]
BySignal(n) == [how |-> "signaled", code |-> n]

KernelTypeOK ==
  /\ run \in [Task -> RunStates]
  /\ seen \in [Task -> BOOLEAN]
  /\ leader \in [Task -> Task]
  /\ nr \in [Task -> Syscall \cup {NoSyscall}]
  /\ rax \in [Task -> Results]
  /\ status \in [Task -> Statuses]

KernelInit ==
  /\ run = [t \in Task |-> IF t = Root THEN "newborn" ELSE "free"]
  /\ seen = [t \in Task |-> FALSE]
  /\ leader = [t \in Task |-> t]
  /\ nr = [t \in Task |-> NoSyscall]
  /\ rax = [t \in Task |-> "value"]
  /\ status = [t \in Task |-> WithCode(0)]

Alive(t) == run[t] \notin {"free", "zombie"}

\* A request on a task that is not stopped fails with ESRCH.
Traced(t) == run[t] \in Stops

\* The tasks of t's thread group that have not been reaped.
Group(t) == {u \in Task : leader[u] = leader[t] /\ run[u] # "free"}

\* waitpid() reports each stop once, and the death of a leader only after
\* every other thread of its group has been reaped.
StopReady(t) == Traced(t) /\ ~seen[t]
ExitReady(t) == run[t] = "zombie" /\ (leader[t] = t => Group(t) = {t})

-----------------------------------------------------------------------------
(***************************************************************************)
(* Steps of the tasks.                                                     *)
(***************************************************************************)
\* Task t moves from one of the states in `from' to state `to'.
Moves(t, from, to) ==
  /\ run[t] \in from
  /\ run' = [run EXCEPT ![t] = to]
  /\ seen' = [seen EXCEPT ![t] = FALSE]

\* The tasks of S that are alive die, and all of S reports status st.
Die(S, st) ==
  /\ run' = [t \in Task |-> IF t \in S /\ Alive(t) THEN "zombie" ELSE run[t]]
  /\ seen' = [t \in Task |-> seen[t] /\ ~(t \in S)]
  /\ status' = [t \in Task |-> IF t \in S THEN st ELSE status[t]]

\* Executing in the kernel a system call of effect e (a skipped one has none).
Executing(t, e) == run[t] = "kernel" /\ nr[t] \in Syscall /\ Effect[nr[t]] = e

EnterSyscall(t, s) ==
  /\ Moves(t, {"user"}, "entry")
  /\ nr' = [nr EXCEPT ![t] = s]
  /\ rax' = [rax EXCEPT ![t] = "ENOSYS"]
  /\ UNCHANGED <<leader, status>>

\* The call completes or fails and the task reaches its exit stop.  A skipped
\* call leaves in rax the ENOSYS that system call entry put there.
ReturnFromSyscall(t) ==
  /\ nr[t] \in Syscall => Effect[nr[t]] \notin {"exit", "exit_group"}
  /\ Moves(t, {"kernel", "spawned"}, "exit")
  /\ rax' = [rax EXCEPT ![t] = IF nr[t] = NoSyscall THEN @ ELSE "value"]
  /\ UNCHANGED <<leader, nr, status>>

\* A new task is attached with a pending SIGSTOP; its creator reports an event.
\* With CLONE_UNTRACED it would not be attached; no creator asks for that here.
Spawn(t, u) ==
  /\ Executing(t, "clone") \/ Executing(t, "fork")
  /\ run[u] = "free"
  /\ run' = [run EXCEPT ![t] = "event", ![u] = "newborn"]
  /\ leader' = [leader EXCEPT ![u] = IF Executing(t, "clone") THEN leader[t] ELSE u]
  /\ seen' = [seen EXCEPT ![t] = FALSE]
  /\ UNCHANGED <<nr, rax, status>>

\* A task with SIGSTOP pending, or one that is sent SIGSTOP, stops.
StopBySigstop(t) ==
  /\ Moves(t, {"newborn", "user"}, "sigstop")
  /\ UNCHANGED <<leader, nr, rax, status>>

\* Any other signal stops the task before it is delivered; a new task can take
\* a signal of a lower number before its SIGSTOP.
StopBySignal(t) ==
  /\ \/ Moves(t, {"user"}, "signal")
     \/ Moves(t, {"newborn"}, "sigborn")
  /\ UNCHANGED <<leader, nr, rax, status>>

ExitThread(t, c) ==
  /\ Executing(t, "exit")
  /\ Die({t}, WithCode(c))
  /\ UNCHANGED <<leader, nr, rax>>

ExitGroup(t, c) ==
  /\ Executing(t, "exit_group")
  /\ Die(Group(t), WithCode(c))
  /\ UNCHANGED <<leader, nr, rax>>

\* SIGKILL, from anywhere, at any time, in any stop.
Sigkill(t) ==
  /\ Alive(t)
  /\ Die(Group(t), BySignal(9))
  /\ UNCHANGED <<leader, nr, rax>>

\* execve kills the other threads of the group and waits until they are gone.
BeginExec(t) ==
  /\ Executing(t, "exec")
  /\ leader[t] = t \/ ThreadExec
  /\ LET others == {u \in Group(t) \ {t} : Alive(u)}
     IN /\ run' = [u \in Task |-> IF u = t THEN "dethread"
                                  ELSE IF u \in others THEN "zombie" ELSE run[u]]
        /\ seen' = [u \in Task |-> seen[u] /\ ~(u \in others)]
        /\ status' = [u \in Task |-> IF u \in others THEN WithCode(0)
                                     ELSE status[u]]
  /\ UNCHANGED <<leader, nr, rax>>

FinishExec(t) ==
  /\ leader[t] = t /\ Group(t) = {t}
  /\ Moves(t, {"dethread"}, "exit")
  /\ rax' = [rax EXCEPT ![t] = "value"]
  /\ UNCHANGED <<leader, nr, status>>

\* A thread that is not the leader takes the leader's thread id l.  Its own
\* former thread id disappears without any notification.
FinishThreadExec(t, l) ==
  /\ run[t] = "dethread" /\ l # t /\ leader[t] = l
  /\ run[l] = "zombie" /\ Group(t) = {t, l}
  /\ run' = [run EXCEPT ![l] = "exit", ![t] = "free"]
  /\ seen' = [seen EXCEPT ![l] = FALSE]
  /\ leader' = [leader EXCEPT ![t] = t]
  /\ nr' = [nr EXCEPT ![l] = nr[t], ![t] = NoSyscall]
  /\ rax' = [rax EXCEPT ![l] = "value", ![t] = "value"]
  /\ UNCHANGED status

-----------------------------------------------------------------------------
(***************************************************************************)
(* What the tracer's calls do to the tasks.                                *)
(***************************************************************************)
\* PTRACE_SYSCALL with signal 0: go on to the next stop; a signal that was
\* about to be delivered is discarded.
AfterResume(r) ==
  CASE r = "entry"   -> "kernel"
    [] r = "event"   -> "spawned"
    [] r = "sigborn" -> "newborn"
    [] OTHER         -> "user"

PtraceSyscall(t) ==
  /\ Moves(t, Stops, AfterResume(run[t]))
  /\ UNCHANGED <<leader, nr, rax, status>>

\* waitpid() consumes the report of a stop, or reaps a dead task.
ReportStop(t) ==
  /\ StopReady(t)
  /\ seen' = [seen EXCEPT ![t] = TRUE]
  /\ UNCHANGED <<run, leader, nr, rax, status>>

ReapExit(t) ==
  /\ ExitReady(t)
  /\ run' = [run EXCEPT ![t] = "free"]
  /\ leader' = [leader EXCEPT ![t] = t]
  /\ nr' = [nr EXCEPT ![t] = NoSyscall]
  /\ rax' = [rax EXCEPT ![t] = "value"]
  /\ UNCHANGED <<seen, status>>

=============================================================================
