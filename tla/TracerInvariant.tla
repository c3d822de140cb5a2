-------------------------- MODULE TracerInvariant --------------------------
(***************************************************************************)
(* The inductive invariants behind the safety properties of Tracer.  IInv  *)
(* holds as long as no thread but a group's leader calls execve            *)
(* (ThreadExec = FALSE), TrackInv whoever does, and ExitCodeInv as long as *)
(* there is one process.  MCTracer checks them, TracerProofs and           *)
(* TrackingProofs prove them.                                              *)
(***************************************************************************)
EXTENDS Tracer

\* GravelBox knows which task it is handling exactly while it handles a stop.
ChildIsHandled == pc \in Handling <=> child \in Task

\* The callback runs for a system call.
CallbackHasCall == pc \in Callback => args \in Syscall

\* The task being handled stays in the reported stop, unless it is killed; its
\* thread id is not used again before GravelBox waits again.
ChildStaysStopped ==
  pc \in Handling =>
    \/ run[child] = "zombie"
    \/ Traced(child) /\ seen[child] /\ wstatus = StopSig(run[child])

\* A stop that has been reported belongs to the task being handled.
ReportedIsHandled ==
  \A t \in Task : seen[t] =>
    \/ pc = "exited"
    \/ Traced(t) /\ (t = child \/ (t = Root /\ pc = "options") \/ pc = "closing")

\* Only leaders are in the middle of an execve.
LeadersExec == \A t \in Task : run[t] = "dethread" => leader[t] = t

\* Before the options are set there is the child only, and the map is empty.
Starting ==
  pc \in {"attach", "options"} =>
    \A t \in Task :
      /\ thread_status[t] = "absent"
      /\ run[t] \in IF t = Root THEN {"newborn", "sigstop", "sigborn", "zombie"}
                    ELSE {"free"}

\* Is GravelBox done with the stop of t, but for the PTRACE_SYSCALL?
Resuming(t) == pc = "resume" /\ child = t

\* A task that is inside its system call has a verdict, and the kernel's idea of
\* the call agrees with it.
Judged(t) ==
  /\ thread_status[t] \in {"KERNELSPACE_ALLOW", "KERNELSPACE_DENY"}
  /\ thread_status[t] = "KERNELSPACE_DENY" <=> nr[t] = NoSyscall
  /\ rax[t] # "EPERM"
  /\ nr[t] # NoSyscall => Cleared(t)

\* What the map says of a task, by where the task is.
StatusAgrees(t) ==
  /\ run[t] = "free" => thread_status[t] = "absent"
  /\ run[t] \in {"newborn", "sigborn", "sigstop"} =>
       thread_status[t] \in {"absent", "USERSPACE"}
  /\ run[t] = "sigstop" /\ Resuming(t) => thread_status[t] = "USERSPACE"
  /\ run[t] \in {"user", "signal"} => thread_status[t] = "USERSPACE"
  /\ run[t] = "entry" =>
       IF Resuming(t) THEN Judged(t)
       ELSE thread_status[t] = "USERSPACE" /\ nr[t] # NoSyscall /\ rax[t] # "EPERM"
  /\ run[t] \in InKernel => Judged(t)
  /\ run[t] = "exit" =>
       IF Resuming(t)
       THEN thread_status[t] = "USERSPACE" /\ (rax[t] = "EPERM" <=> nr[t] = NoSyscall)
       ELSE Judged(t)

\* The callback decides on the call that the task is in.
CallbackAgrees ==
  pc \in Callback =>
    /\ wstatus = "SYSCALL"
    /\ pc \in {"ask", "password", "retry"} => Policy[args] = "ASK"
    /\ pc \in {"password", "retry"} => HasPassword
    /\ Alive(child) =>
         /\ run[child] = "entry" /\ args = nr[child]
         /\ pc = "allow" => Cleared(child)

\* Types alone are inductive without any assumption about execve.
TypeInv == TypeOK /\ ChildIsHandled /\ CallbackHasCall

Coherent ==
  /\ ChildStaysStopped
  /\ ReportedIsHandled
  /\ LeadersExec
  /\ Starting
  /\ CallbackAgrees
  /\ KnownThread
  /\ EntryAssertionHolds
  /\ \A t \in Task : StatusAgrees(t)

IInv == TypeInv /\ Coherent
-----------------------------------------------------------------------------
(***************************************************************************)
(* Which tasks the map knows, whoever calls execve.                        *)
(***************************************************************************)
\* The loop returns only with an empty map.
EmptyAtReturn ==
  fate = "returned" /\ pc = "closing" => \A t \in Task : thread_status[t] = "absent"

\* A task has been entered in the map before it runs, and stays there until it
\* is reaped.
Entered ==
  \A t \in Task :
    run[t] \in {"user", "signal", "entry", "exit"} \cup InKernel => t \in Tracked

\* So has its group's leader, dead or alive, which is not reaped before the task.
\* A thread that calls execve goes on under the leader's thread id.
LeaderTracked ==
  \A t \in Task : run[t] # "free" /\ leader[t] # t =>
    leader[t] \in Tracked /\ run[leader[t]] # "free" /\ leader[leader[t]] = leader[t]

\* The task being handled is in a stop or dead, and its first stop is known as
\* such.  Once that is handled the task is in the map.
ChildIsStopped ==
  pc \in Handling =>
    /\ run[child] \in Stops \cup {"zombie"}
    /\ run[child] = "sigstop" => wstatus = "SIGSTOP" /\ (pc = "resume" => child \in Tracked)

TrackInv ==
  /\ TypeInv
  /\ Starting
  /\ LeavesNoTask
  /\ EmptyAtReturn
  /\ Entered
  /\ LeaderTracked
  /\ ChildIsStopped
  /\ KnownThread

-----------------------------------------------------------------------------
(***************************************************************************)
(* What waitpid() waits for.                                               *)
(***************************************************************************)
\* The loop goes on only with a task in the map.
LoopHasTask == pc = "wait" \/ pc \in Handling => Tracked # {}

\* execve has killed every other thread of its group, and no new one is born.
ExecKillsOthers ==
  \A t \in Task : run[t] = "dethread" => \A u \in Group(t) \ {t} : run[u] = "zombie"

WaitInv == TrackInv /\ ReportedIsHandled /\ LoopHasTask /\ ExecKillsOthers

-----------------------------------------------------------------------------
(***************************************************************************)
(* The exit code of a single process.                                      *)
(***************************************************************************)
\* The target does not create processes.
NoFork == \A s \in Syscall : Effect[s] # "fork"

OneProcess == \A t \in Task : run[t] # "free" => leader[t] = Root

\* The child is in the map from the setting of the options until it is reaped.
RootTracked ==
  pc = "wait" \/ pc \in Handling => run[Root] = "free" \/ Root \in Tracked

\* When the loop has returned no task is left that could change what the child's
\* wait status is.
ReturnedWithCode ==
  fate = "returned" =>
    /\ pc \in {"closing", "exited"}
    /\ \A t \in Task : run[t] = "free"
    /\ rc = ExitStatus(status[Root])

ExitCodeInv == TrackInv /\ OneProcess /\ RootTracked /\ ReturnedWithCode
=============================================================================
