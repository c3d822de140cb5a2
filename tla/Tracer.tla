------------------------------- MODULE Tracer -------------------------------
(***************************************************************************)
(* GravelBox's tracing loop: run_with_callbacks() in src/trace/tracer.cpp, *)
(* the system call callback of Tracer::run() in src/trace/tracer.h, and    *)
(* how the program ends (PinentryUI's destructor and main()).              *)
(*                                                                         *)
(* GravelBox is a single thread.  It blocks in waitpid(-1), handles the    *)
(* one stop it is told about, resumes that task and waits again.  While it *)
(* handles a stop (which may take as long as the user thinks), the other   *)
(* tasks run, stop, create tasks and die, and the stopped task itself can  *)
(* be killed.                                                              *)
(***************************************************************************)
EXTENDS Ptrace

CONSTANTS
  Policy,       \* the configured action of each system call
  ReadsMemory,  \* the system calls with a char* argument
  HasPassword,  \* does the configuration have a user decision password?
  Asserts,      \* are assertions compiled in? (not with make RELEASE=1)
  Crashes,      \* may GravelBox be killed, and pinentry die?
  NoTask        \* no stop is being handled

Action == {"ALLOW", "DENY", "ASK"}

ASSUME PolicyAssumption == Policy \in [Syscall -> Action]
ASSUME ReadsMemoryAssumption == ReadsMemory \subseteq Syscall
ASSUME FlagsAssumption ==
  HasPassword \in BOOLEAN /\ Asserts \in BOOLEAN /\ Crashes \in BOOLEAN
ASSUME NoTaskAssumption == NoTask \notin Task

VARIABLES
  pc,             \* where GravelBox is
  child,          \* the task whose stop is being handled
  wstatus,        \* what waitpid() reported of it
  args,           \* the system call the callback decides on
  thread_status,  \* the map of that name; "absent" when not in the map
  pinentry,       \* the pinentry process, a child of GravelBox as well
  rc,             \* the exit code GravelBox is about to return
  fate,           \* how GravelBox ends
  answer          \* history: what the user said of each task's system call

loopVars == <<pc, child, wstatus, args>>
endVars == <<pinentry, rc, fate>>
vars == <<kernelVars, loopVars, thread_status, endVars, answer>>

\* enum class ThreadStatus
ThreadStatus == {"USERSPACE", "KERNELSPACE_ALLOW", "KERNELSPACE_DENY"}

\* Between waitpid() and the PTRACE_SYSCALL that ends the handling of a stop.
Callback == {"callback", "ask", "password", "retry", "allow", "deny"}
Handling == Callback \cup {"stopped", "resume"}
Pc == Handling \cup {"attach", "options", "wait", "closing", "exited"}

\* "terminate": the callback throws because its task has died; "callback_failed":
\* for another reason.
Fates == {"none", "returned", "child_failed", "exception", "assert_stop", "assert_entry",
          "terminate", "callback_failed", "sigpipe", "close_failed", "killed"}

ExitFailure == 1

\* Slip: the convention of subprocess libraries for a death by a signal.
NegatedExitStatus(st) == IF st.how = "exited" THEN st.code ELSE -st.code

\* Wait status to exit code, "consistent with bash".
ExitStatus(st) == IF st.how = "exited" THEN st.code ELSE 128 + st.code

\* WSTOPSIG cannot tell the entry stop from the exit stop of a system call.
StopSig(r) ==
  CASE r = "sigstop"          -> "SIGSTOP"
    [] r \in {"entry", "exit"} -> "SYSCALL"
    [] OTHER                  -> "OTHER"

Tracked == {t \in Task : thread_status[t] # "absent"}

TypeOK ==
  /\ KernelTypeOK
  /\ pc \in Pc
  /\ child \in Task \cup {NoTask}
  /\ wstatus \in {"SIGSTOP", "SYSCALL", "OTHER"}
  /\ args \in Syscall \cup {NoSyscall}
  /\ thread_status \in [Task -> ThreadStatus \cup {"absent"}]
  /\ pinentry \in {"up", "down", "reaped"}
  /\ rc \in Nat
  /\ fate \in Fates
  /\ answer \in [Task -> {"none", "no", "yes", "auth"}]

Init ==
  /\ KernelInit
  /\ pc = "attach" /\ child = NoTask /\ wstatus = "OTHER" /\ args = NoSyscall
  /\ thread_status = [t \in Task |-> "absent"]
  /\ pinentry = "up" /\ rc = 0 /\ fate = "none"
  /\ answer = [t \in Task |-> "none"]

-----------------------------------------------------------------------------
(***************************************************************************)
(* How GravelBox ends.                                                     *)
(***************************************************************************)
\* Slip: PTRACE_O_EXITKILL is not set.
ExitedLeavesTasks(how) ==
  /\ pc' = "exited" /\ fate' = how
  /\ child' = NoTask /\ wstatus' = "OTHER" /\ args' = NoSyscall
  /\ UNCHANGED <<kernelVars, thread_status, rc, answer>>

\* The GravelBox process is gone.  PTRACE_O_EXITKILL kills every tracee, once
\* the option is set.
Exited(how) ==
  /\ pc' = "exited" /\ fate' = how
  /\ run' = IF pc \in {"attach", "options"} THEN run
            ELSE [t \in Task |-> IF Alive(t) THEN "zombie" ELSE run[t]]
  /\ child' = NoTask /\ wstatus' = "OTHER" /\ args' = NoSyscall
  /\ UNCHANGED <<seen, leader, nr, rax, status, thread_status, rc, answer>>

\* run() returns or throws; ~PinentryUI() runs next and the tasks still run.
Closing(how, code) ==
  /\ pc' = "closing" /\ fate' = how /\ rc' = code
  /\ child' = NoTask /\ wstatus' = "OTHER" /\ args' = NoSyscall
  /\ UNCHANGED <<thread_status, pinentry, answer>>

\* A uncaught exception in a noexcept function, or a failed assertion.
Abort(how) == Exited(how) /\ UNCHANGED pinentry

\* ~PinentryUI(): say BYE, receive OK and reap pinentry.  An answer other than OK
\* throws across the noexcept destructor, and when pinentry was killed an assertion
\* fails; without pinentry the write to the broken pipe is fatal.
CloseUI ==
  /\ pc = "closing"
  /\ \/ pinentry = "up" /\ pinentry' = "reaped" /\ Exited(fate)
     \/ pinentry = "up" /\ pinentry' \in {"up", "reaped"} /\ Exited("close_failed")
     \/ pinentry # "up" /\ Abort("sigpipe")

Killed == Crashes /\ pc # "exited" /\ Abort("killed")

PinentryDies ==
  /\ Crashes /\ pc # "exited" /\ pinentry = "up"
  /\ pinentry' = "down"
  /\ UNCHANGED <<kernelVars, loopVars, thread_status, rc, fate, answer>>

-----------------------------------------------------------------------------
(***************************************************************************)
(* Start: wait for the child's SIGSTOP, set the options, let it run.       *)
(***************************************************************************)
\* The child fails to become a tracee, or to stop itself: it prints the error
\* and exits.
ChildInitFails ==
  /\ pc = "attach" /\ run[Root] = "newborn"
  /\ Die({Root}, WithCode(ExitFailure))
  /\ UNCHANGED <<leader, nr, rax, loopVars, thread_status, endVars, answer>>

AttachChild ==
  /\ pc = "attach"
  /\ \/ /\ ReapExit(Root)
        /\ Closing("child_failed", ExitStatus(status[Root]))
     \/ /\ StopReady(Root) /\ Asserts /\ run[Root] # "sigstop"
        /\ Abort("assert_stop")
     \/ /\ ReportStop(Root)
        /\ Asserts => run[Root] = "sigstop"
        /\ pc' = "options"
        /\ UNCHANGED <<child, wstatus, args, thread_status, endVars, answer>>

\* A child that has died meanwhile makes ptrace() throw, outside of any try.
SetOptions ==
  /\ pc = "options"
  /\ \/ /\ PtraceSyscall(Root)
        /\ pc' = "wait"
        /\ thread_status' = [thread_status EXCEPT ![Root] = "USERSPACE"]
        /\ UNCHANGED <<child, wstatus, args, endVars, answer>>
     \/ /\ ~Traced(Root)
        /\ Closing("exception", ExitFailure)
        /\ UNCHANGED kernelVars

-----------------------------------------------------------------------------
(***************************************************************************)
(* waitpid(-1).                                                            *)
(***************************************************************************)
WaitStop(t) ==
  /\ pc = "wait"
  /\ ReportStop(t)
  /\ pc' = "stopped" /\ child' = t /\ wstatus' = StopSig(run[t])
  /\ UNCHANGED <<args, thread_status, endVars, answer>>

\* Slip: the first exit ends the loop.
WaitExitReturnsFirst(t) ==
  /\ pc = "wait"
  /\ ReapExit(t)
  /\ thread_status' = [thread_status EXCEPT ![t] = "absent"]
  /\ pc' = "closing" /\ fate' = "returned" /\ rc' = ExitStatus(status[t])
  /\ answer' = [answer EXCEPT ![t] = "none"]
  /\ UNCHANGED <<child, wstatus, args, pinentry>>

\* Slip: the map is looked at before the task is erased.
WaitExitChecksFirst(t) ==
  /\ pc = "wait"
  /\ ReapExit(t)
  /\ thread_status' = [thread_status EXCEPT ![t] = "absent"]
  /\ \/ /\ Tracked = {}
        /\ pc' = "closing" /\ fate' = "returned"
        /\ rc' = ExitStatus(status[t])
     \/ /\ Tracked # {}
        /\ UNCHANGED <<pc, rc, fate>>
  /\ answer' = [answer EXCEPT ![t] = "none"]
  /\ UNCHANGED <<child, wstatus, args, pinentry>>

\* Return when the map becomes empty, with the status of the last task reaped.
WaitExit(t) ==
  /\ pc = "wait"
  /\ ReapExit(t)
  /\ thread_status' = [thread_status EXCEPT ![t] = "absent"]
  /\ \/ /\ Tracked \subseteq {t}
        /\ pc' = "closing" /\ fate' = "returned"
        /\ rc' = ExitStatus(status[t])
     \/ /\ ~(Tracked \subseteq {t})
        /\ UNCHANGED <<pc, rc, fate>>
  /\ answer' = [answer EXCEPT ![t] = "none"]
  /\ UNCHANGED <<child, wstatus, args, pinentry>>

\* pinentry's death is reported here too; erase() finds no entry for it, and
\* the map is never empty inside the loop.
WaitPinentry ==
  /\ pc = "wait" /\ pinentry = "down" /\ Tracked # {}
  /\ pinentry' = "reaped"
  /\ UNCHANGED <<kernelVars, loopVars, thread_status, rc, fate, answer>>

\* ECHILD, outside of the try.
WaitFails ==
  /\ pc = "wait" /\ pinentry = "reaped" /\ \A t \in Task : run[t] = "free"
  /\ Closing("exception", ExitFailure)
  /\ UNCHANGED kernelVars

-----------------------------------------------------------------------------
(***************************************************************************)
(* The switch on WSTOPSIG.  A request on a task that died meanwhile throws *)
(* ESRCH, which is caught: back to waitpid() until its exit is reported.   *)
(***************************************************************************)
StopHandled == pc' = "wait" /\ child' = NoTask /\ wstatus' = "OTHER" /\ args' = NoSyscall

GoTo(where) == pc' = where /\ UNCHANGED <<child, wstatus, args>>

SetStatus(st) == thread_status' = [thread_status EXCEPT ![child] = st]

\* Slip: a request that failed with ESRCH is made again.
TraceeGoneRetries ==
  /\ ~Traced(child)
  /\ UNCHANGED vars

TraceeGone ==
  /\ ~Traced(child)
  /\ StopHandled
  /\ UNCHANGED <<kernelVars, thread_status, endVars, answer>>

\* Slip: the new task is resumed but not entered into the map.
HandleSigstopForgets ==
  /\ pc = "stopped" /\ wstatus = "SIGSTOP"
  /\ GoTo("resume")
  /\ UNCHANGED <<kernelVars, thread_status, endVars, answer>>

\* SIGSTOP: enter a new task into the map.
HandleSigstop ==
  /\ pc = "stopped" /\ wstatus = "SIGSTOP"
  /\ SetStatus(IF child \in Tracked THEN thread_status[child] ELSE "USERSPACE")
  /\ GoTo("resume")
  /\ UNCHANGED <<kernelVars, endVars, answer>>

\* Slip: a stop of no interest is not resumed.
HandleOtherContinues ==
  /\ pc = "stopped" /\ wstatus = "OTHER"
  /\ StopHandled
  /\ UNCHANGED <<kernelVars, thread_status, endVars, answer>>

\* Slip: every other stop is taken for a return to user space.
HandleOtherResets ==
  /\ pc = "stopped" /\ wstatus = "OTHER"
  /\ SetStatus("USERSPACE")
  /\ GoTo("resume")
  /\ UNCHANGED <<kernelVars, endVars, answer>>

\* Events and other signals have no case.
HandleOther ==
  /\ pc = "stopped" /\ wstatus = "OTHER"
  /\ GoTo("resume")
  /\ UNCHANGED <<kernelVars, thread_status, endVars, answer>>

\* The three cases of thread_status.at(child).  It throws when child is not in
\* the map; no action stands for that, because it never happens (KnownThread).

\* case USERSPACE: this must be an entry stop.  When it is not, the assertion
\* fails, or the callback gets whatever the entry fields happen to hold.
HandleEntry ==
  /\ pc = "stopped" /\ wstatus = "SYSCALL" /\ thread_status[child] = "USERSPACE"
  /\ \/ TraceeGone
     \/ /\ Traced(child) /\ Asserts /\ run[child] # "entry"
        /\ Abort("assert_entry")
     \/ /\ Traced(child)
        /\ Asserts => run[child] = "entry"
        /\ \E s \in Syscall : args' = s /\ (run[child] = "entry" => s = nr[child])
        /\ pc' = "callback"
        /\ UNCHANGED <<kernelVars, child, wstatus, thread_status, endVars, answer>>

\* Slip: the return value of a refused call is left as it is.
HandleDeniedExitSilent ==
  /\ pc = "stopped" /\ wstatus = "SYSCALL"
  /\ thread_status[child] = "KERNELSPACE_DENY"
  /\ SetStatus("USERSPACE")
  /\ GoTo("resume")
  /\ UNCHANGED <<kernelVars, endVars, answer>>

\* case KERNELSPACE_DENY: this is the exit stop, make the call return -EPERM.
HandleDeniedExit ==
  /\ pc = "stopped" /\ wstatus = "SYSCALL"
  /\ thread_status[child] = "KERNELSPACE_DENY"
  /\ \/ TraceeGone
     \/ /\ Traced(child)
        /\ rax' = [rax EXCEPT ![child] = "EPERM"]
        /\ SetStatus("USERSPACE")
        /\ GoTo("resume")
        /\ UNCHANGED <<run, seen, leader, nr, status, endVars, answer>>

\* case KERNELSPACE_ALLOW
HandleAllowedExit ==
  /\ pc = "stopped" /\ wstatus = "SYSCALL"
  /\ thread_status[child] = "KERNELSPACE_ALLOW"
  /\ SetStatus("USERSPACE")
  /\ GoTo("resume")
  /\ UNCHANGED <<kernelVars, endVars, answer>>

Resume ==
  /\ pc = "resume"
  /\ \/ TraceeGone
     \/ /\ PtraceSyscall(child)
        /\ StopHandled
        /\ UNCHANGED <<thread_status, endVars, answer>>

-----------------------------------------------------------------------------
(***************************************************************************)
(* The callback: name the call, look up its action, ask the user.          *)
(***************************************************************************)
\* StrType::write() reads the task's memory.  EFAULT is caught, but ESRCH, and for a
\* living task another error, leaves Parser::operator(), which is noexcept:
\* std::terminate().  So does what std::regex_match() throws in get_action().
ParseFails ==
  /\ pc = "callback"
  /\ \/ args \in ReadsMemory /\ ~Alive(child) /\ Abort("terminate")
     \/ (args \in ReadsMemory => Alive(child)) /\ Abort("callback_failed")

GetAction ==
  /\ pc = "callback"
  /\ args \in ReadsMemory => Alive(child)
  /\ GoTo(CASE Policy[args] = "ALLOW" -> "allow"
            [] Policy[args] = "DENY"  -> "deny"
            [] Policy[args] = "ASK"   -> "ask")
  /\ UNCHANGED <<kernelVars, thread_status, endVars, answer>>

Says(what) == answer' = [answer EXCEPT ![child] = what]

\* ui.ask(): the user presses Allow or Deny.
UserAnswers ==
  /\ pc = "ask" /\ pinentry = "up"
  /\ \/ Says("yes") /\ GoTo(IF HasPassword THEN "password" ELSE "allow")
     \/ Says("no") /\ GoTo("deny")
  /\ UNCHANGED <<kernelVars, thread_status, endVars>>

\* ui.ask_password(): right, wrong (ask again), or cancelled.
EnterPassword ==
  /\ pc \in {"password", "retry"} /\ pinentry = "up"
  /\ \/ Says("auth") /\ GoTo("allow")
     \/ UNCHANGED answer /\ GoTo("retry")
     \/ Says("no") /\ GoTo("deny")
  /\ UNCHANGED <<kernelVars, thread_status, endVars>>

\* pinentry answers with an error, or has died: an exception that reaches
\* main(), or SIGPIPE if GravelBox writes to the closed pipe first.
DialogFails ==
  /\ pc \in {"ask", "password", "retry"}
  /\ \/ Closing("exception", ExitFailure) /\ UNCHANGED kernelVars
     \/ pinentry # "up" /\ Abort("sigpipe")

\* Slip: the verdict is not recorded.
AllowForgets ==
  /\ pc = "allow"
  /\ GoTo("resume")
  /\ UNCHANGED <<kernelVars, thread_status, endVars, answer>>

\* The callback returned true.
Allow ==
  /\ pc = "allow"
  /\ SetStatus("KERNELSPACE_ALLOW")
  /\ GoTo("resume")
  /\ UNCHANGED <<kernelVars, endVars, answer>>

\* Slip: the call is not replaced.
DenyKeepsCall ==
  /\ pc = "deny"
  /\ SetStatus("KERNELSPACE_DENY")
  /\ GoTo("resume")
  /\ UNCHANGED <<kernelVars, endVars, answer>>

\* The callback returned false: orig_rax = -1 makes the kernel skip the call.
Deny ==
  /\ pc = "deny"
  /\ \/ TraceeGone
     \/ /\ Traced(child)
        /\ nr' = [nr EXCEPT ![child] = NoSyscall]
        /\ SetStatus("KERNELSPACE_DENY")
        /\ GoTo("resume")
        /\ UNCHANGED <<run, seen, leader, rax, status, endVars, answer>>

-----------------------------------------------------------------------------
(***************************************************************************)
(* The tasks, while GravelBox does anything but end.                       *)
(***************************************************************************)
TaskStep(t) ==
  /\ pc # "exited"
  /\ \/ \E s \in Syscall :
          EnterSyscall(t, s) /\ answer' = [answer EXCEPT ![t] = "none"]
     \/ \E l \in Task :
          /\ FinishThreadExec(t, l)
          /\ answer' = [answer EXCEPT ![l] = answer[t], ![t] = "none"]
     \/ /\ \/ ReturnFromSyscall(t)
           \/ \E u \in Task : Spawn(t, u)
           \/ StopBySigstop(t)
           \/ StopBySignal(t)
           \/ \E c \in ExitCode : ExitThread(t, c) \/ ExitGroup(t, c)
           \/ Sigkill(t)
           \/ BeginExec(t)
           \/ FinishExec(t)
        /\ UNCHANGED answer
  /\ UNCHANGED <<loopVars, thread_status, endVars>>

Wait ==
  \/ \E t \in Task : WaitStop(t) \/ WaitExit(t)
  \/ WaitPinentry
  \/ WaitFails

HandleStop ==
  \/ HandleSigstop \/ HandleOther
  \/ HandleEntry \/ HandleDeniedExit \/ HandleAllowedExit
  \/ ParseFails \/ GetAction \/ Allow \/ Deny \/ Resume

Dialog == UserAnswers \/ EnterPassword \/ DialogFails

\* Nothing is left to do once GravelBox is gone.
Ended == pc = "exited" /\ UNCHANGED vars

Next ==
  \/ ChildInitFails \/ AttachChild \/ SetOptions
  \/ Wait \/ HandleStop \/ Dialog
  \/ CloseUI \/ Killed \/ PinentryDies
  \/ \E t \in Task : TaskStep(t)
  \/ Ended

Spec == Init /\ [][Next]_vars
-----------------------------------------------------------------------------
(***************************************************************************)
(* Properties.                                                             *)
(***************************************************************************)
\* The decision that the configuration and the user's answers entail for the
\* system call that task t is in.
Cleared(t) ==
  \/ Policy[nr[t]] = "ALLOW"
  \/ /\ Policy[nr[t]] = "ASK"
     /\ answer[t] = IF HasPassword THEN "auth" ELSE "yes"

\* The kernel executes a system call only if the configuration allows it, or
\* the user allowed this very call (and gave the password, if there is one).
Mediation ==
  \A t \in Task : run[t] \in InKernel /\ nr[t] # NoSyscall => Cleared(t)

\* The map tells entry stops from exit stops: a task reported in a system call
\* stop is in its entry stop exactly when its status is USERSPACE.
SyscallParity ==
  pc = "stopped" /\ wstatus = "SYSCALL" /\ Alive(child)
    => (run[child] = "entry" <=> thread_status[child] = "USERSPACE")

\* No stop is lost: a stop that waitpid() has reported, and will not report
\* again, is the one being handled, however the handling of earlier stops ended.
NoLostStop ==
  \A t \in Task : Traced(t) /\ seen[t] /\ pc \notin {"options", "closing", "exited"}
    => t = child /\ pc \in Handling

\* Every task that reports a system call stop has been entered in the map
\* before, so thread_status.at(child) never throws.
KnownThread == pc = "stopped" /\ wstatus = "SYSCALL" => child \in Tracked

\* assert(info.op == PTRACE_SYSCALL_INFO_ENTRY) holds: whenever the map says
\* USERSPACE, the kernel agrees that the stop is an entry stop.
EntryAssertionHolds == fate # "assert_entry"

\* A target that dies in the middle of a stop does not bring GravelBox down.
DeathDuringStopTolerated == fate # "terminate"

\* run_with_callbacks() returns the exit code of the child process.
ReturnsExitCodeOfChild == fate = "returned" => rc = ExitStatus(status[Root])

\* run_with_callbacks() does not return while a task that GravelBox has let run
\* lives.  All it may leave behind is a process whose parent died before its own
\* first stop was reported, so that the map did not know it.
OnlyNewbornsLeftBehind ==
  fate = "returned" /\ pc = "closing" =>
    \A t \in Task : Alive(t) => run[t] \in {"newborn", "sigborn", "sigstop"}

\* A task that gets to its next stop, or dies, without anybody's help: it runs, or
\* is in an execve that waits for no thread any more.
GoesOn(t) ==
  \/ run[t] \in {"newborn", "user", "kernel", "spawned"}
  \/ run[t] = "dethread" /\ \A u \in Group(t) \ {t} : u = leader[t] /\ run[u] = "zombie"

\* GravelBox does not block in waitpid() for nothing: there is a stop or an exit to
\* report, or a task that will bring one, unless the map names a thread id that
\* exists no more.  So the tasks and GravelBox never all wait for one another, and
\* the loop is never entered again when every task has been reaped.
WaitIsAnswered ==
  pc = "wait" =>
    \/ \E t \in Task : StopReady(t) \/ ExitReady(t) \/ GoesOn(t)
    \/ \E t \in Tracked : run[t] = "free"

\* However GravelBox ends, killed in the middle of a decision or thrown out by an
\* exception of the dialog, no task goes on unwatched (tracer.cpp:79, "kill
\* target if GravelBox is killed").  The child alone may, from before the option
\* is set, and it has not run anything of the target yet.
LeavesNoTask ==
  pc = "exited" =>
    \A t \in Task : Alive(t) => t = Root /\ run[t] \in {"newborn", "sigborn", "sigstop"}

\* A system call that was refused returns EPERM to the task and a call that was
\* executed returns its own result.
RefusalIsVisible ==
  [][\A t \in Task : run[t] = "exit" /\ run'[t] = "user"
       => (rax[t] = "EPERM" <=> nr[t] = NoSyscall)]_vars

\* What the map says of a task inside a system call changes only when the call
\* is over: at its exit stop or by the task's death.
VerdictIsStable ==
  [][\A t \in Task : thread_status[t] \in ThreadStatus \ {"USERSPACE"}
                     /\ thread_status'[t] # thread_status[t]
       => run[t] \in {"exit", "zombie"}]_vars

-----------------------------------------------------------------------------
(***************************************************************************)
(* Fairness: GravelBox runs, and the user does not leave a dialog open or  *)
(* mistype the password for ever.  Nothing is assumed of the target, and   *)
(* nothing of pinentry's death.                                            *)
(***************************************************************************)
Fairness ==
  /\ WF_vars(AttachChild \/ SetOptions \/ Wait \/ HandleStop \/ CloseUI)
  /\ WF_vars(Dialog)
  /\ SF_vars(EnterPassword /\ pc' # "retry")

FairSpec == Spec /\ Fairness

\* Once every task is dead GravelBox ends, wherever their death caught it.
EndsWhenAllGone == (\A t \in Task : ~Alive(t)) ~> pc = "exited"

\* It fails to only if the map has a thread id that exists no more, as execve by
\* a thread that is not the leader leaves behind.
EndsUnlessStale ==
  (\A t \in Task : ~Alive(t)) ~>
    (pc = "exited" \/ (pc = "wait" /\ \E t \in Tracked : run[t] = "free"))

\* The handling of a stop ends: GravelBox waits again, or ends.
StopIsHandled == (pc \in Handling) ~> (pc \notin Handling)
=============================================================================
