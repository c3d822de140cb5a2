---------------------------- MODULE TracerProofs ----------------------------
(***************************************************************************)
(* Proofs about Tracer, for every set of tasks, every set of system calls  *)
(* and effects, every policy and every setting of the flags.               *)
(***************************************************************************)
EXTENDS TracerInvariant, TLAPS

LEMMA ExitStatusType == ASSUME NEW st \in Statuses PROVE ExitStatus(st) \in Nat
<1>1. \A c \in ExitCode \cup {0, 1, 9} : c \in Nat
  BY ExitCodeAssumption
<1>2. st.code \in Nat
  BY <1>1 DEF Statuses
<1> QED BY <1>2 DEF ExitStatus

LEMMA InitTypeOK == Init => TypeOK
BY RootAssumption
   DEF Init, KernelInit, TypeOK, KernelTypeOK, Statuses, WithCode, BySignal, Results, RunStates, Pc, Fates

LEMMA CodeTypes ==
  /\ \A c \in ExitCode \cup {0, 1} : WithCode(c) \in Statuses
  /\ BySignal(9) \in Statuses
BY DEF Statuses, WithCode, BySignal

LEMMA MovesTypes ==
  ASSUME TypeOK, NEW t \in Task, NEW from, NEW to \in RunStates, Moves(t, from, to)
  PROVE  run' \in [Task -> RunStates] /\ seen' \in [Task -> BOOLEAN]
BY DEF TypeOK, KernelTypeOK, Moves

LEMMA DieTypes ==
  ASSUME TypeOK, NEW S \in SUBSET Task, NEW st \in Statuses, Die(S, st)
  PROVE  /\ run' \in [Task -> RunStates]
         /\ seen' \in [Task -> BOOLEAN]
         /\ status' \in [Task -> Statuses]
BY DEF TypeOK, KernelTypeOK, Die, RunStates

LEMMA AfterResumeType == ASSUME NEW r \in Stops PROVE AfterResume(r) \in RunStates
BY DEF AfterResume, RunStates, InKernel

LEMMA PtraceSyscallTypes ==
  ASSUME TypeOK, NEW t \in Task, PtraceSyscall(t)
  PROVE  KernelTypeOK'
<1>1. AfterResume(run[t]) \in RunStates
  BY AfterResumeType DEF PtraceSyscall, Moves
<1> QED BY <1>1, MovesTypes DEF TypeOK, KernelTypeOK, PtraceSyscall

LEMMA StartTypeOK ==
  ASSUME TypeOK, ChildInitFails \/ AttachChild \/ SetOptions
  PROVE  TypeOK'
<1> USE RootAssumption, NoTaskAssumption, ExitStatusType
    DEF TypeOK, KernelTypeOK, Pc, Handling, Callback, Fates, ThreadStatus
<1>1. CASE ChildInitFails
  BY <1>1, CodeTypes DEF ChildInitFails, Die, ExitFailure, loopVars, endVars, RunStates
<1>2. CASE AttachChild
  <2>1. CASE ReapExit(Root) /\ Closing("child_failed", ExitStatus(status[Root]))
    BY <1>2, <2>1, CodeTypes DEF ReapExit, Closing, RunStates, Results
  <2>2. CASE Abort("assert_stop")
    BY <1>2, <2>2 DEF Abort, Exited, RunStates
  <2>3. CASE ReportStop(Root) /\ pc' = "options" /\ UNCHANGED <<child, wstatus, args, thread_status, endVars, answer>>
    BY <1>2, <2>3 DEF ReportStop, endVars
  <2> QED BY <1>2, <2>1, <2>2, <2>3 DEF AttachChild
<1>3. CASE SetOptions
  <2>1. CASE PtraceSyscall(Root) /\ pc' = "wait" /\ UNCHANGED <<child, wstatus, args, endVars, answer>>
             /\ thread_status' = [thread_status EXCEPT ![Root] = "USERSPACE"]
    BY <2>1, PtraceSyscallTypes DEF endVars
  <2>2. CASE Closing("exception", ExitFailure) /\ UNCHANGED kernelVars
    BY <2>2 DEF kernelVars, Closing, ExitFailure
  <2> QED BY <1>3, <2>1, <2>2 DEF SetOptions
<1> QED BY <1>1, <1>2, <1>3

LEMMA WaitTypeOK ==
  ASSUME TypeOK, Wait
  PROVE  TypeOK'
<1> USE DEF TypeOK, KernelTypeOK
<1>1. ASSUME NEW t \in Task, WaitStop(t)
      PROVE  TypeOK'
  BY <1>1 DEF WaitStop, ReportStop, StopSig, Pc, Handling, endVars
<1>2. ASSUME NEW t \in Task, WaitExit(t)
      PROVE  TypeOK'
  BY <1>2, ExitStatusType DEF WaitExit, ReapExit, RunStates, Results, Pc, Fates
<1>3. CASE WaitPinentry
  BY <1>3 DEF WaitPinentry, kernelVars, loopVars
<1>4. CASE WaitFails
  BY <1>4 DEF WaitFails, Closing, kernelVars, Pc, Fates, ExitFailure
<1> QED BY <1>1, <1>2, <1>3, <1>4 DEF Wait

LEMMA HandleStopTypeOK ==
  ASSUME TypeInv, HandleStop
  PROVE  TypeOK'
<1> USE DEF TypeInv, TypeOK, KernelTypeOK, ChildIsHandled, Pc, Handling, Callback,
            ThreadStatus, endVars, StopHandled, GoTo, SetStatus
<1>1. CASE TraceeGone
  BY <1>1 DEF TraceeGone, kernelVars
<1>2. ASSUME NEW how \in Fates, Abort(how)
      PROVE  TypeOK'
  BY <1>2 DEF Abort, Exited, RunStates
<1>3. CASE HandleSigstop
  BY <1>3 DEF HandleSigstop, kernelVars
<1>4. CASE HandleOther
  BY <1>4 DEF HandleOther, kernelVars
<1>5. CASE HandleEntry
  BY <1>1, <1>2, <1>5 DEF HandleEntry, kernelVars, Fates
<1>6. CASE HandleDeniedExit
  BY <1>1, <1>6 DEF HandleDeniedExit, Results
<1>7. CASE HandleAllowedExit
  BY <1>7 DEF HandleAllowedExit, kernelVars
<1>8. CASE ParseFails
  BY <1>2, <1>8 DEF ParseFails, Fates
<1>9. CASE GetAction
  <2>1. pc' \in Pc
    BY <1>9, PolicyAssumption DEF GetAction, CallbackHasCall, Action
  <2> QED BY <1>9, <2>1 DEF GetAction, kernelVars
<1>10. CASE Allow
  BY <1>10 DEF Allow, kernelVars
<1>11. CASE Deny
  BY <1>1, <1>11 DEF Deny
<1>12. CASE Resume
  BY <1>1, <1>12, PtraceSyscallTypes DEF Resume
<1> QED BY <1>3, <1>4, <1>5, <1>6, <1>7, <1>8, <1>9, <1>10, <1>11, <1>12
        DEF HandleStop

LEMMA DialogTypeOK ==
  ASSUME TypeInv, Dialog
  PROVE  TypeOK'
<1> USE DEF TypeInv, TypeOK, KernelTypeOK, ChildIsHandled, Pc, Handling, Callback,
            endVars, kernelVars, Says, GoTo
<1>1. CASE UserAnswers
  BY <1>1 DEF UserAnswers
<1>2. CASE EnterPassword
  BY <1>2 DEF EnterPassword
<1>3. CASE DialogFails
  BY <1>3 DEF DialogFails, Closing, Abort, Exited, Fates, ExitFailure, RunStates
<1> QED BY <1>1, <1>2, <1>3 DEF Dialog

LEMMA EndTypeOK ==
  ASSUME TypeOK, CloseUI \/ Killed \/ PinentryDies
  PROVE  TypeOK'
BY DEF TypeOK, KernelTypeOK, CloseUI, Killed, PinentryDies, Abort, Exited, Fates,
       Pc, RunStates, kernelVars, loopVars

LEMMA TaskTypeOK ==
  ASSUME TypeOK, NEW t \in Task, TaskStep(t)
  PROVE  TypeOK'
<1> USE DEF TypeOK, KernelTypeOK, RunStates, Stops, InKernel, Results
<1>0. UNCHANGED <<loopVars, thread_status, endVars>>
  BY DEF TaskStep
<1>1. ASSUME NEW s \in Syscall, EnterSyscall(t, s),
             answer' = [answer EXCEPT ![t] = "none"]
      PROVE  TypeOK'
  BY <1>0, <1>1 DEF EnterSyscall, Moves, loopVars, endVars
<1>2. ASSUME NEW l \in Task, FinishThreadExec(t, l),
             answer' = [answer EXCEPT ![l] = answer[t], ![t] = "none"]
      PROVE  TypeOK'
  BY <1>0, <1>2 DEF FinishThreadExec, loopVars, endVars
<1>3. ASSUME NEW u \in Task, Spawn(t, u), UNCHANGED answer
      PROVE  TypeOK'
  BY <1>0, <1>3 DEF Spawn, loopVars, endVars
<1>4. ASSUME NEW S \in SUBSET Task, NEW st \in Statuses, Die(S, st),
             UNCHANGED <<leader, nr, rax, answer>>
      PROVE  TypeOK'
  BY <1>0, <1>4, DieTypes DEF loopVars, endVars
<1>5. ASSUME NEW from, NEW to \in RunStates, Moves(t, from, to),
             UNCHANGED <<leader, nr, status, answer>>,
             rax' = rax \/ \E r \in Results : rax' = [rax EXCEPT ![t] = r]
      PROVE  TypeOK'
  BY <1>0, <1>5, MovesTypes DEF loopVars, endVars
<1>6. ASSUME BeginExec(t), UNCHANGED answer
      PROVE  TypeOK'
  BY <1>0, <1>6, CodeTypes DEF BeginExec, loopVars, endVars
<1>7. ASSUME ReturnFromSyscall(t), UNCHANGED answer
      PROVE  TypeOK'
  <2>1. \E r \in Results : rax' = [rax EXCEPT ![t] = r]
    BY <1>7 DEF ReturnFromSyscall
  <2> QED BY <1>5, <1>7, <2>1 DEF ReturnFromSyscall
<1>8. ASSUME FinishExec(t), UNCHANGED answer
      PROVE  TypeOK'
  BY <1>5, <1>8 DEF FinishExec
<1>9. ASSUME StopBySigstop(t) \/ StopBySignal(t), UNCHANGED answer
      PROVE  TypeOK'
  BY <1>5, <1>9 DEF StopBySigstop, StopBySignal
<1>10. ASSUME Sigkill(t) \/ \E c \in ExitCode : ExitThread(t, c) \/ ExitGroup(t, c),
              UNCHANGED answer
       PROVE  TypeOK'
  <2>1. Group(t) \in SUBSET Task  BY DEF Group
  <2> QED BY <1>4, <1>10, <2>1, CodeTypes DEF ExitThread, ExitGroup, Sigkill
<1> QED BY <1>1, <1>2, <1>3, <1>6, <1>7, <1>8, <1>9, <1>10 DEF TaskStep

LEMMA NextTypeOK == ASSUME TypeInv, [Next]_vars PROVE TypeOK'
<1>1. CASE ChildInitFails \/ AttachChild \/ SetOptions
  BY <1>1, StartTypeOK DEF TypeInv
<1>2. CASE Wait
  BY <1>2, WaitTypeOK DEF TypeInv
<1>3. CASE CloseUI \/ Killed \/ PinentryDies
  BY <1>3, EndTypeOK DEF TypeInv
<1>4. ASSUME NEW t \in Task, TaskStep(t)
      PROVE  TypeOK'
  BY <1>4, TaskTypeOK DEF TypeInv
<1>5. CASE UNCHANGED vars
  BY <1>5 DEF TypeInv, TypeOK, KernelTypeOK, vars, kernelVars, loopVars, endVars
<1> QED BY <1>1, <1>2, <1>3, <1>4, <1>5, HandleStopTypeOK, DialogTypeOK DEF Next, Ended

\* The program counter, the task being handled and its system call go together.
LEMMA NextControl ==
  ASSUME TypeInv, [Next]_vars
  PROVE  ChildIsHandled' /\ CallbackHasCall'
<1> USE NoTaskAssumption
    DEF TypeInv, TypeOK, ChildIsHandled, CallbackHasCall, Handling, Callback, GoTo
<1>1. CASE UNCHANGED loopVars
  BY <1>1 DEF loopVars
<1>2. CASE pc' \in {"attach", "options", "wait", "closing", "exited"} /\ child' = NoTask
  BY <1>2
<1>3. CASE AttachChild \/ SetOptions
  BY <1>2, <1>3 DEF AttachChild, SetOptions, Closing, Abort, Exited, Pc
<1>4. ASSUME NEW t \in Task, WaitStop(t) \/ WaitExit(t)
      PROVE  ChildIsHandled' /\ CallbackHasCall'
  BY <1>4 DEF WaitStop, WaitExit
<1>5. CASE HandleSigstop \/ HandleOther \/ HandleDeniedExit \/ HandleAllowedExit
  BY <1>2, <1>5 DEF HandleSigstop, HandleOther, HandleDeniedExit, HandleAllowedExit,
                    TraceeGone, StopHandled
<1>6. CASE HandleEntry \/ ParseFails \/ Resume
  BY <1>2, <1>6 DEF HandleEntry, ParseFails, Resume, Abort, Exited, TraceeGone, StopHandled
<1>7. CASE GetAction
  BY <1>7, PolicyAssumption DEF GetAction, Action
<1>8. CASE Allow \/ Deny
  BY <1>2, <1>8 DEF Allow, Deny, TraceeGone, StopHandled
<1>9. CASE Dialog
  BY <1>2, <1>9 DEF Dialog, UserAnswers, EnterPassword, DialogFails, Closing, Abort, Exited
<1>10. CASE WaitFails \/ CloseUI \/ Killed
  BY <1>2, <1>10 DEF WaitFails, CloseUI, Killed, Closing, Abort, Exited
<1>11. CASE ChildInitFails \/ WaitPinentry \/ PinentryDies
  BY <1>1, <1>11 DEF ChildInitFails, WaitPinentry, PinentryDies
<1>12. ASSUME NEW t \in Task, TaskStep(t)
       PROVE  ChildIsHandled' /\ CallbackHasCall'
  BY <1>1, <1>12 DEF TaskStep
<1>13. CASE UNCHANGED vars
  BY <1>1, <1>13 DEF vars
<1> QED BY <1>3, <1>4, <1>5, <1>6, <1>7, <1>8, <1>9, <1>10, <1>11, <1>12, <1>13
        DEF Next, Wait, HandleStop, Ended

LEMMA InitTypeInv == Init => TypeInv
BY InitTypeOK, NoTaskAssumption
   DEF Init, TypeInv, ChildIsHandled, CallbackHasCall, Handling, Callback

LEMMA NextTypeInv == TypeInv /\ [Next]_vars => TypeInv'
BY NextTypeOK, NextControl DEF TypeInv

\* Every variable keeps its type, whatever the target, the user and the kernel
\* do; GravelBox remembers a task exactly while it handles a stop of that task.
THEOREM TypeCorrect == Spec => []TypeOK
<1>1. TypeInv => TypeOK  BY DEF TypeInv
<1> QED BY <1>1, InitTypeInv, NextTypeInv, PTL DEF Spec

-----------------------------------------------------------------------------
(***************************************************************************)
(* The map agrees with the kernel.                                         *)
(***************************************************************************)
LEMMA InitCoherent == Init => Coherent
BY RootAssumption
   DEF Init, KernelInit, Coherent, ChildStaysStopped, ReportedIsHandled, LeadersExec,
       Starting, CallbackAgrees, KnownThread, EntryAssertionHolds, StatusAgrees,
       Handling, Callback, InKernel

\* The end of GravelBox, in whatever state it is.
LEMMA ExitedCoherent ==
  ASSUME IInv, TypeInv', NEW how, how # "assert_entry", Exited(how)
  PROVE  Coherent'
<1> USE DEF IInv, TypeInv, TypeOK, KernelTypeOK, Coherent, Exited, Handling, Callback
<1>1. ASSUME NEW t \in Task
      PROVE  StatusAgrees(t)'
  <2>1. run'[t] = "zombie" \/ (run'[t] = run[t] /\ ~Resuming(t))
        \/ (run'[t] = run[t] /\ run[t] \in {"free", "zombie"})
    BY DEF Alive, Resuming
  <2>2. ~Resuming(t)'  BY DEF Resuming
  <2> QED BY <2>1, <2>2 DEF StatusAgrees, Judged, Cleared, InKernel
<1>2. LeadersExec'
  BY DEF LeadersExec
<1> QED BY <1>1, <1>2
        DEF ChildStaysStopped, ReportedIsHandled, Starting, CallbackAgrees,
            KnownThread, EntryAssertionHolds

\* The end of the loop, by an exception, while the tasks stay as they are.
LEMMA ClosingCoherent ==
  ASSUME IInv, TypeInv', NEW how, how # "assert_entry", NEW code, Closing(how, code),
         UNCHANGED kernelVars, pc \notin {"resume", "exited"}
  PROVE  Coherent'
<1> USE DEF IInv, TypeInv, TypeOK, KernelTypeOK, Coherent, Closing, kernelVars,
            Handling, Callback
<1>1. ASSUME NEW t \in Task
      PROVE  StatusAgrees(t)'
  BY DEF StatusAgrees, Judged, Cleared, InKernel, Resuming
<1> QED BY <1>1
        DEF ChildStaysStopped, ReportedIsHandled, LeadersExec, Starting,
            CallbackAgrees, KnownThread, EntryAssertionHolds, Traced

\* A task that died while it was handled leaves nothing to do but to wait.
LEMMA TraceeGoneCoherent ==
  ASSUME IInv, TypeInv', pc \in Handling, TraceeGone
  PROVE  Coherent'
<1> USE DEF IInv, TypeInv, TypeOK, KernelTypeOK, Coherent, TraceeGone, StopHandled,
            kernelVars, endVars
<1>1. run[child] = "zombie"
  BY DEF ChildStaysStopped
<1>2. ASSUME NEW t \in Task
      PROVE  StatusAgrees(t)'
  BY <1>1 DEF StatusAgrees, Judged, Cleared, InKernel, Resuming
<1>3. ReportedIsHandled'
  BY <1>1 DEF ReportedIsHandled, Traced, Stops, Handling, Callback
<1> QED BY <1>2, <1>3
        DEF ChildStaysStopped, LeadersExec, Starting, CallbackAgrees, KnownThread,
            EntryAssertionHolds, Handling, Callback

LEMMA StartCoherent ==
  ASSUME IInv, TypeInv', ChildInitFails \/ AttachChild \/ SetOptions
  PROVE  Coherent'
<1> USE RootAssumption DEF IInv, TypeInv, TypeOK, KernelTypeOK, Coherent, loopVars, endVars
<1> USE DEF Handling, Callback
<1>1. CASE ChildInitFails
  <2> USE <1>1 DEF ChildInitFails, Die, Alive
  <2>1. ASSUME NEW t \in Task
        PROVE  StatusAgrees(t)'
    BY DEF StatusAgrees, Judged, Cleared, InKernel, Resuming
  <2> QED BY <2>1
          DEF ChildStaysStopped, ReportedIsHandled, LeadersExec, Starting,
              CallbackAgrees, KnownThread, EntryAssertionHolds, Traced, Stops
<1>2. CASE ReapExit(Root) /\ pc = "attach" /\ Closing("child_failed", ExitStatus(status[Root]))
  <2> USE <1>2 DEF ReapExit, Closing
  <2>1. ASSUME NEW t \in Task
        PROVE  StatusAgrees(t)'
    BY DEF StatusAgrees, Starting, InKernel, Resuming
  <2> QED BY <2>1
          DEF ChildStaysStopped, ReportedIsHandled, LeadersExec, Starting,
              CallbackAgrees, KnownThread, EntryAssertionHolds, Traced, Stops, ExitReady
<1>3. CASE ReportStop(Root) /\ pc = "attach" /\ pc' = "options"
           /\ UNCHANGED <<child, wstatus, args, thread_status, endVars, answer>>
  <2> USE <1>3 DEF ReportStop
  <2>1. ASSUME NEW t \in Task
        PROVE  StatusAgrees(t)'
    BY DEF StatusAgrees, Judged, Cleared, Resuming
  <2> QED BY <2>1
          DEF ChildStaysStopped, ReportedIsHandled, LeadersExec, Starting,
              CallbackAgrees, KnownThread, EntryAssertionHolds, Traced, StopReady
<1>4. CASE PtraceSyscall(Root) /\ pc = "options" /\ pc' = "wait"
           /\ thread_status' = [thread_status EXCEPT ![Root] = "USERSPACE"]
           /\ UNCHANGED <<child, wstatus, args, endVars, answer>>
  <2> USE <1>4 DEF PtraceSyscall, Moves
  <2>1. run'[Root] \in {"user", "newborn"}
    BY DEF Starting, AfterResume
  <2>2. ASSUME NEW t \in Task
        PROVE  StatusAgrees(t)'
    BY <2>1 DEF StatusAgrees, Starting, InKernel, Resuming
  <2> QED BY <2>1, <2>2
          DEF ChildStaysStopped, ReportedIsHandled, LeadersExec, Starting,
              CallbackAgrees, KnownThread, EntryAssertionHolds, Traced
<1> QED BY <1>1, <1>2, <1>3, <1>4, ExitedCoherent, ClosingCoherent
        DEF AttachChild, SetOptions, Abort

LEMMA WaitCoherent ==
  ASSUME IInv, TypeInv', Wait
  PROVE  Coherent'
<1> USE DEF IInv, TypeInv, TypeOK, KernelTypeOK, Coherent, endVars, Handling, Callback
<1>1. ASSUME NEW t \in Task, WaitStop(t)
      PROVE  Coherent'
  <2> USE <1>1 DEF WaitStop, ReportStop, StopReady
  <2>1. ASSUME NEW u \in Task
        PROVE  StatusAgrees(u)'
    BY DEF StatusAgrees, Judged, Cleared, Resuming
  <2>2. KnownThread'
    BY <2>1 DEF KnownThread, Tracked, StopSig, StatusAgrees, Judged, Traced, Stops, Resuming
  <2>3. ChildStaysStopped' /\ ReportedIsHandled'
    BY DEF ChildStaysStopped, ReportedIsHandled, ChildIsHandled, Traced
  <2> QED BY <2>1, <2>2, <2>3
          DEF LeadersExec, Starting, CallbackAgrees, EntryAssertionHolds
<1>2. ASSUME NEW t \in Task, WaitExit(t)
      PROVE  Coherent'
  <2> USE <1>2 DEF WaitExit, ReapExit, ExitReady
  <2>1. ASSUME NEW u \in Task
        PROVE  StatusAgrees(u)'
    BY DEF StatusAgrees, Judged, Cleared, Resuming, InKernel
  <2> QED BY <2>1
          DEF ChildStaysStopped, ReportedIsHandled, LeadersExec, Starting,
              CallbackAgrees, KnownThread, EntryAssertionHolds, Traced, Stops
<1>3. CASE WaitPinentry
  <2> USE <1>3 DEF WaitPinentry, kernelVars, loopVars
  <2>1. ASSUME NEW u \in Task
        PROVE  StatusAgrees(u)'
    BY DEF StatusAgrees, Judged, Cleared, Resuming
  <2> QED BY <2>1
          DEF ChildStaysStopped, ReportedIsHandled, LeadersExec, Starting,
              CallbackAgrees, KnownThread, EntryAssertionHolds, Traced, Tracked
<1>4. CASE WaitFails
  BY <1>4, ClosingCoherent DEF WaitFails
<1> QED BY <1>1, <1>2, <1>3, <1>4 DEF Wait

\* Steps of GravelBox that stay with the task being handled: what the other
\* tasks are in, and the map's other entries, do not change.
LEMMA HandleStopCoherent ==
  ASSUME IInv, TypeInv', HandleStop
  PROVE  Coherent'
<1> USE DEF IInv, TypeInv, TypeOK, KernelTypeOK, Coherent, ChildIsHandled, SetStatus,
            GoTo, endVars, kernelVars
<1>1. CASE HandleSigstop
  <2> USE <1>1 DEF HandleSigstop
  <2>1. run[child] \in {"sigstop", "zombie"}
    BY DEF ChildStaysStopped, StopSig, Handling, Stops, Traced
  <2>2. ASSUME NEW t \in Task
        PROVE  StatusAgrees(t)'
    BY <2>1 DEF StatusAgrees, Judged, Cleared, Resuming, Tracked, InKernel
  <2> QED BY <2>2
          DEF ChildStaysStopped, ReportedIsHandled, LeadersExec, Starting,
              CallbackAgrees, KnownThread, EntryAssertionHolds, Traced, Handling, Callback
<1>2. CASE HandleOther
  <2> USE <1>2 DEF HandleOther
  <2>1. run[child] \in {"signal", "sigborn", "event", "zombie"}
    BY DEF ChildStaysStopped, StopSig, Handling, Stops, Traced
  <2>2. ASSUME NEW t \in Task
        PROVE  StatusAgrees(t)'
    BY <2>1 DEF StatusAgrees, Judged, Cleared, Resuming, InKernel
  <2> QED BY <2>2
          DEF ChildStaysStopped, ReportedIsHandled, LeadersExec, Starting,
              CallbackAgrees, KnownThread, EntryAssertionHolds, Traced, Handling, Callback
<1>3. CASE HandleEntry
  <2> USE <1>3 DEF HandleEntry
  <2>1. Traced(child) => run[child] = "entry" /\ nr[child] # NoSyscall
    BY DEF ChildStaysStopped, StopSig, Handling, Stops, Traced, StatusAgrees, Judged, Resuming
  <2>2. CASE TraceeGone
    BY <2>2, TraceeGoneCoherent DEF Handling
  <2>3. CASE pc' = "callback" /\ args' = nr[child] /\ Traced(child)
             /\ UNCHANGED <<kernelVars, child, wstatus, thread_status, endVars, answer>>
    <3> USE <2>3
    <3>1. ASSUME NEW t \in Task
          PROVE  StatusAgrees(t)'
      BY DEF StatusAgrees, Judged, Cleared, Resuming
    <3> QED BY <2>1, <3>1
            DEF ChildStaysStopped, ReportedIsHandled, LeadersExec, Starting,
                CallbackAgrees, KnownThread, EntryAssertionHolds, Traced, Handling, Callback
  <2> QED BY <2>1, <2>2, <2>3
<1>4. CASE HandleDeniedExit
  <2> USE <1>4 DEF HandleDeniedExit
  <2>1. CASE TraceeGone
    BY <2>1, TraceeGoneCoherent DEF Handling
  <2>2. CASE Traced(child) /\ rax' = [rax EXCEPT ![child] = "EPERM"]
    <3> USE <2>2
    <3>1. run[child] = "exit" /\ nr[child] = NoSyscall
      BY DEF ChildStaysStopped, StopSig, Handling, Stops, Traced, StatusAgrees, Judged, Resuming
    <3>2. ASSUME NEW t \in Task
          PROVE  StatusAgrees(t)'
      BY <3>1, <2>1, TraceeGoneCoherent
         DEF StatusAgrees, Judged, Cleared, Resuming, InKernel, TraceeGone
    <3> QED BY <3>1, <3>2, <2>1
            DEF ChildStaysStopped, ReportedIsHandled, LeadersExec, Starting,
                CallbackAgrees, KnownThread, EntryAssertionHolds, Traced, Handling, Callback
  <2> QED BY <2>1, <2>2
<1>5. CASE HandleAllowedExit
  <2> USE <1>5 DEF HandleAllowedExit
  <2>1. run[child] = "zombie" \/ (run[child] = "exit" /\ nr[child] # NoSyscall /\ rax[child] # "EPERM")
    BY DEF ChildStaysStopped, StopSig, Handling, Stops, Traced, StatusAgrees, Judged, Resuming
  <2>2. ASSUME NEW t \in Task
        PROVE  StatusAgrees(t)'
    BY <2>1 DEF StatusAgrees, Judged, Cleared, Resuming, InKernel
  <2> QED BY <2>1, <2>2
          DEF ChildStaysStopped, ReportedIsHandled, LeadersExec, Starting,
              CallbackAgrees, KnownThread, EntryAssertionHolds, Traced, Handling, Callback
<1>6. CASE ParseFails
  BY <1>6, ExitedCoherent DEF ParseFails, Abort
<1>7. CASE GetAction
  <2> USE <1>7 DEF GetAction
  <2>1. ASSUME NEW t \in Task
        PROVE  StatusAgrees(t)'
    BY PolicyAssumption DEF StatusAgrees, Judged, Cleared, Resuming, Action, CallbackHasCall, Callback
  <2>2. CallbackAgrees'
    BY PolicyAssumption
       DEF CallbackAgrees, CallbackHasCall, Callback, Action, Cleared, Alive
  <2>3. pc' \in Handling /\ pc' \notin {"stopped", "resume"}
    BY PolicyAssumption DEF CallbackHasCall, Callback, Action, Handling
  <2> QED BY <2>1, <2>2, <2>3
          DEF ChildStaysStopped, ReportedIsHandled, LeadersExec, Starting,
              KnownThread, EntryAssertionHolds, Traced, Handling, Callback
<1>8. CASE Allow
  <2> USE <1>8 DEF Allow
  <2>1. run[child] = "zombie" \/ (run[child] = "entry" /\ nr[child] # NoSyscall
                                  /\ rax[child] # "EPERM" /\ Cleared(child))
    BY DEF ChildStaysStopped, Handling, Callback, CallbackAgrees, StatusAgrees, Resuming, Traced, Stops, Alive
  <2>2. ASSUME NEW t \in Task
        PROVE  StatusAgrees(t)'
    BY <2>1 DEF StatusAgrees, Judged, Cleared, Resuming, InKernel
  <2> QED BY <2>1, <2>2
          DEF ChildStaysStopped, ReportedIsHandled, LeadersExec, Starting,
              CallbackAgrees, KnownThread, EntryAssertionHolds, Traced, Handling, Callback
<1>9. CASE Deny
  <2>1. CASE TraceeGone
    BY <1>9, <2>1, TraceeGoneCoherent DEF Deny, Handling, Callback
  <2>2. CASE Traced(child) /\ nr' = [nr EXCEPT ![child] = NoSyscall] /\ SetStatus("KERNELSPACE_DENY")
             /\ GoTo("resume") /\ UNCHANGED <<run, seen, leader, rax, status, endVars, answer>>
    <3> USE <1>9, <2>2 DEF Deny
    <3>1. run[child] = "entry" /\ rax[child] # "EPERM"
      BY DEF ChildStaysStopped, Handling, Callback, CallbackAgrees, StatusAgrees, Resuming, Traced, Stops, Alive
    <3>2. ASSUME NEW t \in Task
          PROVE  StatusAgrees(t)'
      BY <3>1 DEF StatusAgrees, Judged, Cleared, Resuming, InKernel
    <3> QED BY <3>1, <3>2
            DEF ChildStaysStopped, ReportedIsHandled, LeadersExec, Starting,
                CallbackAgrees, KnownThread, EntryAssertionHolds, Traced, Handling, Callback
  <2> QED BY <1>9, <2>1, <2>2 DEF Deny
<1>10. CASE Resume
  <2>1. CASE TraceeGone
    BY <1>10, <2>1, TraceeGoneCoherent DEF Resume, Handling
  <2>2. CASE PtraceSyscall(child) /\ StopHandled /\ UNCHANGED <<thread_status, endVars, answer>>
    <3> USE <1>10, <2>2 DEF Resume, PtraceSyscall, Moves, StopHandled
    <3>1. ASSUME NEW t \in Task
          PROVE  StatusAgrees(t)'
      <4>1. CASE t # child
        BY <4>1 DEF StatusAgrees, Judged, Cleared, Resuming
      <4>2. CASE t = child
        BY <4>2, NoTaskAssumption
           DEF StatusAgrees, Judged, Cleared, Resuming, InKernel, Stops, AfterResume, Handling
      <4> QED BY <4>1, <4>2
    <3>2. run'[child] # "dethread"
      BY DEF AfterResume, Handling
    <3> QED BY <3>1, <3>2
            DEF ChildStaysStopped, ReportedIsHandled, LeadersExec, Starting,
                CallbackAgrees, KnownThread, EntryAssertionHolds, Traced, Handling, Callback
  <2> QED BY <1>10, <2>1, <2>2 DEF Resume
<1> QED BY <1>1, <1>2, <1>3, <1>4, <1>5, <1>6, <1>7, <1>8, <1>9, <1>10 DEF HandleStop

LEMMA DialogCoherent ==
  ASSUME IInv, TypeInv', Dialog
  PROVE  Coherent'
<1> USE DEF IInv, TypeInv, TypeOK, KernelTypeOK, Coherent, ChildIsHandled,
            GoTo, Says, endVars, kernelVars
<1>1. ASSUME UserAnswers \/ EnterPassword
      PROVE  Coherent'
  <2> USE <1>1 DEF UserAnswers, EnterPassword
  <2>1. ASSUME NEW t \in Task
        PROVE  StatusAgrees(t)'
    <3>1. CASE t # child
      BY <3>1 DEF StatusAgrees, Judged, Cleared, Resuming
    <3>2. CASE t = child
      <4>1. run[child] \in {"entry", "zombie"}
        BY DEF ChildStaysStopped, CallbackAgrees, Handling, Callback, Traced, Stops, Alive
      <4> QED BY <3>2, <4>1 DEF StatusAgrees, Judged, Resuming, InKernel
    <3> QED BY <3>1, <3>2
  <2>2. CallbackAgrees'
    <3>1. CASE UserAnswers
      BY <3>1, FlagsAssumption DEF CallbackAgrees, Callback, Handling, Cleared, Alive
    <3>2. CASE EnterPassword
      BY <3>2, FlagsAssumption DEF CallbackAgrees, Callback, Handling, Cleared, Alive
    <3> QED BY <1>1, <3>1, <3>2
  <2> QED BY <2>1, <2>2
          DEF ChildStaysStopped, ReportedIsHandled, LeadersExec, Starting,
              KnownThread, EntryAssertionHolds, Traced, Handling, Callback
<1>2. CASE DialogFails
  BY <1>2, ExitedCoherent, ClosingCoherent DEF DialogFails, Abort
<1> QED BY <1>1, <1>2 DEF Dialog

LEMMA EndCoherent ==
  ASSUME IInv, TypeInv', CloseUI \/ Killed \/ PinentryDies \/ UNCHANGED vars
  PROVE  Coherent'
<1>1. CASE CloseUI \/ Killed
  <2>1. fate # "assert_entry"
    BY DEF IInv, Coherent, EntryAssertionHolds
  <2> QED BY <1>1, <2>1, ExitedCoherent DEF CloseUI, Killed, Abort
<1>2. CASE PinentryDies \/ UNCHANGED vars
  <2> USE <1>2 DEF IInv, TypeInv, TypeOK, KernelTypeOK, Coherent, PinentryDies, vars,
                   kernelVars, loopVars, endVars
  <2>1. ASSUME NEW t \in Task
        PROVE  StatusAgrees(t)'
    BY DEF StatusAgrees, Judged, Cleared, Resuming
  <2> QED BY <2>1
          DEF ChildStaysStopped, ReportedIsHandled, LeadersExec, Starting,
              CallbackAgrees, KnownThread, EntryAssertionHolds, Traced, Tracked, Alive, Cleared
<1> QED BY <1>1, <1>2

-----------------------------------------------------------------------------
(***************************************************************************)
(* Steps of the tasks.  A stopped task takes none, except that it may die, *)
(* and a task that is dead or free does nothing.                           *)
(***************************************************************************)
\* The tasks of S die.
LEMMA DieCoherent ==
  ASSUME IInv, TypeInv', pc # "exited", NEW S \in SUBSET Task, NEW st, Die(S, st),
         UNCHANGED <<leader, nr, rax, loopVars, thread_status, endVars, answer>>
  PROVE  Coherent'
<1> USE DEF IInv, TypeInv, TypeOK, KernelTypeOK, Coherent, ChildIsHandled, Die,
            Alive, loopVars, endVars
<1>1. ASSUME NEW t \in Task
      PROVE  StatusAgrees(t)'
  BY DEF StatusAgrees, Judged, Cleared, Resuming, InKernel
<1>2. ReportedIsHandled' /\ ChildStaysStopped'
  BY DEF ReportedIsHandled, ChildStaysStopped, Traced, Stops
<1> QED BY <1>1, <1>2
        DEF LeadersExec, Starting, CallbackAgrees, KnownThread, EntryAssertionHolds,
            Tracked, Cleared, Handling, Callback

\* One running task moves on and no other does.
LEMMA MoveCoherent ==
  ASSUME IInv, TypeInv', pc # "exited", NEW t \in Task, run[t] \notin Stops \ {"event"},
         run[t] \notin {"free", "zombie", "event"},
         \A u \in Task \ {t} : /\ run'[u] = run[u] /\ seen'[u] = seen[u] /\ nr'[u] = nr[u]
                               /\ rax'[u] = rax[u] /\ answer'[u] = answer[u],
         ~seen'[t], run'[t] = "dethread" => leader[t] = t, StatusAgrees(t)',
         pc \in {"attach", "options"} =>
           t = Root /\ run'[t] \in {"newborn", "sigstop", "sigborn", "zombie"},
         UNCHANGED <<leader, loopVars, thread_status, endVars>>
  PROVE  Coherent'
<1> USE DEF IInv, TypeInv, TypeOK, KernelTypeOK, Coherent, ChildIsHandled, loopVars, endVars
<1>1. pc \in Handling => child # t
  BY DEF ChildStaysStopped, Traced, Stops
<1>2. ASSUME NEW u \in Task
      PROVE  StatusAgrees(u)'
  BY DEF StatusAgrees, Judged, Cleared, Resuming
<1>3. ReportedIsHandled' /\ ChildStaysStopped'
  BY <1>1 DEF ReportedIsHandled, ChildStaysStopped, Traced, Stops
<1>4. CallbackAgrees'
  BY <1>1 DEF CallbackAgrees, Callback, Handling, Cleared, Alive
<1> QED BY <1>2, <1>3, <1>4
        DEF LeadersExec, Starting, KnownThread, EntryAssertionHolds, Tracked

LEMMA TaskCoherent ==
  ASSUME IInv, TypeInv', ~ThreadExec, NEW t \in Task, TaskStep(t)
  PROVE  Coherent'
<1> USE DEF IInv, TypeInv, TypeOK, KernelTypeOK, Coherent, loopVars, endVars
<1>0. pc # "exited" /\ UNCHANGED <<loopVars, thread_status, endVars>>
  BY DEF TaskStep
<1>a. run[t] \notin {"free", "newborn", "sigstop", "sigborn", "zombie"} =>
        pc \notin {"attach", "options"}
  BY DEF Starting
<1>1. ASSUME NEW s \in Syscall, EnterSyscall(t, s),
             answer' = [answer EXCEPT ![t] = "none"]
      PROVE  Coherent'
  <2> USE <1>0, <1>1 DEF EnterSyscall, Moves
  <2>1. StatusAgrees(t)'
    BY SyscallAssumption DEF StatusAgrees, Resuming, InKernel, ChildStaysStopped, Handling, Traced, Stops
  <2> QED BY <1>a, <2>1, MoveCoherent DEF Stops
<1>2. ASSUME NEW l \in Task, FinishThreadExec(t, l)
      PROVE  FALSE
  BY <1>2 DEF FinishThreadExec, LeadersExec
<1>3. ASSUME ReturnFromSyscall(t), UNCHANGED answer
      PROVE  Coherent'
  <2> USE <1>0, <1>3 DEF ReturnFromSyscall, Moves
  <2>1. StatusAgrees(t)'
    BY DEF StatusAgrees, Judged, Cleared, Resuming, InKernel, ChildStaysStopped, Handling, Traced, Stops
  <2> QED BY <1>a, <2>1, MoveCoherent DEF Stops
<1>4. ASSUME FinishExec(t), UNCHANGED answer
      PROVE  Coherent'
  <2> USE <1>0, <1>4 DEF FinishExec, Moves
  <2>1. StatusAgrees(t)'
    BY DEF StatusAgrees, Judged, Cleared, Resuming, InKernel, ChildStaysStopped, Handling, Traced, Stops
  <2> QED BY <1>a, <2>1, MoveCoherent DEF Stops
<1>5. ASSUME StopBySigstop(t), UNCHANGED answer
      PROVE  Coherent'
  <2> USE <1>0, <1>5 DEF StopBySigstop, Moves
  <2>1. StatusAgrees(t)'
    BY DEF StatusAgrees, Judged, Cleared, Resuming, InKernel, ChildStaysStopped, Handling, Traced, Stops
  <2> QED BY <1>a, <2>1, MoveCoherent DEF Stops, Starting
<1>6. ASSUME StopBySignal(t), UNCHANGED answer
      PROVE  Coherent'
  <2> USE <1>0, <1>6 DEF StopBySignal, Moves
  <2>1. StatusAgrees(t)'
    BY DEF StatusAgrees, Judged, Cleared, Resuming, InKernel, ChildStaysStopped, Handling, Traced, Stops
  <2> QED BY <1>a, <2>1, MoveCoherent DEF Stops, Starting
<1>7. ASSUME NEW u \in Task, Spawn(t, u), UNCHANGED answer
      PROVE  Coherent'
  <2> USE <1>0, <1>7 DEF Spawn, Executing
  <2>1. run[t] = "kernel" /\ run[u] = "free" /\ t # u
    OBVIOUS
  <2>2. pc \in Handling => child \notin {t, u}
    BY <2>1 DEF ChildStaysStopped, Traced, Stops
  <2>3. ~seen[u]
    BY <2>1 DEF ReportedIsHandled, Traced, Stops
  <2>4. ASSUME NEW v \in Task
        PROVE  StatusAgrees(v)'
    BY <2>1, <2>2 DEF StatusAgrees, Judged, Cleared, Resuming, InKernel, Handling
  <2>5. ReportedIsHandled' /\ ChildStaysStopped'
    BY <2>1, <2>2, <2>3 DEF ReportedIsHandled, ChildStaysStopped, ChildIsHandled, Traced
  <2>6. CallbackAgrees'
    BY <2>1, <2>2 DEF CallbackAgrees, ChildIsHandled, Callback, Handling, Cleared, Alive
  <2>7. LeadersExec'
    BY <2>1 DEF LeadersExec
  <2> QED BY <1>a, <2>1, <2>4, <2>5, <2>6, <2>7
          DEF Starting, KnownThread, EntryAssertionHolds, Tracked
<1>8. ASSUME BeginExec(t), UNCHANGED answer
      PROVE  Coherent'
  <2> USE <1>0, <1>8 DEF BeginExec, Executing, Alive
  <2>1. run[t] = "kernel" /\ leader[t] = t /\ run'[t] = "dethread"
    OBVIOUS
  <2>2. \A v \in Task \ {t} : \/ run'[v] = run[v] /\ seen'[v] = seen[v]
                              \/ run'[v] = "zombie" /\ ~seen'[v]
    OBVIOUS
  <2>3. ~seen[t] /\ ~seen'[t] /\ (pc \in Handling => child # t)
    BY <2>1 DEF ReportedIsHandled, ChildStaysStopped, Traced, Stops, Group
  <2>4. ASSUME NEW v \in Task
        PROVE  StatusAgrees(v)'
    BY <2>1, <2>2, <2>3 DEF StatusAgrees, Judged, Cleared, Resuming, InKernel, Handling
  <2>5. ReportedIsHandled' /\ ChildStaysStopped'
    BY <2>1, <2>2, <2>3 DEF ReportedIsHandled, ChildStaysStopped, ChildIsHandled, Traced, Stops
  <2>6. CallbackAgrees'
    BY <2>1, <2>2, <2>3 DEF CallbackAgrees, ChildIsHandled, Callback, Handling, Cleared
  <2>7. LeadersExec'
    BY <2>1, <2>2 DEF LeadersExec
  <2> QED BY <1>a, <2>1, <2>4, <2>5, <2>6, <2>7
          DEF Starting, KnownThread, EntryAssertionHolds, Tracked
<1>9. ASSUME Sigkill(t) \/ \E c \in ExitCode : ExitThread(t, c) \/ ExitGroup(t, c),
             UNCHANGED answer
      PROVE  Coherent'
  <2>1. Group(t) \in SUBSET Task  BY DEF Group
  <2> QED BY <1>0, <1>9, <2>1, DieCoherent DEF Sigkill, ExitThread, ExitGroup
<1> QED BY <1>1, <1>2, <1>3, <1>4, <1>5, <1>6, <1>7, <1>8, <1>9 DEF TaskStep

LEMMA NextIInv == ~ThreadExec /\ IInv /\ [Next]_vars => IInv'
<1> SUFFICES ASSUME ~ThreadExec, IInv, [Next]_vars
             PROVE  IInv'
  OBVIOUS
<1>1. TypeInv'
  BY NextTypeInv DEF IInv
<1> QED BY <1>1, StartCoherent, WaitCoherent, HandleStopCoherent, DialogCoherent,
           EndCoherent, TaskCoherent DEF IInv, Next, Ended

\* As long as only leaders call execve, the invariant holds for ever.
THEOREM Invariance == ASSUME ~ThreadExec PROVE Spec => []IInv
<1>1. Init => IInv
  BY InitTypeInv, InitCoherent DEF IInv
<1>2. IInv /\ [Next]_vars => IInv'
  BY NextIInv
<1> QED BY <1>1, <1>2, PTL DEF Spec

-----------------------------------------------------------------------------
(***************************************************************************)
(* The theorems.                                                           *)
(***************************************************************************)
\* The kernel executes a system call only if the configuration allows it or the
\* user allowed this very call, for any number of threads and processes, unless
\* a thread that is not its group's leader calls execve.
THEOREM MediationHolds == ASSUME ~ThreadExec PROVE Spec => []Mediation
<1>1. IInv => Mediation
  BY DEF IInv, Coherent, StatusAgrees, Judged, Mediation
<1> QED BY <1>1, Invariance, PTL

\* The map never takes an entry stop for an exit stop or the reverse.
THEOREM SyscallParityHolds == ASSUME ~ThreadExec PROVE Spec => []SyscallParity
<1>1. IInv => SyscallParity
  <2> SUFFICES ASSUME IInv, pc = "stopped", wstatus = "SYSCALL", Alive(child)
               PROVE  run[child] = "entry" <=> thread_status[child] = "USERSPACE"
    BY DEF SyscallParity
  <2> USE DEF IInv, TypeInv, Coherent, ChildIsHandled, Handling
  <2>1. run[child] \in {"entry", "exit"} /\ child \in Task
    BY DEF ChildStaysStopped, Traced, Stops, StopSig, Alive
  <2> QED BY <2>1 DEF StatusAgrees, Judged, Resuming
<1> QED BY <1>1, Invariance, PTL

\* The assertion on info.op never fails.
THEOREM EntryAssertionCorrect == ASSUME ~ThreadExec PROVE Spec => []EntryAssertionHolds
<1>1. IInv => EntryAssertionHolds
  BY DEF IInv, Coherent
<1> QED BY <1>1, Invariance, PTL

\* A refused call returns EPERM and no other call does so because of GravelBox.
THEOREM RefusalIsVisibleHolds == ASSUME ~ThreadExec PROVE Spec => RefusalIsVisible
<1> DEFINE Visible == \A t \in Task : run[t] = "exit" /\ run'[t] = "user"
                        => (rax[t] = "EPERM" <=> nr[t] = NoSyscall)
<1>1. IInv /\ [Next]_vars => [Visible]_vars
  <2> SUFFICES ASSUME IInv, Next, NEW t \in Task, run[t] = "exit", run'[t] = "user"
               PROVE  rax[t] = "EPERM" <=> nr[t] = NoSyscall
    OBVIOUS
  <2> USE DEF IInv, TypeInv, TypeOK, KernelTypeOK, Coherent
  <2>1. CASE Resuming(t)
    BY <2>1 DEF StatusAgrees
  <2>2. ~(Exited(fate) \/ \E how \in Fates : Exited(how))
    BY DEF Exited
  <2>3. pc # "options"
    BY DEF Starting
  <2>4. CASE ~Resuming(t)
    <3>1. run' # run
      OBVIOUS
    <3>2. ASSUME NEW u \in Task, TaskStep(u)
          PROVE  FALSE
      BY <3>2 DEF TaskStep, EnterSyscall, FinishThreadExec, ReturnFromSyscall, Spawn,
                  StopBySigstop, StopBySignal, ExitThread, ExitGroup, Sigkill, BeginExec,
                  FinishExec, Moves, Die, Alive, Executing
    <3>3. ASSUME Wait
          PROVE  FALSE
      BY <3>1, <3>3 DEF Wait, WaitStop, WaitExit, WaitPinentry, WaitFails, ReportStop,
                  ReapExit, ExitReady, kernelVars
    <3>4. ASSUME ChildInitFails \/ AttachChild \/ SetOptions
          PROVE  FALSE
      BY <2>2, <2>3, <3>1, <3>4 DEF ChildInitFails, AttachChild, SetOptions, Die, ReapExit, ExitReady,
                  ReportStop, Abort, Fates, Starting
    <3>5. ASSUME HandleStop
          PROVE  FALSE
      BY <2>2, <2>4, <3>1, <3>5 DEF HandleStop, HandleSigstop, HandleOther, HandleEntry,
                  HandleDeniedExit, HandleAllowedExit, ParseFails, GetAction, Allow, Deny,
                  Resume, TraceeGone, PtraceSyscall, Moves, Abort, Fates, Resuming, kernelVars
    <3>6. ASSUME Dialog \/ CloseUI \/ Killed \/ PinentryDies \/ Ended
          PROVE  FALSE
      BY <2>2, <3>1, <3>6 DEF Dialog, UserAnswers, EnterPassword, DialogFails, CloseUI,
                  Killed, PinentryDies, Ended, Abort, Fates, kernelVars, vars
    <3> QED BY <3>2, <3>3, <3>4, <3>5, <3>6 DEF Next
  <2> QED BY <2>1, <2>4
<1> QED BY <1>1, Invariance, PTL DEF Spec, RefusalIsVisible

\* The verdict on a call stays in the map until the call is over.
THEOREM VerdictIsStableHolds == ASSUME ~ThreadExec PROVE Spec => VerdictIsStable
<1> DEFINE Stable == \A t \in Task : thread_status[t] \in ThreadStatus \ {"USERSPACE"}
                                     /\ thread_status'[t] # thread_status[t]
                       => run[t] \in {"exit", "zombie"}
<1>1. IInv /\ [Next]_vars => [Stable]_vars
  <2> SUFFICES ASSUME IInv, Next, NEW t \in Task, thread_status[t] # "USERSPACE",
                      thread_status[t] # "absent", thread_status'[t] # thread_status[t]
               PROVE  run[t] \in {"exit", "zombie"}
    BY DEF ThreadStatus
  <2> USE DEF IInv, TypeInv, TypeOK, KernelTypeOK, Coherent, SetStatus
  <2>1. CASE ChildInitFails \/ AttachChild \/ SetOptions
    BY <2>1 DEF ChildInitFails, AttachChild, SetOptions, Closing, Abort, Exited, Starting
  <2>2. CASE Wait
    BY <2>2 DEF Wait, WaitStop, WaitExit, WaitPinentry, WaitFails, Closing, ReapExit, ExitReady
  <2>3. CASE Allow \/ Deny
    <3>1. t = child
      BY <2>3 DEF Allow, Deny, TraceeGone
    <3> QED BY <2>3, <3>1
            DEF Allow, Deny, Handling, Callback, ChildStaysStopped, CallbackAgrees,
                StatusAgrees, Resuming, Alive, Traced, Stops
  <2>4. CASE HandleDeniedExit \/ HandleAllowedExit
    <3>1. t = child
      BY <2>4 DEF HandleDeniedExit, HandleAllowedExit, TraceeGone
    <3> QED BY <2>4, <3>1
            DEF HandleDeniedExit, HandleAllowedExit, Handling, ChildStaysStopped,
                StatusAgrees, Resuming, Traced, Stops, StopSig
  <2>5. CASE HandleSigstop
    BY <2>5 DEF HandleSigstop, Tracked
  <2>6. CASE HandleOther \/ HandleEntry \/ ParseFails \/ GetAction \/ Resume
    BY <2>6 DEF HandleOther, HandleEntry, ParseFails, GetAction, Resume, TraceeGone,
                Abort, Exited
  <2>7. CASE Dialog \/ CloseUI \/ Killed \/ PinentryDies \/ Ended
    BY <2>7 DEF Dialog, UserAnswers, EnterPassword, DialogFails, CloseUI, Killed,
                PinentryDies, Ended, Closing, Abort, Exited, vars
  <2>8. ASSUME NEW u \in Task, TaskStep(u)
        PROVE  FALSE
    BY <2>8 DEF TaskStep
  <2> QED BY <2>1, <2>2, <2>3, <2>4, <2>5, <2>6, <2>7, <2>8 DEF Next, HandleStop
<1> QED BY <1>1, Invariance, PTL DEF Spec, VerdictIsStable

\* This needs nothing of execve but that GravelBox remembers the task whose stop it
\* has been told about.
LEMMA NextReported ==
  ASSUME TypeInv, ReportedIsHandled, [Next]_vars
  PROVE  ReportedIsHandled'
<1> USE DEF TypeInv, TypeOK, KernelTypeOK, ReportedIsHandled, ChildIsHandled
<1>0. TypeInv'
  BY NextTypeInv
<1>1. CASE pc' = "exited"
  BY <1>1
<1>2. CASE UNCHANGED <<run, seen, child>> /\ (pc = "options" => pc' = "options") /\ pc # "closing"
           /\ pc # "exited"
  BY <1>2 DEF Traced
<1>3. CASE UNCHANGED <<run, seen>> /\ pc' = "closing" /\ pc # "exited"
  BY <1>3 DEF Traced
<1>4. CASE TraceeGone /\ pc \in Handling
  BY <1>4 DEF TraceeGone, kernelVars, Traced, Handling, Callback
<1>5. CASE ChildInitFails \/ AttachChild \/ SetOptions
  BY <1>1, <1>3, <1>5, RootAssumption
     DEF ChildInitFails, Die, Alive, AttachChild, SetOptions, ReapExit, ExitReady, ReportStop, StopReady,
         Closing, Abort, Exited, PtraceSyscall, Moves, kernelVars, loopVars, Traced, Stops, Handling, Callback
<1>6. CASE Wait
  BY <1>3, <1>6
     DEF Wait, WaitStop, WaitExit, WaitPinentry, WaitFails, ReportStop, StopReady, ReapExit, ExitReady,
         Closing, kernelVars, loopVars, Traced, Stops, Handling, Callback
<1>7. CASE HandleSigstop \/ HandleOther \/ HandleAllowedExit \/ GetAction \/ Allow
  BY <1>2, <1>7 DEF HandleSigstop, HandleOther, HandleAllowedExit, GetAction, Allow, GoTo, kernelVars
<1>8. CASE HandleEntry \/ HandleDeniedExit \/ Deny \/ ParseFails
  BY <1>1, <1>2, <1>4, <1>8
     DEF HandleEntry, HandleDeniedExit, Deny, ParseFails, Abort, Exited, GoTo, kernelVars, Handling, Callback
<1>9. CASE Resume
  BY <1>4, <1>9 DEF Resume, PtraceSyscall, Moves, StopHandled, Traced, Handling, Callback
<1>10. CASE Dialog
  BY <1>1, <1>2, <1>3, <1>10
     DEF Dialog, UserAnswers, EnterPassword, DialogFails, Closing, Abort, Exited, GoTo, kernelVars
<1>11. CASE CloseUI \/ Killed
  BY <1>1, <1>11 DEF CloseUI, Killed, Abort, Exited
<1>12. CASE PinentryDies \/ UNCHANGED vars
  BY <1>12 DEF PinentryDies, vars, kernelVars, loopVars, Traced
<1>13. ASSUME NEW t \in Task, TaskStep(t)
       PROVE  ReportedIsHandled'
  <2>0. UNCHANGED loopVars /\ pc # "exited"
    BY <1>13 DEF TaskStep
  <2>1. \A u \in Task : seen'[u] => seen[u] /\ run'[u] = run[u]
    <3> USE DEF Traced, Stops, Executing
    <3>1. ASSUME NEW from, NEW to, Moves(t, from, to)
          PROVE  \A u \in Task : seen'[u] => seen[u] /\ run'[u] = run[u]
      BY <3>1 DEF Moves
    <3>2. ASSUME NEW S, NEW st, Die(S, st)
          PROVE  \A u \in Task : seen'[u] => seen[u] /\ run'[u] = run[u]
      BY <3>2 DEF Die
    <3>3. ASSUME NEW u \in Task, Spawn(t, u)
          PROVE  \A v \in Task : seen'[v] => seen[v] /\ run'[v] = run[v]
      BY <2>0, <3>3 DEF Spawn
    <3>4. ASSUME NEW l \in Task, FinishThreadExec(t, l)
          PROVE  \A u \in Task : seen'[u] => seen[u] /\ run'[u] = run[u]
      BY <2>0, <3>4 DEF FinishThreadExec
    <3>5. CASE BeginExec(t)
      BY <2>0, <3>5 DEF BeginExec, Alive
    <3> QED BY <1>13, <3>1, <3>2, <3>3, <3>4, <3>5
            DEF TaskStep, EnterSyscall, ReturnFromSyscall, StopBySigstop, StopBySignal,
                ExitThread, ExitGroup, Sigkill, FinishExec
  <2> QED BY <2>0, <2>1 DEF loopVars, Traced
<1> QED BY <1>5, <1>6, <1>7, <1>8, <1>9, <1>10, <1>11, <1>12, <1>13 DEF Next, HandleStop, Ended

\* A stop that has been reported is being handled, whoever calls execve.
THEOREM NoLostStopHolds == Spec => []NoLostStop
<1> DEFINE Inv == TypeInv /\ ReportedIsHandled
<1>1. Init => Inv
  BY InitTypeInv, InitCoherent DEF Coherent
<1>2. Inv /\ [Next]_vars => Inv'
  BY NextTypeInv, NextReported
<1>3. Inv => NoLostStop
  BY DEF ReportedIsHandled, NoLostStop, TypeInv, ChildIsHandled
<1> QED BY <1>1, <1>2, <1>3, PTL DEF Spec

\* What is left when GravelBox is gone rests on what there is before the options
\* are set: no task but the child, which has not got past its first stop.
LEMMA NextLeaves ==
  ASSUME TypeInv, Starting, LeavesNoTask, [Next]_vars
  PROVE  Starting' /\ LeavesNoTask'
<1> USE RootAssumption DEF TypeInv, TypeOK, KernelTypeOK
<1>1. CASE UNCHANGED vars
  BY <1>1 DEF vars, kernelVars, loopVars, Starting, LeavesNoTask, Alive
<1>2. ASSUME NEW how, Exited(how)
      PROVE  Starting' /\ LeavesNoTask'
  <2>1. pc' = "exited" => Starting'
    BY DEF Starting
  <2>2. CASE pc \in {"attach", "options"}
    BY <1>2, <2>1, <2>2 DEF Exited, Starting, LeavesNoTask, Alive
  <2>3. CASE pc \notin {"attach", "options"}
    BY <1>2, <2>1, <2>3 DEF Exited, LeavesNoTask, Alive
  <2> QED BY <2>2, <2>3
<1>3. CASE pc' \notin {"attach", "options", "exited"}
  BY <1>3 DEF Starting, LeavesNoTask
<1>4. CASE ChildInitFails
  BY <1>4 DEF ChildInitFails, Die, Starting, LeavesNoTask, loopVars
<1>5. CASE AttachChild
  BY <1>2, <1>3, <1>5 DEF AttachChild, Closing, ReportStop, Abort, Starting, LeavesNoTask
<1>6. CASE SetOptions
  BY <1>3, <1>6 DEF SetOptions, Closing
<1>7. CASE Wait
  BY <1>3, <1>7 DEF Wait, WaitStop, WaitExit, WaitPinentry, WaitFails, Closing, loopVars
<1>8. CASE HandleStop
  <2>1. CASE HandleEntry
    BY <1>2, <1>3, <2>1 DEF HandleEntry, TraceeGone, StopHandled, Abort
  <2>2. CASE GetAction
    BY <1>3, <2>2, PolicyAssumption DEF GetAction, GoTo, CallbackHasCall, Callback, Action
  <2> QED BY <1>2, <1>3, <1>8, <2>1, <2>2
          DEF HandleStop, HandleSigstop, HandleOther, HandleDeniedExit, HandleAllowedExit,
              ParseFails, Allow, Deny, Resume, TraceeGone, StopHandled, GoTo, Abort
<1>9. CASE Dialog
  BY <1>2, <1>3, <1>9 DEF Dialog, UserAnswers, EnterPassword, DialogFails, GoTo, Closing, Abort
<1>10. CASE CloseUI \/ Killed \/ PinentryDies
  BY <1>2, <1>3, <1>10 DEF CloseUI, Killed, PinentryDies, Abort, kernelVars, loopVars,
     Starting, LeavesNoTask
<1>11. ASSUME NEW t \in Task, TaskStep(t)
       PROVE  Starting' /\ LeavesNoTask'
  <2>1. pc' = pc /\ pc # "exited" /\ thread_status' = thread_status
    BY <1>11 DEF TaskStep, loopVars
  <2>2. CASE pc \in {"attach", "options"}
    <3>1. run[t] \in {"free", "newborn", "sigstop", "sigborn", "zombie"}
      BY <2>2 DEF Starting
    <3> DEFINE Early(u) == run'[u] = run[u] \/ (run[u] # "free" /\ run'[u] \in {"sigstop", "sigborn", "zombie"})
    <3>2. \A u \in Task : Early(u)
      <4>1. CASE Sigkill(t)
        BY <4>1 DEF Sigkill, Die, Alive
      <4>2. CASE StopBySigstop(t) \/ StopBySignal(t)
        BY <3>1, <4>2 DEF StopBySigstop, StopBySignal, Moves
      <4> HIDE DEF Early
      <4> QED BY <1>11, <3>1, <4>1, <4>2
              DEF TaskStep, EnterSyscall, FinishThreadExec, ReturnFromSyscall, Spawn, ExitThread,
                  ExitGroup, BeginExec, FinishExec, Executing, Moves
    <3>3. Starting'
      BY <2>1, <2>2, <3>2 DEF Starting
    <3> QED BY <2>1, <3>3 DEF LeavesNoTask
  <2> QED BY <1>3, <2>1, <2>2
<1> QED BY <1>1, <1>4, <1>5, <1>6, <1>7, <1>8, <1>9, <1>10, <1>11 DEF Next, Ended

\* However GravelBox ends, none of the target's code runs on unwatched, for any
\* number of tasks and every execve.
THEOREM LeavesNoTaskHolds == Spec => []LeavesNoTask
<1> DEFINE Inv == TypeInv /\ Starting /\ LeavesNoTask
<1>1. Init => Inv
  BY InitTypeInv, InitCoherent DEF Init, Coherent, LeavesNoTask
<1>2. Inv /\ [Next]_vars => Inv'
  BY NextTypeInv, NextLeaves
<1>3. Inv => LeavesNoTask
  OBVIOUS
<1> QED BY <1>1, <1>2, <1>3, PTL DEF Spec
=============================================================================
