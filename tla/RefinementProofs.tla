-------------------------- MODULE RefinementProofs --------------------------
(***************************************************************************)
(* Tracer implements Mediator: every step of the tracing loop, the kernel  *)
(* and the user is a step of the abstract mediator or a stutter, for every *)
(* set of tasks and every policy.                                          *)
(***************************************************************************)
EXTENDS TracerRefinement, TracerProofs

-----------------------------------------------------------------------------
(***************************************************************************)
(* What the mediator sees of a task.                                       *)
(***************************************************************************)
ViewUnchanged(t) ==
  /\ run'[t] = run[t] /\ thread_status'[t] = thread_status[t]
  /\ nr'[t] = nr[t] /\ rax'[t] = rax[t] /\ answer'[t] = answer[t]

LEMMA PhaseAbsent ==
  ASSUME NEW t \in Task, run[t] \in {"free", "zombie"}
  PROVE  PhaseOf(t) = "absent"
BY DEF PhaseOf, Undecided, Over, InCall, InKernel

LEMMA PhaseRequested ==
  ASSUME NEW t \in Task, Undecided(t)
  PROVE  PhaseOf(t) = "requested"
BY DEF PhaseOf, Undecided, Over, InCall, InKernel

LEMMA PhaseInCall ==
  ASSUME NEW t \in Task, InCall(t)
  PROVE  PhaseOf(t) = IF nr[t] = NoSyscall THEN "refused"
                      ELSE IF run[t] = "entry" THEN "granted" ELSE "executing"
BY DEF PhaseOf, Undecided, Over, InCall, InKernel

LEMMA PhaseIdle ==
  ASSUME NEW t \in Task,
         run[t] \in {"newborn", "user", "sigstop", "signal", "sigborn"} \/ Over(t)
  PROVE  PhaseOf(t) = "idle"
BY DEF PhaseOf, Undecided, Over, InCall, InKernel

\* A task whose own state does not change looks the same.
LEMMA SameView ==
  ASSUME NEW t \in Task, ViewUnchanged(t)
  PROVE  M!Same(t)
<1>1. PhaseOf(t)' = PhaseOf(t)
  BY DEF ViewUnchanged, PhaseOf, Undecided, Over, InCall
<1> QED BY <1>1 DEF M!Same, ViewUnchanged, phaseBar, callBar, sayBar, resultBar

\* A task that is idle before and after a step looks the same if rax does.
LEMMA IdleView ==
  ASSUME NEW t \in Task, PhaseOf(t) = "idle", PhaseOf(t)' = "idle", rax'[t] = rax[t]
  PROVE  M!Same(t)
BY DEF M!Same, phaseBar, callBar, sayBar, resultBar, OutsideCall

\* So does one that stays inside the same call.
LEMMA InCallView ==
  ASSUME NEW t \in Task, PhaseOf(t) \in {"refused", "executing"}, PhaseOf(t)' = PhaseOf(t),
         nr'[t] = nr[t], answer'[t] = answer[t]
  PROVE  M!Same(t)
BY DEF M!Same, phaseBar, callBar, sayBar, resultBar, OutsideCall

LEMMA GoneView ==
  ASSUME NEW t \in Task, run'[t] \in {"free", "zombie"}
  PROVE  M!Gone(t)
<1>1. PhaseOf(t)' = "absent"
  BY DEF PhaseOf, Undecided, Over, InCall, InKernel
<1> QED BY <1>1 DEF M!Gone, phaseBar, callBar, sayBar, resultBar, OutsideCall

LEMMA VanishSteps ==
  ASSUME \A t \in Task : M!Same(t) \/ M!Gone(t)
  PROVE  M!Next
BY DEF M!Next, M!Vanish

\* A step of one task: the mediator's variables change at t only.
LEMMA StepOf ==
  ASSUME NEW t \in Task, \A u \in Task \ {t} : M!Same(u)
  PROVE  /\ phaseBar' = [phaseBar EXCEPT ![t] = PhaseOf(t)']
         /\ callBar' = [callBar EXCEPT ![t] = callBar'[t]]
         /\ sayBar' = [sayBar EXCEPT ![t] = sayBar'[t]]
         /\ resultBar' = [resultBar EXCEPT ![t] = resultBar'[t]]
         /\ PhaseOf(t)' = PhaseOf(t) => UNCHANGED phaseBar
         /\ callBar'[t] = callBar[t] => UNCHANGED callBar
         /\ sayBar'[t] = sayBar[t] => UNCHANGED sayBar
         /\ resultBar'[t] = resultBar[t] => UNCHANGED resultBar
<1>1. \A u \in Task \ {t} : phaseBar'[u] = phaseBar[u] /\ callBar'[u] = callBar[u]
                            /\ sayBar'[u] = sayBar[u] /\ resultBar'[u] = resultBar[u]
  BY DEF M!Same
<1>2. /\ phaseBar' = [phaseBar EXCEPT ![t] = PhaseOf(t)']
      /\ PhaseOf(t)' = PhaseOf(t) => UNCHANGED phaseBar
  BY <1>1 DEF phaseBar
<1>3. /\ callBar' = [callBar EXCEPT ![t] = callBar'[t]]
      /\ callBar'[t] = callBar[t] => UNCHANGED callBar
  BY <1>1 DEF callBar
<1>4. /\ sayBar' = [sayBar EXCEPT ![t] = sayBar'[t]]
      /\ sayBar'[t] = sayBar[t] => UNCHANGED sayBar
  BY <1>1 DEF sayBar
<1>5. /\ resultBar' = [resultBar EXCEPT ![t] = resultBar'[t]]
      /\ resultBar'[t] = resultBar[t] => UNCHANGED resultBar
  BY <1>1 DEF resultBar
<1> QED BY <1>2, <1>3, <1>4, <1>5

\* What the mediator's variables say of a task, by its phase.
LEMMA View ==
  ASSUME NEW t \in Task
  PROVE  /\ phaseBar[t] = PhaseOf(t)
         /\ PhaseOf(t) \in {"absent", "idle"} => callBar[t] = NoSyscall /\ sayBar[t] = "none"
         /\ PhaseOf(t) \notin {"absent", "idle"} => callBar[t] = nr[t] /\ sayBar[t] = answer[t]
         /\ PhaseOf(t) # "idle" => resultBar[t] = "none"
         /\ PhaseOf(t) = "idle" =>
              resultBar[t] = IF rax[t] = "EPERM" THEN "EPERM" ELSE "value"
BY DEF phaseBar, callBar, sayBar, resultBar, OutsideCall

LEMMA ViewPrime ==
  ASSUME NEW t \in Task
  PROVE  /\ phaseBar'[t] = PhaseOf(t)'
         /\ PhaseOf(t)' \in {"absent", "idle"} => callBar'[t] = NoSyscall /\ sayBar'[t] = "none"
         /\ PhaseOf(t)' \notin {"absent", "idle"} =>
              callBar'[t] = nr'[t] /\ sayBar'[t] = answer'[t]
         /\ PhaseOf(t)' # "idle" => resultBar'[t] = "none"
         /\ PhaseOf(t)' = "idle" =>
              resultBar'[t] = IF rax'[t] = "EPERM" THEN "EPERM" ELSE "value"
BY View DEF phaseBar, callBar, sayBar, resultBar, OutsideCall

\* The ways for one task's step to be a step of the mediator.
LEMMA RequestStep ==
  ASSUME NEW t \in Task, \A u \in Task \ {t} : M!Same(u),
         PhaseOf(t) = "idle", PhaseOf(t)' = "requested",
         nr'[t] \in Syscall, answer'[t] = "none"
  PROVE  M!Next
<1>1. M!Request(t)
  BY StepOf, View, ViewPrime DEF M!Request
<1> QED BY <1>1 DEF M!Next

LEMMA SayStep ==
  ASSUME NEW t \in Task, \A u \in Task \ {t} : M!Same(u),
         PhaseOf(t) = "requested", PhaseOf(t)' = "requested",
         nr'[t] = nr[t], Policy[nr[t]] = "ASK",
         \/ answer[t] = "none" /\ answer'[t] \in {"yes", "no"}
         \/ answer[t] = "yes" /\ HasPassword /\ answer'[t] \in {"auth", "no"}
  PROVE  M!Next
<1>1. M!Say(t)
  BY StepOf, View, ViewPrime DEF M!Say
<1> QED BY <1>1 DEF M!Next

LEMMA GrantStep ==
  ASSUME NEW t \in Task, \A u \in Task \ {t} : M!Same(u),
         PhaseOf(t) = "requested", PhaseOf(t)' = "granted",
         nr'[t] = nr[t], answer'[t] = answer[t], Cleared(t)
  PROVE  M!Next
<1>1. M!Permitted(t)
  BY View DEF M!Permitted, Cleared
<1>2. M!Grant(t)
  BY <1>1, StepOf, View, ViewPrime DEF M!Grant
<1> QED BY <1>2 DEF M!Next

LEMMA RefuseStep ==
  ASSUME NEW t \in Task, \A u \in Task \ {t} : M!Same(u),
         PhaseOf(t) = "requested", PhaseOf(t)' = "refused",
         nr'[t] = NoSyscall, answer'[t] = answer[t],
         Policy[nr[t]] = "DENY" \/ (Policy[nr[t]] = "ASK" /\ answer[t] = "no")
  PROVE  M!Next
<1>1. M!Forbidden(t)
  BY View DEF M!Forbidden
<1>2. M!Refuse(t)
  BY <1>1, StepOf, View, ViewPrime DEF M!Refuse
<1> QED BY <1>2 DEF M!Next

LEMMA ExecuteStep ==
  ASSUME NEW t \in Task, \A u \in Task \ {t} : M!Same(u),
         PhaseOf(t) = "granted", PhaseOf(t)' = "executing",
         nr'[t] = nr[t], answer'[t] = answer[t]
  PROVE  M!Next
<1>1. M!Execute(t)
  BY StepOf, View, ViewPrime DEF M!Execute
<1> QED BY <1>1 DEF M!Next

LEMMA ReturnStep ==
  ASSUME NEW t \in Task, \A u \in Task \ {t} : M!Same(u),
         PhaseOf(t) \in {"executing", "refused"}, PhaseOf(t)' = "idle",
         rax'[t] = "EPERM" <=> PhaseOf(t) = "refused"
  PROVE  M!Next
<1>1. M!Return(t)
  BY StepOf, View, ViewPrime DEF M!Return
<1> QED BY <1>1 DEF M!Next

LEMMA CreateStep ==
  ASSUME NEW t \in Task, NEW u \in Task, \A v \in Task \ {u} : M!Same(v),
         PhaseOf(t) = "executing", PhaseOf(u) = "absent", PhaseOf(u)' = "idle",
         rax'[u] # "EPERM"
  PROVE  M!Next
<1>1. M!Create(t, u)
  BY StepOf, View, ViewPrime DEF M!Create
<1> QED BY <1>1 DEF M!Next

-----------------------------------------------------------------------------
(***************************************************************************)
(* The steps.                                                              *)
(***************************************************************************)
LEMMA QuietStep ==
  ASSUME \A t \in Task : ViewUnchanged(t) \/ run'[t] \in {"free", "zombie"}
  PROVE  M!Next
BY SameView, GoneView, VanishSteps

LEMMA ExitedMediates == ASSUME TypeOK, NEW how, Exited(how) PROVE M!Next
<1>1. SUFFICES \A t \in Task : ViewUnchanged(t) \/ run'[t] \in {"free", "zombie"}
  BY QuietStep
<1> QED BY DEF TypeOK, KernelTypeOK, Exited, ViewUnchanged, Alive

LEMMA TraceeGoneMediates == ASSUME TraceeGone PROVE M!Next
BY QuietStep DEF TraceeGone, kernelVars, ViewUnchanged

LEMMA ClosingMediates ==
  ASSUME NEW how, NEW code, Closing(how, code), UNCHANGED kernelVars
  PROVE  M!Next
BY QuietStep DEF Closing, kernelVars, ViewUnchanged

LEMMA StartMediates ==
  ASSUME RInv, ChildInitFails \/ AttachChild \/ SetOptions
  PROVE  M!Next
<1> USE RootAssumption DEF RInv, IInv, TypeInv, TypeOK, KernelTypeOK
<1>1. CASE ChildInitFails
  BY <1>1, QuietStep DEF ChildInitFails, Die, ViewUnchanged, Alive
<1>2. CASE AttachChild
  <2>1. CASE ReapExit(Root) /\ Closing("child_failed", ExitStatus(status[Root]))
    BY <2>1, QuietStep DEF ReapExit, Closing, ViewUnchanged
  <2>2. CASE Abort("assert_stop")
    BY <2>2, ExitedMediates DEF Abort
  <2>3. CASE ReportStop(Root) /\ UNCHANGED <<child, wstatus, args, thread_status, endVars, answer>>
    BY <2>3, QuietStep DEF ReportStop, ViewUnchanged
  <2> QED BY <1>2, <2>1, <2>2, <2>3 DEF AttachChild
<1>3. CASE SetOptions
  <2>1. CASE PtraceSyscall(Root) /\ thread_status' = [thread_status EXCEPT ![Root] = "USERSPACE"]
             /\ pc = "options" /\ UNCHANGED answer
    <3>1. run[Root] \in {"sigstop", "sigborn"} /\ run'[Root] \in {"user", "newborn"}
      BY <2>1 DEF Coherent, Starting, PtraceSyscall, Moves, Stops, AfterResume
    <3>2. M!Same(Root)
      BY <2>1, <3>1, IdleView, PhaseIdle DEF PtraceSyscall, PhaseOf, Undecided, Over, InCall, InKernel
    <3>3. \A t \in Task \ {Root} : M!Same(t)
      BY <2>1, SameView DEF PtraceSyscall, Moves, ViewUnchanged
    <3> QED BY <3>2, <3>3, VanishSteps
  <2>2. CASE Closing("exception", ExitFailure) /\ UNCHANGED kernelVars
    BY <2>2, ClosingMediates
  <2> QED BY <1>3, <2>1, <2>2 DEF SetOptions
<1> QED BY <1>1, <1>2, <1>3

LEMMA WaitMediates == ASSUME RInv, Wait PROVE M!Next
<1> USE DEF RInv, IInv, TypeInv, TypeOK, KernelTypeOK
<1>1. ASSUME NEW t \in Task, WaitStop(t)
      PROVE  M!Next
  BY <1>1, QuietStep DEF WaitStop, ReportStop, ViewUnchanged
<1>2. ASSUME NEW t \in Task, WaitExit(t)
      PROVE  M!Next
  BY <1>2, QuietStep DEF WaitExit, ReapExit, ViewUnchanged
<1>3. CASE WaitPinentry
  BY <1>3, QuietStep DEF WaitPinentry, kernelVars, ViewUnchanged
<1>4. CASE WaitFails
  BY <1>4, ClosingMediates DEF WaitFails
<1> QED BY <1>1, <1>2, <1>3, <1>4 DEF Wait

LEMMA EndMediates ==
  ASSUME TypeOK, CloseUI \/ Killed \/ PinentryDies
  PROVE  M!Next
<1>1. CASE CloseUI
  BY <1>1, ExitedMediates DEF CloseUI, Abort
<1>2. CASE Killed
  BY <1>2, ExitedMediates DEF Killed, Abort
<1>3. CASE PinentryDies
  BY <1>3, QuietStep DEF PinentryDies, kernelVars, ViewUnchanged
<1> QED BY <1>1, <1>2, <1>3

LEMMA HandleStopMediates ==
  ASSUME RInv, HandleStop, NEW t \in Task, t = child
  PROVE  M!Next
<1> USE DEF RInv, IInv, TypeInv, TypeOK, KernelTypeOK, GoTo, SetStatus, kernelVars
<1>0. pc \in Handling /\ t = child
  BY DEF HandleStop, HandleSigstop, HandleOther, HandleEntry, HandleDeniedExit,
         HandleAllowedExit, ParseFails, GetAction, Allow, Deny, Resume, Handling, Callback,
         ChildIsHandled
<1>1. \/ run[t] = "zombie"
      \/ Traced(t) /\ wstatus = StopSig(run[t])
  BY <1>0 DEF Coherent, ChildStaysStopped
<1>2. StatusAgrees(t)
  BY <1>0 DEF Coherent
<1>3. ASSUME NEW how, Abort(how)
      PROVE  M!Next
  BY <1>0, <1>3, ExitedMediates DEF Abort
<1>4. CASE HandleSigstop
  <2>1. run[t] \in {"zombie", "sigstop"} /\ run'[t] = run[t]
    BY <1>0, <1>1, <1>4 DEF HandleSigstop, StopSig, Traced, Stops
  <2>2. M!Same(t)
    <3>1. CASE run[t] = "zombie"
      BY <1>0, <2>1, <3>1, PhaseAbsent DEF M!Same, phaseBar, callBar, sayBar, resultBar,
         PhaseOf, Undecided, Over, InCall, InKernel, OutsideCall
    <3>2. CASE run[t] = "sigstop"
      BY <1>0, <1>4, <2>1, <3>2, IdleView, PhaseIdle
         DEF HandleSigstop, PhaseOf, Undecided, Over, InCall, InKernel
    <3> QED BY <1>0, <2>1, <3>1, <3>2
  <2>3. \A u \in Task \ {t} : M!Same(u)
    BY <1>0, <1>4, SameView DEF HandleSigstop, ViewUnchanged
  <2> QED BY <1>0, <2>2, <2>3, VanishSteps
<1>5. CASE HandleOther
  BY <1>0, <1>5, QuietStep DEF HandleOther, ViewUnchanged
<1>6. CASE HandleEntry
  BY <1>0, <1>3, <1>6, QuietStep, TraceeGoneMediates DEF HandleEntry, ViewUnchanged
<1>7. CASE HandleDeniedExit
  <2>1. CASE TraceeGone
    BY <1>0, <2>1, TraceeGoneMediates
  <2>2. CASE Traced(t) /\ rax' = [rax EXCEPT ![t] = "EPERM"]
             /\ thread_status' = [thread_status EXCEPT ![t] = "USERSPACE"]
             /\ UNCHANGED <<run, seen, leader, nr, status, endVars, answer>>
    <3>1. run[t] = "exit" /\ Judged(t)
      BY <1>0, <1>1, <1>2, <1>7, <2>2 DEF HandleDeniedExit, StopSig, Traced, Stops, StatusAgrees,
         Resuming
    <3>2. PhaseOf(t) = "refused"
      BY <1>0, <1>7, <3>1, PhaseInCall DEF HandleDeniedExit, InCall, Undecided, Over, Judged
    <3>3. PhaseOf(t)' = "idle" /\ rax'[t] = "EPERM"
      BY <1>0, <2>2, <3>1 DEF PhaseOf, Undecided, Over, InCall, InKernel
    <3>4. \A u \in Task \ {t} : M!Same(u)
      BY <1>0, <2>2, SameView DEF ViewUnchanged
    <3> QED BY <1>0, <3>2, <3>3, <3>4, ReturnStep
  <2> QED BY <1>0, <1>7, <2>1, <2>2 DEF HandleDeniedExit
<1>8. CASE HandleAllowedExit
  <2>1. CASE run[t] = "zombie"
    BY <1>0, <1>8, <2>1, QuietStep DEF HandleAllowedExit, ViewUnchanged
  <2>2. CASE Traced(t)
    <3>1. run[t] = "exit" /\ Judged(t)
      BY <1>0, <1>1, <1>2, <1>8, <2>2 DEF HandleAllowedExit, StopSig, Traced, Stops, StatusAgrees,
         Resuming
    <3>2. PhaseOf(t) = "executing" /\ rax[t] # "EPERM"
      BY <1>0, <1>8, <3>1, PhaseInCall DEF HandleAllowedExit, InCall, Undecided, Over, Judged
    <3>3. PhaseOf(t)' = "idle" /\ rax'[t] # "EPERM"
      BY <1>0, <1>8, <3>1, <3>2 DEF HandleAllowedExit, PhaseOf, Undecided, Over, InCall, InKernel
    <3>4. \A u \in Task \ {t} : M!Same(u)
      BY <1>0, <1>8, SameView DEF HandleAllowedExit, ViewUnchanged
    <3> QED BY <1>0, <3>2, <3>3, <3>4, ReturnStep
  <2> QED BY <1>0, <1>1, <2>1, <2>2
<1>9. CASE ParseFails
  BY <1>0, <1>3, <1>9 DEF ParseFails
<1>10. CASE GetAction
  BY <1>0, <1>10, QuietStep DEF GetAction, ViewUnchanged
<1>11. CASE Allow
  <2>1. CASE run[t] = "zombie"
    BY <1>0, <1>11, <2>1, QuietStep DEF Allow, ViewUnchanged
  <2>2. CASE Traced(t)
    <3>1. run[t] = "entry" /\ Cleared(t)
      BY <1>0, <1>11, <2>2 DEF Allow, Coherent, CallbackAgrees, Callback, Traced, Stops, Alive
    <3>2. Undecided(t) /\ nr[t] # NoSyscall
      BY <1>0, <1>2, <1>11, <3>1 DEF Allow, StatusAgrees, Resuming, Undecided
    <3>3. PhaseOf(t) = "requested"
      BY <1>0, <3>2, PhaseRequested
    <3>4. PhaseOf(t)' = "granted"
      BY <1>0, <1>11, <3>1, <3>2 DEF Allow, PhaseOf, Undecided, Over, InCall, InKernel
    <3>5. \A u \in Task \ {t} : M!Same(u)
      BY <1>0, <1>11, SameView DEF Allow, ViewUnchanged
    <3> QED BY <1>0, <1>11, <3>1, <3>3, <3>4, <3>5, GrantStep DEF Allow
  <2> QED BY <1>0, <1>1, <2>1, <2>2
<1>12. CASE Deny
  <2>1. CASE TraceeGone
    BY <1>0, <2>1, TraceeGoneMediates
  <2>2. CASE Traced(t) /\ nr' = [nr EXCEPT ![t] = NoSyscall]
             /\ thread_status' = [thread_status EXCEPT ![t] = "KERNELSPACE_DENY"]
             /\ UNCHANGED <<run, seen, leader, rax, status, endVars, answer>>
    <3>1. run[t] = "entry" /\ args = nr[t]
      BY <1>0, <1>12, <2>2 DEF Deny, Coherent, CallbackAgrees, Callback, Traced, Stops, Alive
    <3>2. Undecided(t)
      BY <1>0, <1>2, <1>12, <3>1 DEF Deny, StatusAgrees, Resuming, Undecided
    <3>3. PhaseOf(t) = "requested"
      BY <1>0, <3>2, PhaseRequested
    <3>4. PhaseOf(t)' = "refused" /\ nr'[t] = NoSyscall
      BY <1>0, <2>2, <3>1, <3>2 DEF PhaseOf, Undecided, Over, InCall, InKernel
    <3>5. \A u \in Task \ {t} : M!Same(u)
      BY <1>0, <2>2, SameView DEF ViewUnchanged
    <3>6. Policy[nr[t]] = "DENY" \/ (Policy[nr[t]] = "ASK" /\ answer[t] = "no")
      BY <1>0, <1>12, <3>1 DEF Deny, DenyAgrees, Alive
    <3> QED BY <1>0, <2>2, <3>3, <3>4, <3>5, <3>6, RefuseStep
  <2> QED BY <1>0, <1>12, <2>1, <2>2 DEF Deny
<1>13. CASE Resume
  <2>1. CASE TraceeGone
    BY <1>0, <2>1, TraceeGoneMediates
  <2>2. CASE PtraceSyscall(t) /\ UNCHANGED <<thread_status, endVars, answer>>
    <3>0. \A u \in Task \ {t} : M!Same(u)
      BY <1>0, <2>2, SameView DEF PtraceSyscall, Moves, ViewUnchanged
    <3>1. run[t] \in Stops /\ run'[t] = AfterResume(run[t])
          /\ Resuming(t)
      BY <1>0, <1>13, <2>2 DEF PtraceSyscall, Moves, Resume, Resuming
    <3>2. CASE run[t] = "entry"
      <4>1. Judged(t) /\ InCall(t) /\ InCall(t)' /\ run'[t] = "kernel"
        BY <1>0, <1>2, <2>2, <3>1, <3>2 DEF StatusAgrees, Judged, InCall, Undecided, Over,
           InKernel, AfterResume
      <4>2. PhaseOf(t)' = IF nr[t] = NoSyscall THEN "refused" ELSE "executing"
        BY <1>0, <2>2, <4>1 DEF PhaseOf, InCall, Undecided, Over, InKernel, PtraceSyscall
      <4>3. PhaseOf(t) = IF nr[t] = NoSyscall THEN "refused" ELSE "granted"
        BY <1>0, <3>2, <4>1, PhaseInCall
      <4>4. CASE nr[t] = NoSyscall
        BY <1>0, <2>2, <3>0, <4>2, <4>3, <4>4, InCallView, VanishSteps DEF PtraceSyscall
      <4>5. CASE nr[t] # NoSyscall
        BY <1>0, <2>2, <3>0, <4>2, <4>3, <4>5, ExecuteStep DEF PtraceSyscall
      <4> QED BY <1>0, <4>4, <4>5
    <3>3. CASE run[t] = "event"
      <4>1. PhaseOf(t)' = PhaseOf(t) /\ PhaseOf(t) \in {"refused", "executing"}
        BY <1>0, <2>2, <3>1, <3>3 DEF PhaseOf, InCall, Undecided, Over, InKernel, PtraceSyscall,
           AfterResume
      <4> QED BY <1>0, <2>2, <3>0, <4>1, InCallView, VanishSteps DEF PtraceSyscall
    <3>4. CASE run[t] \in Stops \ {"entry", "event"}
      <4>1. run[t] = "exit" => Over(t)
        BY <1>0, <1>2, <3>1 DEF StatusAgrees, Over
      <4>2. PhaseOf(t) = "idle"
        BY <1>0, <3>4, <4>1, PhaseIdle DEF Stops
      <4>3. PhaseOf(t)' = "idle"
        BY <1>0, <3>1, <3>4 DEF PhaseOf, InCall, Undecided, Over, InKernel, AfterResume, Stops
      <4> QED BY <1>0, <2>2, <3>0, <4>2, <4>3, IdleView, VanishSteps DEF PtraceSyscall
    <3> QED BY <1>0, <3>1, <3>2, <3>3, <3>4
  <2> QED BY <1>0, <1>13, <2>1, <2>2 DEF Resume
<1> QED BY <1>4, <1>5, <1>6, <1>7, <1>8, <1>9, <1>10, <1>11, <1>12, <1>13 DEF HandleStop

LEMMA DialogMediates ==
  ASSUME RInv, Dialog, NEW t \in Task, t = child
  PROVE  M!Next
<1> USE DEF RInv, IInv, TypeInv, TypeOK, KernelTypeOK, GoTo, Says
<1>1. CASE DialogFails
  BY <1>1, ClosingMediates, ExitedMediates DEF DialogFails, Abort
<1>2. CASE UserAnswers \/ EnterPassword
  <2>0. /\ pc \in {"ask", "password", "retry"} /\ UNCHANGED <<kernelVars, thread_status>>
        /\ \A u \in Task \ {t} : answer'[u] = answer[u]
    BY <1>2 DEF UserAnswers, EnterPassword
  <2>1. \A u \in Task \ {t} : M!Same(u)
    BY <2>0, SameView DEF ViewUnchanged, kernelVars
  <2>2. CASE run[t] = "zombie"
    BY <2>0, <2>2, QuietStep DEF ViewUnchanged, kernelVars
  <2>3. CASE Traced(t)
    <3>1. run[t] = "entry" /\ args = nr[t] /\ Policy[nr[t]] = "ASK" /\ StatusAgrees(t)
      BY <2>0, <2>3 DEF Coherent, CallbackAgrees, Callback, Traced, Stops, Alive
    <3>2. Undecided(t)
      BY <2>0, <3>1 DEF StatusAgrees, Resuming, Undecided
    <3>3. PhaseOf(t) = "requested" /\ PhaseOf(t)' = "requested"
      BY <2>0, <3>2 DEF PhaseOf, Undecided, Over, InCall, InKernel, kernelVars
    <3>4. CASE answer'[t] = answer[t]
      BY <2>0, <3>4, QuietStep DEF ViewUnchanged, kernelVars
    <3>5. CASE answer'[t] # answer[t]
      <4>1. \/ answer[t] = "none" /\ answer'[t] \in {"yes", "no"}
            \/ answer[t] = "yes" /\ HasPassword /\ answer'[t] \in {"auth", "no"}
        <5>1. CASE UserAnswers
          BY <3>2, <5>1 DEF UserAnswers, AnswerAgrees, Undecided
        <5>2. CASE EnterPassword
          BY <3>1, <3>2, <3>5, <5>2 DEF EnterPassword, AnswerAgrees, Undecided, Coherent,
             CallbackAgrees, Callback
        <5> QED BY <1>2, <5>1, <5>2
      <4> QED BY <2>0, <2>1, <3>1, <3>3, <4>1, SayStep DEF kernelVars
    <3> QED BY <3>4, <3>5
  <2> QED BY <2>0, <2>2, <2>3 DEF Coherent, ChildStaysStopped, Handling, Callback
<1> QED BY <1>1, <1>2 DEF Dialog

LEMMA TaskMediates ==
  ASSUME RInv, ~ThreadExec, NEW t \in Task, TaskStep(t)
  PROVE  M!Next
<1> USE DEF RInv, IInv, TypeInv, TypeOK, KernelTypeOK, Moves
<1>0. UNCHANGED thread_status /\ StatusAgrees(t)
  BY DEF TaskStep, Coherent
<1>1. ASSUME NEW s \in Syscall, EnterSyscall(t, s), answer' = [answer EXCEPT ![t] = "none"]
      PROVE  M!Next
  <2>1. run[t] = "user" /\ run'[t] = "entry" /\ thread_status'[t] = "USERSPACE"
    BY <1>0, <1>1 DEF EnterSyscall, StatusAgrees
  <2>2. PhaseOf(t) = "idle" /\ PhaseOf(t)' = "requested"
    BY <2>1 DEF PhaseOf, Undecided, Over, InCall, InKernel
  <2>3. \A u \in Task \ {t} : M!Same(u)
    BY <1>0, <1>1, SameView DEF EnterSyscall, ViewUnchanged
  <2> QED BY <1>1, <2>2, <2>3, RequestStep DEF EnterSyscall
<1>2. ASSUME NEW l \in Task, FinishThreadExec(t, l)
      PROVE  FALSE
  BY <1>2 DEF FinishThreadExec, LeadersExec, Coherent
<1>3. ASSUME ReturnFromSyscall(t) \/ FinishExec(t), UNCHANGED answer
      PROVE  M!Next
  <2>1. run[t] \in InKernel \ {"event"} /\ run'[t] = "exit" /\ Judged(t) /\ nr' = nr
    BY <1>0, <1>3 DEF ReturnFromSyscall, FinishExec, StatusAgrees, InKernel
  <2>2. PhaseOf(t)' = PhaseOf(t) /\ PhaseOf(t) \in {"refused", "executing"}
    BY <1>0, <2>1 DEF PhaseOf, Undecided, Over, InCall, InKernel, Judged
  <2>3. M!Same(t)
    BY <1>3, <2>1, <2>2, InCallView
  <2>4. \A u \in Task \ {t} : M!Same(u)
    BY <1>0, <1>3, SameView DEF ReturnFromSyscall, FinishExec, ViewUnchanged
  <2> QED BY <2>3, <2>4, VanishSteps
<1>4. ASSUME StopBySigstop(t) \/ StopBySignal(t), UNCHANGED answer
      PROVE  M!Next
  <2>1. run[t] \in {"newborn", "user"} /\ run'[t] \in {"sigstop", "signal", "sigborn"}
    BY <1>4 DEF StopBySigstop, StopBySignal
  <2>2. PhaseOf(t) = "idle" /\ PhaseOf(t)' = "idle"
    BY <2>1 DEF PhaseOf, Undecided, Over, InCall, InKernel
  <2>3. M!Same(t)
    BY <1>4, <2>2, IdleView DEF StopBySigstop, StopBySignal
  <2>4. \A u \in Task \ {t} : M!Same(u)
    BY <1>0, <1>4, SameView DEF StopBySigstop, StopBySignal, ViewUnchanged
  <2> QED BY <2>3, <2>4, VanishSteps
<1>5. ASSUME NEW u \in Task, Spawn(t, u), UNCHANGED answer
      PROVE  M!Next
  <2>1. /\ run[t] = "kernel" /\ run[u] = "free" /\ t # u /\ nr[t] # NoSyscall
        /\ run'[t] = "event" /\ run'[u] = "newborn"
    BY <1>5, SyscallAssumption DEF Spawn, Executing
  <2>2. PhaseOf(t) = "executing" /\ PhaseOf(t)' = "executing"
    BY <1>0, <1>5, <2>1 DEF PhaseOf, Undecided, Over, InCall, InKernel, Spawn
  <2>3. M!Same(t)
    BY <1>5, <2>2, InCallView DEF Spawn
  <2>4. \A v \in Task \ {t, u} : M!Same(v)
    BY <1>0, <1>5, SameView DEF Spawn, ViewUnchanged
  <2>5. PhaseOf(u) = "absent" /\ PhaseOf(u)' = "idle"
    BY <2>1 DEF PhaseOf, Undecided, Over, InCall, InKernel
  <2>6. rax'[u] # "EPERM"
    BY <1>5, <2>1 DEF Spawn, FreeIsFresh
  <2> QED BY <2>2, <2>3, <2>4, <2>5, <2>6, CreateStep
<1>6. ASSUME NEW S \in SUBSET Task, NEW st, Die(S, st), UNCHANGED <<nr, rax, answer>>
      PROVE  M!Next
  BY <1>0, <1>6, QuietStep DEF Die, ViewUnchanged
<1>7. ASSUME Sigkill(t) \/ \E c \in ExitCode : ExitThread(t, c) \/ ExitGroup(t, c),
             UNCHANGED answer
      PROVE  M!Next
  <2>1. Group(t) \in SUBSET Task  BY DEF Group
  <2> QED BY <1>6, <1>7, <2>1 DEF Sigkill, ExitThread, ExitGroup
<1>8. ASSUME BeginExec(t), UNCHANGED answer
      PROVE  M!Next
  <2>1. run[t] = "kernel" /\ run'[t] = "dethread" /\ nr[t] # NoSyscall
    BY <1>8, SyscallAssumption DEF BeginExec, Executing
  <2>2. PhaseOf(t) = "executing" /\ PhaseOf(t)' = "executing"
    BY <1>0, <1>8, <2>1 DEF PhaseOf, Undecided, Over, InCall, InKernel, BeginExec
  <2>3. M!Same(t)
    BY <1>8, <2>2, InCallView DEF BeginExec
  <2>4. \A u \in Task \ {t} : M!Same(u) \/ M!Gone(u)
    BY <1>0, <1>8, SameView, GoneView DEF BeginExec, ViewUnchanged
  <2> QED BY <2>3, <2>4, VanishSteps
<1> QED BY <1>1, <1>2, <1>3, <1>4, <1>5, <1>7, <1>8 DEF TaskStep

LEMMA NextMediates ==
  ASSUME RInv, ~ThreadExec, [Next]_vars
  PROVE  [M!Next]_M!vars
<1>1. CASE UNCHANGED vars
  BY <1>1, QuietStep DEF vars, kernelVars, ViewUnchanged
<1>2. CASE HandleStop \/ Dialog
  <2>1. child \in Task
    BY <1>2 DEF RInv, IInv, TypeInv, ChildIsHandled, Handling, Callback, HandleStop,
       HandleSigstop, HandleOther, HandleEntry, HandleDeniedExit, HandleAllowedExit,
       ParseFails, GetAction, Allow, Deny, Resume, Dialog, UserAnswers, EnterPassword, DialogFails
  <2> QED BY <1>2, <2>1, HandleStopMediates, DialogMediates
<1>3. CASE ChildInitFails \/ AttachChild \/ SetOptions
  BY <1>3, StartMediates
<1>4. CASE Wait
  BY <1>4, WaitMediates
<1>5. CASE CloseUI \/ Killed \/ PinentryDies
  BY <1>5, EndMediates DEF RInv, IInv, TypeInv
<1>6. CASE \E t \in Task : TaskStep(t)
  BY <1>6, TaskMediates
<1> QED BY <1>1, <1>2, <1>3, <1>4, <1>5, <1>6 DEF Next, Ended

LEMMA InitMediates == Init => M!Init
<1> SUFFICES ASSUME Init PROVE M!Init
  OBVIOUS
<1>1. \A t \in Task : PhaseOf(t) = IF t = Root THEN "idle" ELSE "absent"
  BY DEF Init, KernelInit, PhaseOf, Undecided, Over, InCall, InKernel
<1> QED BY <1>1 DEF Init, KernelInit, M!Init, phaseBar, callBar, sayBar, resultBar, OutsideCall

-----------------------------------------------------------------------------
(***************************************************************************)
(* The rest of the invariant.                                              *)
(***************************************************************************)
LEMMA NextFreeIsFresh ==
  ASSUME RInv, [Next]_vars
  PROVE  FreeIsFresh'
<1> USE DEF RInv, FreeIsFresh, IInv, TypeInv, TypeOK, KernelTypeOK
<1>1. SUFFICES ASSUME NEW t \in Task, run'[t] = "free"
               PROVE  (run[t] = "free" /\ rax'[t] = rax[t]) \/ rax'[t] = "value"
  OBVIOUS
<1>2. CASE UNCHANGED kernelVars
  BY <1>1, <1>2 DEF kernelVars
<1>3. CASE \E how \in Fates : Exited(how)
  BY <1>1, <1>3 DEF Exited
<1>4. CASE \E u \in Task : PtraceSyscall(u)
  BY <1>1, <1>4 DEF PtraceSyscall, Moves, AfterResume
<1>5. CASE \E u \in Task : ReportStop(u) \/ ReapExit(u)
  BY <1>1, <1>5 DEF ReportStop, ReapExit
<1>6. CASE ChildInitFails
  BY <1>1, <1>6 DEF ChildInitFails, Die
<1>7. CASE HandleDeniedExit /\ Traced(child)
  BY <1>1, <1>7 DEF HandleDeniedExit, Traced, Stops, TraceeGone, kernelVars, ChildIsHandled, Handling
<1>8. CASE Deny /\ Traced(child)
  BY <1>1, <1>8 DEF Deny, TraceeGone, Traced
<1>9. ASSUME NEW u \in Task, TaskStep(u)
      PROVE  (run[t] = "free" /\ rax'[t] = rax[t]) \/ rax'[t] = "value"
  BY <1>1, <1>9 DEF TaskStep, EnterSyscall, FinishThreadExec, ReturnFromSyscall, Spawn,
     StopBySigstop, StopBySignal, ExitThread, ExitGroup, Sigkill, BeginExec, FinishExec, Die, Moves
<1>10. TraceeGone => UNCHANGED kernelVars
  BY DEF TraceeGone
<1>11. CASE HandleStop
  <2>1. CASE Resume
    BY <1>2, <1>4, <1>10, <2>1 DEF Resume, ChildIsHandled, Handling
  <2>2. CASE HandleEntry
    BY <1>2, <1>3, <1>10, <2>2 DEF HandleEntry, Abort, Fates
  <2>3. CASE HandleDeniedExit \/ Deny
    BY <1>2, <1>7, <1>8, <1>10, <2>3 DEF HandleDeniedExit, Deny
  <2> QED BY <1>2, <1>3, <1>11, <2>1, <2>2, <2>3
          DEF HandleStop, HandleSigstop, HandleOther, HandleAllowedExit, ParseFails,
              GetAction, Allow, Abort, Fates
<1>12. CASE Dialog
  BY <1>2, <1>3, <1>12 DEF Dialog, UserAnswers, EnterPassword, DialogFails, Abort, Fates
<1>13. CASE AttachChild \/ SetOptions
  BY <1>2, <1>3, <1>4, <1>5, <1>13, RootAssumption DEF AttachChild, SetOptions, Abort, Fates
<1>14. CASE Wait
  BY <1>2, <1>5, <1>14 DEF Wait, WaitStop, WaitExit, WaitPinentry, WaitFails
<1>15. CASE CloseUI \/ Killed \/ PinentryDies
  BY <1>2, <1>3, <1>15 DEF CloseUI, Killed, PinentryDies, Abort, Fates
<1> QED BY <1>2, <1>6, <1>9, <1>11, <1>12, <1>13, <1>14, <1>15 DEF Next, Ended, vars

\* While the tasks run, the task being handled only can be killed, and nobody
\* but the callback changes what the user said of it.
LEMMA TaskKeepsChild ==
  ASSUME RInv, ~ThreadExec, NEW t \in Task, TaskStep(t), pc \in Handling,
         run[child] \in {"entry", "zombie"}
  PROVE  /\ run'[child] \in {run[child], "zombie"}
         /\ run[child] = "entry" => answer'[child] = answer[child]
<1> USE DEF RInv, IInv, TypeInv, TypeOK, KernelTypeOK, ChildIsHandled
<1> QED BY DEF TaskStep, EnterSyscall, FinishThreadExec, ReturnFromSyscall, Spawn, LeadersExec, Coherent,
     StopBySigstop, StopBySignal, ExitThread, ExitGroup, Sigkill, BeginExec, FinishExec, Die, Moves,
     Executing, InKernel, Alive

LEMMA TaskAnswerAgrees ==
  ASSUME RInv, ~ThreadExec, NEW t \in Task, TaskStep(t)
  PROVE  AnswerAgrees'
<1> USE DEF RInv, IInv, TypeInv, TypeOK, KernelTypeOK
<1>1. SUFFICES ASSUME NEW u \in Task, run'[u] = "entry", thread_status'[u] = "USERSPACE",
                      pc' \notin {"closing", "exited"}
               PROVE  /\ child' # u \/ pc' \in {"stopped", "callback", "ask"} => answer'[u] = "none"
                      /\ child' = u /\ pc' \in {"password", "retry"} => answer'[u] = "yes"
  BY DEF AnswerAgrees
<1>2. UNCHANGED <<pc, child, args, thread_status>>
  BY DEF TaskStep, loopVars
<1>3. CASE run[u] = "entry" /\ answer'[u] = answer[u]
  BY <1>1, <1>2, <1>3 DEF AnswerAgrees
<1>4. CASE u = t /\ run[t] = "user" /\ answer'[t] = "none"
  <2>1. pc \in Handling => child # t
    BY <1>4 DEF Coherent, ChildStaysStopped, Traced, Stops
  <2> QED BY <1>1, <1>2, <1>4, <2>1 DEF Handling, Callback
<1>5. \/ run[u] = "entry" /\ answer'[u] = answer[u]
      \/ u = t /\ run[t] = "user" /\ answer'[t] = "none"
  BY <1>1 DEF TaskStep, EnterSyscall, FinishThreadExec, ReturnFromSyscall, Spawn, LeadersExec, Coherent,
     StopBySigstop, StopBySignal, ExitThread, ExitGroup, Sigkill, BeginExec, FinishExec, Die, Moves,
     Executing, InKernel, Alive
<1> QED BY <1>3, <1>4, <1>5

LEMMA TaskDenyAgrees ==
  ASSUME RInv, ~ThreadExec, NEW t \in Task, TaskStep(t)
  PROVE  DenyAgrees'
<1> USE DEF RInv, IInv, TypeInv, TypeOK, KernelTypeOK
<1>1. SUFFICES ASSUME pc' = "deny", Alive(child)'
               PROVE  Policy[args'] = "DENY" \/ (Policy[args'] = "ASK" /\ answer'[child'] = "no")
  BY DEF DenyAgrees
<1>2. UNCHANGED <<pc, child, args>>
  BY DEF TaskStep, loopVars
<1>3. run[child] \in {"entry", "zombie"}
  BY <1>1, <1>2 DEF Coherent, CallbackAgrees, ChildStaysStopped, Callback, Handling, Traced, Stops, Alive
<1>4. run[child] = "entry" /\ answer'[child] = answer[child]
  BY <1>1, <1>2, <1>3, TaskKeepsChild DEF Handling, Callback, Alive
<1> QED BY <1>1, <1>2, <1>4 DEF DenyAgrees, Alive

LEMMA LoopAgrees ==
  ASSUME RInv, IInv', HandleStop \/ Dialog
  PROVE  AnswerAgrees' /\ DenyAgrees'
<1> USE DEF RInv, IInv, TypeInv, TypeOK, KernelTypeOK, GoTo, SetStatus, kernelVars, Says
<1>0. pc \in Handling /\ child \in Task
  BY DEF HandleStop, HandleSigstop, HandleOther, HandleEntry, HandleDeniedExit, Dialog,
         UserAnswers, EnterPassword, DialogFails,
         HandleAllowedExit, ParseFails, GetAction, Allow, Deny, Resume, Handling, Callback,
         ChildIsHandled
<1>1. CASE pc' \in {"closing", "exited"}
  BY <1>1 DEF AnswerAgrees, DenyAgrees
<1>2. CASE TraceeGone
  <2>1. run[child] # "entry" /\ child' = NoTask /\ pc' = "wait" /\ pc \notin {"closing", "exited"}
    BY <1>0, <1>2 DEF TraceeGone, StopHandled, Traced, Stops, Handling, Callback
  <2> QED BY <1>2, <2>1, NoTaskAssumption DEF TraceeGone, AnswerAgrees, DenyAgrees
<1>3. CASE HandleSigstop
  <2>1. run[child] # "entry"
    BY <1>0, <1>3 DEF HandleSigstop, Coherent, ChildStaysStopped, StopSig, Traced, Stops
  <2> QED BY <1>0, <1>3, <2>1 DEF HandleSigstop, AnswerAgrees, DenyAgrees
<1>4. CASE HandleOther
  <2>1. run[child] # "entry"
    BY <1>0, <1>4 DEF HandleOther, Coherent, ChildStaysStopped, StopSig, Traced, Stops
  <2> QED BY <1>0, <1>4, <2>1 DEF HandleOther, AnswerAgrees, DenyAgrees
<1>5. CASE HandleEntry
  BY <1>1, <1>2, <1>5 DEF HandleEntry, AnswerAgrees, DenyAgrees, Abort, Exited
<1>6. CASE HandleDeniedExit \/ HandleAllowedExit
  <2>1. run[child] # "entry"
    BY <1>0, <1>6 DEF HandleDeniedExit, HandleAllowedExit, Coherent, StatusAgrees, Resuming, Judged
  <2> QED BY <1>0, <1>2, <1>6, <2>1 DEF HandleDeniedExit, HandleAllowedExit, AnswerAgrees, DenyAgrees
<1>7. CASE ParseFails
  BY <1>1, <1>7 DEF ParseFails, Abort, Exited
<1>8. CASE GetAction
  BY <1>8, PolicyAssumption DEF GetAction, AnswerAgrees, DenyAgrees, CallbackHasCall, Callback, Action, Alive
<1>9. CASE Allow
  BY <1>9 DEF Allow, AnswerAgrees, DenyAgrees
<1>10. CASE Deny
  BY <1>2, <1>10 DEF Deny, AnswerAgrees, DenyAgrees
<1>11. CASE Resume
  BY <1>0, <1>2, <1>11 DEF Resume, AnswerAgrees, DenyAgrees, PtraceSyscall, Moves, AfterResume, StopHandled
<1>12. CASE UserAnswers \/ EnterPassword
  <2>1. pc \in {"ask", "password", "retry"} /\ Policy[args] = "ASK"
    BY <1>12 DEF UserAnswers, EnterPassword, Coherent, CallbackAgrees, Callback
  <2> QED BY <1>0, <1>12, <2>1 DEF UserAnswers, EnterPassword, AnswerAgrees, DenyAgrees
<1>13. CASE DialogFails
  BY <1>1, <1>13 DEF DialogFails, Closing, Abort, Exited
<1> QED BY <1>3, <1>4, <1>5, <1>6, <1>7, <1>8, <1>9, <1>10, <1>11, <1>12, <1>13 DEF HandleStop, Dialog

LEMMA OutsideAgrees ==
  ASSUME RInv, ChildInitFails \/ AttachChild \/ SetOptions \/ Wait \/ CloseUI \/ Killed \/ PinentryDies
  PROVE  AnswerAgrees' /\ DenyAgrees'
<1> USE RootAssumption DEF RInv, IInv, TypeInv, TypeOK, KernelTypeOK
<1>1. CASE pc' \in {"closing", "exited"}
  BY <1>1 DEF AnswerAgrees, DenyAgrees
<1>2. CASE ChildInitFails \/ AttachChild \/ SetOptions
  <2>1. pc \in {"attach", "options"} /\ pc' # "deny"
    BY <1>2 DEF ChildInitFails, AttachChild, SetOptions, Closing, Abort, Exited, loopVars
  <2>2. \A t \in Task : run'[t] # "entry"
    BY <1>2, <2>1 DEF ChildInitFails, AttachChild, SetOptions, Closing, Abort, Exited, Coherent, Starting,
       Die, ReapExit, ReportStop, PtraceSyscall, Moves, AfterResume, Stops, kernelVars
  <2> QED BY <2>1, <2>2 DEF AnswerAgrees, DenyAgrees
<1>3. CASE Wait
  <2>1. pc = "wait" => child \notin Task
    BY DEF ChildIsHandled, Handling, Callback
  <2> QED BY <1>1, <1>3, <2>1 DEF Wait, WaitStop, WaitExit, WaitPinentry, WaitFails, ReportStop, ReapExit,
             Closing, AnswerAgrees, DenyAgrees, kernelVars, loopVars
<1>4. CASE CloseUI \/ Killed
  BY <1>1, <1>4 DEF CloseUI, Killed, Abort, Exited
<1>5. CASE PinentryDies
  BY <1>5 DEF PinentryDies, AnswerAgrees, DenyAgrees, kernelVars, loopVars, Alive
<1> QED BY <1>2, <1>3, <1>4, <1>5

LEMMA NextRInv == ~ThreadExec /\ RInv /\ [Next]_vars => RInv'
<1> SUFFICES ASSUME ~ThreadExec, RInv, [Next]_vars
             PROVE  RInv'
  OBVIOUS
<1>1. IInv'
  BY NextIInv DEF RInv
<1>2. FreeIsFresh'
  BY NextFreeIsFresh
<1>3. AnswerAgrees' /\ DenyAgrees'
  <2>1. CASE UNCHANGED vars
    BY <2>1 DEF RInv, AnswerAgrees, DenyAgrees, vars, kernelVars, loopVars, Alive
  <2> QED BY <1>1, <2>1, LoopAgrees, OutsideAgrees, TaskAnswerAgrees, TaskDenyAgrees DEF Next, Ended
<1> QED BY <1>1, <1>2, <1>3 DEF RInv

\* As long as only leaders call execve, the loop's state and the kernel's agree.
THEOREM RInvHolds == ASSUME ~ThreadExec PROVE Spec => []RInv
<1>1. Init => RInv
  BY InitTypeInv, InitCoherent DEF Init, KernelInit, RInv, IInv, AnswerAgrees, DenyAgrees, FreeIsFresh
<1>2. RInv /\ [Next]_vars => RInv'
  BY NextRInv
<1> QED BY <1>1, <1>2, PTL DEF Spec

\* GravelBox implements the mediator: calls are executed or refused as the
\* configuration and the user will have it, whatever the tasks do, as long as only
\* leaders call execve.
THEOREM RefinesMediatorHolds == ASSUME ~ThreadExec PROVE Spec => RefinesMediator
<1>1. Init => M!Init
  BY InitMediates
<1>2. RInv /\ [Next]_vars => [M!Next]_M!vars
  BY NextMediates
<1> QED BY <1>1, <1>2, RInvHolds, PTL DEF Spec, RefinesMediator, M!Spec
=============================================================================
