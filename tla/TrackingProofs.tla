--------------------------- MODULE TrackingProofs ---------------------------
(***************************************************************************)
(* Proofs about what the map of Tracer knows, whoever calls execve: that   *)
(* thread_status.at() never throws, who may be left behind, what waitpid() *)
(* waits for, and the exit code of a program that is one process.          *)
(***************************************************************************)
EXTENDS TracerProofs

-----------------------------------------------------------------------------
(***************************************************************************)
(* What a step of the whole system does to where the tasks are, to their   *)
(* groups and to the keys of the map.                                      *)
(***************************************************************************)
\* Nothing leaves the map.
Remembers == \A u \in Task : thread_status[u] # "absent" => thread_status'[u] # "absent"

\* Some tasks die, or none.
Deaths ==
  /\ leader' = leader
  /\ \A u \in Task : run'[u] = run[u] \/ (Alive(u) /\ run'[u] = "zombie")

\* Task t goes from one state to the next, the others stay.
OnlyMoves(t) == leader' = leader /\ \A u \in Task \ {t} : run'[u] = run[u]

MovesItself(t) ==
  /\ OnlyMoves(t)
  /\ \/ run[t] = "newborn" /\ run'[t] \in {"sigstop", "sigborn"}
     \/ run[t] = "user" /\ run'[t] \in {"entry", "sigstop", "signal"}
     \/ run[t] \in {"kernel", "spawned"} /\ run'[t] = "exit"
     \/ run[t] = "dethread" /\ Group(t) = {t} /\ run'[t] = "exit"

IsResumed(t) ==
  /\ OnlyMoves(t)
  /\ run[t] \in Stops /\ run'[t] = AfterResume(run[t])
  /\ \/ pc = "resume" /\ t = child
     \/ pc = "options" /\ t = Root /\ thread_status'[t] # "absent"

IsReaped(t) ==
  /\ ReapExit(t)
  /\ \A u \in Task \ {t} : thread_status[u] # "absent" => thread_status'[u] # "absent"

\* What the tasks do without GravelBox.
OwnEffect ==
  \/ Deaths
  \/ \E t \in Task : MovesItself(t) \/ BeginExec(t)
  \/ \E t, u \in Task : Spawn(t, u) \/ FinishThreadExec(t, u)

TaskEffect ==
  \/ Remembers /\ OwnEffect
  \/ Remembers /\ \E t \in Task : IsResumed(t)
  \/ \E t \in Task : IsReaped(t)

LEMMA TaskStepEffect ==
  ASSUME TypeOK, NEW t \in Task, TaskStep(t)
  PROVE  Remembers /\ OwnEffect
<1> USE DEF TypeOK, KernelTypeOK
<1>0. Remembers
  BY DEF TaskStep, Remembers
<1>1. ASSUME NEW from, NEW to, Moves(t, from, to), leader' = leader
      PROVE  OnlyMoves(t) /\ run[t] \in from /\ run'[t] = to
  BY <1>1 DEF Moves, OnlyMoves
<1>2. ASSUME NEW S, NEW st, Die(S, st), leader' = leader
      PROVE  Deaths
  BY <1>2 DEF Die, Deaths
<1>3. CASE (\E s \in Syscall : EnterSyscall(t, s)) \/ ReturnFromSyscall(t)
           \/ StopBySigstop(t) \/ StopBySignal(t) \/ FinishExec(t)
  <2>1. MovesItself(t)
    BY <1>1, <1>3
       DEF EnterSyscall, ReturnFromSyscall, StopBySigstop, StopBySignal, FinishExec, MovesItself
  <2> QED BY <1>0, <2>1 DEF OwnEffect
<1>4. CASE Sigkill(t) \/ \E c \in ExitCode : ExitThread(t, c) \/ ExitGroup(t, c)
  <2>1. Deaths
    BY <1>2, <1>4 DEF Sigkill, ExitThread, ExitGroup
  <2> QED BY <1>0, <2>1 DEF OwnEffect
<1> QED BY <1>0, <1>3, <1>4 DEF TaskStep, OwnEffect

\* GravelBox only adds to the map, but for a task that it reaps, and only
\* PTRACE_SYSCALL moves a task.
LEMMA StepEffect ==
  ASSUME TypeInv, [Next]_vars
  PROVE  TaskEffect
<1> USE DEF TypeInv, TypeOK, KernelTypeOK
<1>1. CASE UNCHANGED <<run, leader>> /\ Remembers
  BY <1>1 DEF TaskEffect, OwnEffect, Deaths
<1>2. ASSUME NEW how, Exited(how)
      PROVE  TaskEffect
  BY <1>2 DEF Exited, TaskEffect, OwnEffect, Deaths, Remembers
<1>3. ASSUME NEW how, NEW code, Closing(how, code), UNCHANGED kernelVars
      PROVE  TaskEffect
  BY <1>1, <1>3 DEF Closing, kernelVars, Remembers
<1>4. CASE TraceeGone
  BY <1>1, <1>4 DEF TraceeGone, kernelVars, Remembers
<1>5. ASSUME NEW st \in ThreadStatus, pc \in Handling, SetStatus(st)
      PROVE  Remembers
  BY <1>5 DEF SetStatus, Remembers, ThreadStatus, ChildIsHandled
<1>6. ASSUME NEW t \in Task, PtraceSyscall(t)
      PROVE  OnlyMoves(t) /\ run[t] \in Stops /\ run'[t] = AfterResume(run[t])
  BY <1>6 DEF PtraceSyscall, Moves, OnlyMoves
<1>7. CASE ChildInitFails
  BY <1>7 DEF ChildInitFails, Die, TaskEffect, OwnEffect, Deaths, Remembers
<1>8. CASE AttachChild
  <2>1. CASE ReapExit(Root) /\ Closing("child_failed", ExitStatus(status[Root]))
    BY <2>1, RootAssumption DEF Closing, IsReaped, TaskEffect
  <2>2. CASE ReportStop(Root) /\ UNCHANGED thread_status
    BY <1>1, <2>2 DEF ReportStop, Remembers
  <2> QED BY <1>2, <1>8, <2>1, <2>2 DEF AttachChild, Abort
<1>9. CASE SetOptions
  <2>1. CASE PtraceSyscall(Root) /\ thread_status' = [thread_status EXCEPT ![Root] = "USERSPACE"]
    <3>1. IsResumed(Root) /\ Remembers
      BY <1>6, <1>9, <2>1, RootAssumption DEF SetOptions, IsResumed, Remembers
    <3> QED BY <3>1, RootAssumption DEF TaskEffect
  <2> QED BY <1>3, <1>9, <2>1 DEF SetOptions
<1>10. CASE Wait
  <2>1. ASSUME NEW t \in Task, WaitStop(t)
        PROVE  TaskEffect
    BY <1>1, <2>1 DEF WaitStop, ReportStop, Remembers
  <2>2. ASSUME NEW t \in Task, WaitExit(t)
        PROVE  TaskEffect
    BY <2>2 DEF WaitExit, IsReaped, TaskEffect
  <2>3. CASE WaitPinentry
    BY <1>1, <2>3 DEF WaitPinentry, kernelVars, Remembers
  <2> QED BY <1>3, <1>10, <2>1, <2>2, <2>3 DEF Wait, WaitFails
<1>11. CASE HandleStop
  <2>1. CASE HandleSigstop \/ HandleAllowedExit \/ Allow
    <3>1. pc \in Handling /\ \E st \in ThreadStatus : SetStatus(st)
      BY <2>1 DEF HandleSigstop, HandleAllowedExit, Allow, ThreadStatus, Handling, Callback,
                  Tracked, ChildIsHandled
    <3>2. UNCHANGED <<run, leader>>
      BY <2>1 DEF HandleSigstop, HandleAllowedExit, Allow, kernelVars
    <3> QED BY <1>1, <1>5, <3>1, <3>2
  <2>2. CASE HandleDeniedExit \/ Deny
    <3>1. CASE UNCHANGED <<run, leader>> /\ \E st \in ThreadStatus : SetStatus(st)
      BY <1>1, <1>5, <2>2, <3>1 DEF HandleDeniedExit, Deny, Handling, Callback
    <3> QED BY <1>4, <2>2, <3>1 DEF HandleDeniedExit, Deny, ThreadStatus
  <2>3. CASE HandleOther \/ GetAction
    BY <1>1, <2>3 DEF HandleOther, GetAction, kernelVars, Remembers
  <2>4. CASE HandleEntry \/ ParseFails
    BY <1>1, <1>2, <1>4, <2>4 DEF HandleEntry, ParseFails, Abort, kernelVars, Remembers
  <2>5. CASE Resume
    <3>1. CASE PtraceSyscall(child) /\ UNCHANGED thread_status
      <4>1. child \in Task
        BY <2>5 DEF Resume, ChildIsHandled, Handling
      <4>2. IsResumed(child) /\ Remembers
        BY <1>6, <2>5, <3>1, <4>1 DEF Resume, IsResumed, Remembers
      <4> QED BY <4>1, <4>2 DEF TaskEffect
    <3> QED BY <1>4, <2>5, <3>1 DEF Resume
  <2> QED BY <1>11, <2>1, <2>2, <2>3, <2>4, <2>5 DEF HandleStop
<1>12. CASE Dialog
  <2>1. CASE UserAnswers \/ EnterPassword
    BY <1>1, <2>1 DEF UserAnswers, EnterPassword, kernelVars, Remembers
  <2> QED BY <1>2, <1>3, <1>12, <2>1 DEF Dialog, DialogFails, Abort
<1>13. CASE CloseUI \/ Killed
  BY <1>2, <1>13 DEF CloseUI, Killed, Abort
<1>14. CASE PinentryDies \/ UNCHANGED vars
  BY <1>1, <1>14 DEF PinentryDies, vars, kernelVars, Remembers
<1> QED BY <1>7, <1>8, <1>9, <1>10, <1>11, <1>12, <1>13, <1>14, TaskStepEffect
        DEF Next, Ended, TaskEffect

-----------------------------------------------------------------------------
(***************************************************************************)
(* The map knows every task that runs, and the leader of its group.        *)
(***************************************************************************)
\* No state that a task is resumed from lets it run before it is in the map: a
\* first stop is resumed only after it has been handled as one.
LEMMA ResumedIsEntered ==
  ASSUME TypeInv, Starting, Entered, ChildIsStopped, NEW t \in Task, IsResumed(t), Remembers
  PROVE  run'[t] = "newborn" \/ thread_status'[t] # "absent"
<1> USE DEF TypeInv, TypeOK, KernelTypeOK
<1>1. CASE pc = "options"
  BY <1>1 DEF IsResumed
<1>2. CASE pc = "resume" /\ t = child
  <2>1. CASE run[t] = "sigstop"
    BY <1>2, <2>1 DEF ChildIsStopped, Handling, Tracked, Remembers
  <2>2. CASE run[t] = "sigborn"
    BY <2>2 DEF IsResumed, AfterResume
  <2>3. CASE run[t] \in {"signal", "event", "entry", "exit"}
    BY <2>3 DEF Entered, InKernel, Tracked, Remembers
  <2> QED BY <2>1, <2>2, <2>3 DEF IsResumed, Stops
<1> QED BY <1>1, <1>2 DEF IsResumed

LEMMA NextEntered ==
  ASSUME TypeInv, Starting, Entered, LeaderTracked, ChildIsStopped, [Next]_vars
  PROVE  Entered'
<1> DEFINE Inside == {"user", "signal", "entry", "exit"} \cup InKernel
<1> SUFFICES ASSUME NEW u \in Task, run'[u] \in Inside
             PROVE  thread_status'[u] # "absent"
  BY DEF Entered, Tracked
<1> USE DEF TypeInv, TypeOK, KernelTypeOK, InKernel
<1>1. run[u] \in Inside => thread_status[u] # "absent"
  BY DEF Entered, Tracked
<1>2. CASE Remembers /\ Deaths
  BY <1>1, <1>2 DEF Deaths, Remembers
<1>3. ASSUME NEW t \in Task, Remembers, MovesItself(t)
      PROVE  thread_status'[u] # "absent"
  BY <1>1, <1>3 DEF MovesItself, OnlyMoves, Remembers
<1>4. ASSUME NEW t \in Task, Remembers, IsResumed(t)
      PROVE  thread_status'[u] # "absent"
  <2>1. CASE u = t
    BY <1>4, <2>1, ResumedIsEntered
  <2> QED BY <1>1, <1>4, <2>1 DEF IsResumed, OnlyMoves, Remembers
<1>5. ASSUME NEW t \in Task, Remembers, BeginExec(t)
      PROVE  thread_status'[u] # "absent"
  BY <1>1, <1>5 DEF BeginExec, Executing, Remembers
<1>6. ASSUME NEW t \in Task, NEW v \in Task, Remembers, Spawn(t, v)
      PROVE  thread_status'[u] # "absent"
  BY <1>1, <1>6 DEF Spawn, Executing, Remembers
<1>7. ASSUME NEW t \in Task, NEW l \in Task, Remembers, FinishThreadExec(t, l)
      PROVE  thread_status'[u] # "absent"
  BY <1>1, <1>7 DEF FinishThreadExec, LeaderTracked, Tracked, Remembers
<1>8. ASSUME NEW t \in Task, IsReaped(t)
      PROVE  thread_status'[u] # "absent"
  BY <1>1, <1>8 DEF IsReaped, ReapExit
<1> QED BY <1>2, <1>3, <1>4, <1>5, <1>6, <1>7, <1>8, StepEffect DEF TaskEffect, OwnEffect

\* Of the leader l of a task: it is not reaped, in the map, and its own leader.
LEMMA NextLeaderTracked ==
  ASSUME TypeInv, Entered, LeaderTracked, [Next]_vars
  PROVE  LeaderTracked'
<1> USE DEF TypeInv, TypeOK, KernelTypeOK
<1> SUFFICES ASSUME NEW u \in Task, run'[u] # "free", leader'[u] # u
             PROVE  /\ thread_status'[leader'[u]] # "absent" /\ run'[leader'[u]] # "free"
                    /\ leader'[leader'[u]] = leader'[u]
  <2>1. \A u \in Task : leader'[u] \in Task
    BY NextTypeOK
  <2> QED BY <2>1 DEF LeaderTracked, Tracked
<1> DEFINE Led(l) == /\ thread_status'[l] # "absent" /\ run'[l] # "free" /\ leader'[l] = l
<1>1. run[u] # "free" /\ leader[u] # u =>
        leader[u] \in Task /\ thread_status[leader[u]] # "absent" /\ run[leader[u]] # "free"
        /\ leader[leader[u]] = leader[u]
  BY DEF LeaderTracked, Tracked
<1>2. CASE Remembers /\ leader' = leader /\ \A v \in Task : run'[v] = "free" <=> run[v] = "free"
  BY <1>1, <1>2 DEF Remembers
<1>3. CASE Deaths /\ Remembers
  BY <1>2, <1>3 DEF Deaths, Alive
<1>4. ASSUME NEW t \in Task, Remembers, MovesItself(t)
      PROVE  Led(leader'[u])
  BY <1>2, <1>4 DEF MovesItself, OnlyMoves
<1>5. ASSUME NEW t \in Task, Remembers, IsResumed(t)
      PROVE  Led(leader'[u])
  BY <1>2, <1>5 DEF IsResumed, OnlyMoves, Stops, AfterResume
<1>6. ASSUME NEW t \in Task, Remembers, BeginExec(t)
      PROVE  Led(leader'[u])
  <2>1. run[t] = "kernel" /\ run'[t] = "dethread" /\ leader' = leader
    BY <1>6 DEF BeginExec, Executing
  <2>2. \A v \in Task : run'[v] = "free" <=> run[v] = "free"
    BY <1>6, <2>1 DEF BeginExec, Group
  <2> QED BY <1>2, <1>6, <2>1, <2>2
<1>7. ASSUME NEW t \in Task, NEW v \in Task, Remembers, Spawn(t, v)
      PROVE  Led(leader'[u])
  <2>1. /\ run[t] = "kernel" /\ run[v] = "free" /\ t # v /\ thread_status[t] # "absent"
        /\ run' = [run EXCEPT ![t] = "event", ![v] = "newborn"]
        /\ leader' = [leader EXCEPT ![v] = IF Executing(t, "clone") THEN leader[t] ELSE v]
    BY <1>7 DEF Spawn, Executing, Entered, InKernel, Tracked
  <2>2. CASE u # v
    <3>1. leader[u] # v /\ leader'[u] = leader[u] /\ run[u] # "free"
      BY <1>1, <2>1, <2>2
    <3> QED BY <1>1, <1>7, <2>1, <2>2, <3>1 DEF Remembers
  <2>3. CASE u = v
    <3>1. leader'[u] = leader[t] /\ leader[t] \in Task
      BY <2>1, <2>3
    <3>2. CASE leader[t] = t
      BY <1>7, <2>1, <3>1, <3>2 DEF Remembers
    <3>3. CASE leader[t] # t
      <4>1. thread_status[leader[t]] # "absent" /\ run[leader[t]] # "free"
            /\ leader[leader[t]] = leader[t]
        BY <2>1, <3>3 DEF LeaderTracked, Tracked
      <4> QED BY <1>7, <2>1, <3>1, <4>1 DEF Remembers
    <3> QED BY <3>2, <3>3
  <2> QED BY <2>2, <2>3
<1>8. ASSUME NEW t \in Task, NEW l \in Task, Remembers, FinishThreadExec(t, l)
      PROVE  Led(leader'[u])
  <2>1. /\ run[t] = "dethread" /\ l # t /\ leader[t] = l /\ Group(t) = {t, l}
        /\ run' = [run EXCEPT ![l] = "exit", ![t] = "free"]
        /\ leader' = [leader EXCEPT ![t] = t]
    BY <1>8 DEF FinishThreadExec
  <2>2. u # t /\ run[u] # "free" /\ leader'[u] = leader[u]
    <3>1. run[l] = "zombie"
      BY <1>8 DEF FinishThreadExec
    <3> QED BY <2>1, <3>1
  <2>3. leader[u] # t
    BY <1>1, <2>1, <2>2
  <2> QED BY <1>1, <1>8, <2>1, <2>2, <2>3 DEF Remembers
<1>9. ASSUME NEW t \in Task, IsReaped(t)
      PROVE  Led(leader'[u])
  <2>1. u # t /\ run[u] # "free" /\ leader'[u] = leader[u]
    BY <1>9 DEF IsReaped, ReapExit
  <2>2. leader[u] # t
    <3> SUFFICES ASSUME leader[u] = t
                 PROVE  FALSE
      OBVIOUS
    <3>1. leader[t] = t /\ u \in Group(t)
      BY <1>1, <2>1 DEF Group
    <3> QED BY <1>9, <2>1, <3>1 DEF IsReaped, ReapExit, ExitReady
  <2> QED BY <1>1, <1>9, <2>1, <2>2 DEF IsReaped, ReapExit
<1> QED BY <1>3, <1>4, <1>5, <1>6, <1>7, <1>8, <1>9, StepEffect DEF TaskEffect, OwnEffect

-----------------------------------------------------------------------------
(***************************************************************************)
(* The task whose stop is being handled.                                   *)
(***************************************************************************)
\* GravelBox goes on with the same task, and is done with it only when it is in
\* the map or its stop is of no interest.
GoesOnWithChild ==
  /\ pc \in Handling /\ pc' \notin {"stopped", "wait"}
  /\ UNCHANGED <<child, wstatus, run>> /\ Remembers
  /\ pc' = "resume" => wstatus = "OTHER" \/ thread_status'[child] # "absent"

LoopEffect ==
  \/ pc' \notin Handling
  \/ UNCHANGED <<pc, child, wstatus>> /\ Remembers /\ OwnEffect
  \/ \E t \in Task : WaitStop(t)
  \/ GoesOnWithChild

LEMMA StepLoopEffect ==
  ASSUME TypeInv, [Next]_vars
  PROVE  LoopEffect
<1> USE DEF TypeInv, TypeOK
<1>1. CASE pc' \in {"attach", "options", "wait", "closing", "exited"}
  BY <1>1 DEF LoopEffect, Handling, Callback
<1>2. CASE UNCHANGED vars
  BY <1>2 DEF vars, kernelVars, loopVars, LoopEffect, OwnEffect, Deaths, Remembers
<1>3. CASE ChildInitFails \/ AttachChild \/ SetOptions
  BY <1>1, <1>3 DEF ChildInitFails, AttachChild, SetOptions, Closing, Abort, Exited, loopVars
<1>4. CASE Wait
  BY <1>1, <1>4 DEF Wait, WaitExit, WaitPinentry, WaitFails, Closing, loopVars, LoopEffect
<1>5. CASE HandleStop
  <2>1. ASSUME NEW how, Abort(how) \/ TraceeGone
        PROVE  LoopEffect
    BY <1>1, <2>1 DEF Abort, Exited, TraceeGone, StopHandled
  <2>2. ASSUME NEW st \in ThreadStatus, pc \in Handling, SetStatus(st), UNCHANGED run, GoTo("resume")
        PROVE  LoopEffect
    BY <2>2 DEF SetStatus, GoTo, GoesOnWithChild, LoopEffect, Remembers, ThreadStatus, ChildIsHandled
  <2>3. CASE HandleSigstop
    <3>1. IF child \in Tracked THEN thread_status[child] \in ThreadStatus ELSE TRUE
      BY <2>3 DEF HandleSigstop, Tracked, ChildIsHandled, Handling
    <3> QED BY <2>2, <2>3, <3>1 DEF HandleSigstop, ThreadStatus, Handling, kernelVars
  <2>4. CASE HandleAllowedExit \/ Allow
    BY <2>2, <2>4 DEF HandleAllowedExit, Allow, ThreadStatus, Handling, Callback, kernelVars
  <2>5. CASE HandleDeniedExit \/ Deny
    BY <2>1, <2>2, <2>5 DEF HandleDeniedExit, Deny, ThreadStatus, Handling, Callback
  <2>6. CASE HandleOther
    BY <2>6 DEF HandleOther, GoTo, kernelVars, GoesOnWithChild, LoopEffect, Remembers, Handling
  <2>7. CASE GetAction
    <3>1. pc' \in {"allow", "deny", "ask"}
      BY <2>7, PolicyAssumption DEF GetAction, GoTo, CallbackHasCall, Callback, Action
    <3> QED BY <2>7, <3>1
            DEF GetAction, GoTo, kernelVars, GoesOnWithChild, LoopEffect, Remembers, Handling, Callback
  <2>8. CASE HandleEntry
    BY <2>1, <2>8
       DEF HandleEntry, kernelVars, GoesOnWithChild, LoopEffect, Remembers, Handling, Callback
  <2>9. CASE ParseFails \/ Resume
    BY <1>1, <2>1, <2>9 DEF ParseFails, Resume, StopHandled
  <2> QED BY <1>5, <2>3, <2>4, <2>5, <2>6, <2>7, <2>8, <2>9 DEF HandleStop
<1>6. CASE Dialog
  <2>1. CASE UserAnswers \/ EnterPassword
    BY <2>1 DEF UserAnswers, EnterPassword, GoTo, kernelVars, GoesOnWithChild, LoopEffect, Remembers,
                Handling, Callback
  <2> QED BY <1>1, <1>6, <2>1 DEF Dialog, DialogFails, Closing, Abort, Exited
<1>7. CASE CloseUI \/ Killed
  BY <1>1, <1>7 DEF CloseUI, Killed, Abort, Exited
<1>8. CASE PinentryDies
  BY <1>8 DEF PinentryDies, kernelVars, loopVars, LoopEffect, OwnEffect, Deaths, Remembers
<1>9. ASSUME NEW t \in Task, TaskStep(t)
      PROVE  LoopEffect
  BY <1>9, TaskStepEffect DEF LoopEffect, TaskStep, loopVars
<1> QED BY <1>2, <1>3, <1>4, <1>5, <1>6, <1>7, <1>8, <1>9 DEF Next, Ended

\* A task that is stopped or dead moves by itself only to its death; a dead
\* leader comes back at the end of an execve.
LEMMA StoppedStays ==
  ASSUME TypeOK, OwnEffect, NEW c \in Task, run[c] \in Stops \cup {"zombie"}
  PROVE  run'[c] = run[c] \/ run'[c] = "zombie" \/ (run[c] = "zombie" /\ run'[c] = "exit")
<1> USE DEF TypeOK, KernelTypeOK, Stops
<1>1. CASE Deaths
  BY <1>1 DEF Deaths
<1>2. ASSUME NEW t \in Task, MovesItself(t)
      PROVE  run'[c] = run[c]
  BY <1>2 DEF MovesItself, OnlyMoves
<1>3. ASSUME NEW t \in Task, BeginExec(t)
      PROVE  run'[c] \in {run[c], "zombie"}
  BY <1>3 DEF BeginExec, Executing
<1>4. ASSUME NEW t \in Task, NEW u \in Task, Spawn(t, u)
      PROVE  run'[c] = run[c]
  BY <1>4 DEF Spawn, Executing
<1>5. ASSUME NEW t \in Task, NEW l \in Task, FinishThreadExec(t, l)
      PROVE  run'[c] = run[c] \/ (run[c] = "zombie" /\ run'[c] = "exit")
  BY <1>5 DEF FinishThreadExec
<1> QED BY <1>1, <1>2, <1>3, <1>4, <1>5 DEF OwnEffect

LEMMA NextChildIsStopped ==
  ASSUME TypeInv, Entered, ChildIsStopped, KnownThread, [Next]_vars
  PROVE  ChildIsStopped' /\ KnownThread'
<1> USE DEF TypeInv, TypeOK, KernelTypeOK, ChildIsHandled, Tracked
<1>1. CASE pc' \notin Handling
  BY <1>1 DEF ChildIsStopped, KnownThread, Handling
<1>2. CASE UNCHANGED <<pc, child, wstatus>> /\ Remembers /\ OwnEffect
  <2>1. CASE pc \in Handling
    <3>1. run'[child] = run[child] \/ run'[child] = "zombie" \/ (run[child] = "zombie" /\ run'[child] = "exit")
      BY <2>1, <1>2, StoppedStays DEF ChildIsStopped
    <3>2. ChildIsStopped'
      BY <1>2, <2>1, <3>1 DEF ChildIsStopped, Remembers, Stops
    <3> QED BY <1>2, <2>1, <3>2 DEF KnownThread, Remembers
  <2> QED BY <1>1, <1>2, <2>1
<1>3. ASSUME NEW t \in Task, WaitStop(t)
      PROVE  ChildIsStopped' /\ KnownThread'
  <2>1. /\ run[t] \in Stops /\ run' = run /\ child' = t /\ pc' = "stopped" /\ wstatus' = StopSig(run[t])
        /\ UNCHANGED thread_status
    BY <1>3 DEF WaitStop, ReportStop, StopReady, Traced
  <2>2. ChildIsStopped'
    BY <2>1 DEF ChildIsStopped, StopSig
  <2>3. KnownThread'
    BY <2>1 DEF KnownThread, Entered, StopSig, Stops
  <2> QED BY <2>2, <2>3
<1>4. CASE GoesOnWithChild
  <2>1. ChildIsStopped'
    BY <1>4 DEF GoesOnWithChild, ChildIsStopped, Remembers
  <2>2. KnownThread'
    BY <1>4 DEF GoesOnWithChild, KnownThread
  <2> QED BY <2>1, <2>2
<1> QED BY <1>1, <1>2, <1>3, <1>4, StepLoopEffect DEF LoopEffect

-----------------------------------------------------------------------------
LEMMA NextEmptyAtReturn ==
  ASSUME TypeInv, EmptyAtReturn, [Next]_vars
  PROVE  EmptyAtReturn'
<1> USE DEF TypeInv, TypeOK
<1>1. CASE UNCHANGED vars
  BY <1>1 DEF vars, loopVars, endVars, EmptyAtReturn
<1>2. CASE pc' # "closing"
  BY <1>2 DEF EmptyAtReturn
<1>3. ASSUME NEW how \in {"exception", "child_failed"}, NEW code, Closing(how, code)
      PROVE  EmptyAtReturn'
  BY <1>3 DEF Closing, EmptyAtReturn
<1>4. ASSUME NEW how, Abort(how)
      PROVE  EmptyAtReturn'
  BY <1>2, <1>4 DEF Abort, Exited
<1>5. CASE ChildInitFails
  BY <1>2, <1>5 DEF ChildInitFails, loopVars
<1>6. CASE AttachChild
  BY <1>2, <1>3, <1>4, <1>6 DEF AttachChild
<1>7. CASE SetOptions
  BY <1>2, <1>3, <1>7 DEF SetOptions
<1>8. CASE Wait
  <2>1. ASSUME NEW t \in Task, WaitExit(t)
        PROVE  EmptyAtReturn'
    <3>1. CASE Tracked \subseteq {t}
      BY <2>1, <3>1 DEF WaitExit, Tracked, EmptyAtReturn
    <3>2. CASE ~(Tracked \subseteq {t})
      BY <1>2, <2>1, <3>2 DEF WaitExit
    <3> QED BY <3>1, <3>2
  <2> QED BY <1>2, <1>3, <1>8, <2>1 DEF Wait, WaitStop, WaitPinentry, WaitFails, loopVars
<1>9. CASE HandleStop
  <2>1. CASE GetAction
    BY <1>2, <2>1, PolicyAssumption DEF GetAction, GoTo, CallbackHasCall, Callback, Action
  <2> QED
    BY <1>2, <1>4, <1>9, <2>1
       DEF HandleStop, HandleSigstop, HandleOther, HandleEntry, HandleDeniedExit,
           HandleAllowedExit, ParseFails, Allow, Deny, Resume, TraceeGone, StopHandled, GoTo
<1>10. CASE Dialog
  BY <1>2, <1>3, <1>4, <1>10 DEF Dialog, UserAnswers, EnterPassword, DialogFails, GoTo
<1>11. CASE CloseUI \/ Killed
  BY <1>2, <1>4, <1>11 DEF CloseUI, Killed, Exited
<1>12. CASE PinentryDies \/ \E t \in Task : TaskStep(t)
  BY <1>12 DEF PinentryDies, TaskStep, loopVars, endVars, EmptyAtReturn
<1> QED
  BY <1>1, <1>5, <1>6, <1>7, <1>8, <1>9, <1>10, <1>11, <1>12 DEF Next, Ended

LEMMA InitTrackInv == Init => TrackInv
BY InitTypeInv, InitCoherent, RootAssumption
   DEF Init, KernelInit, Coherent, TrackInv, LeavesNoTask, EmptyAtReturn, Entered, LeaderTracked,
       ChildIsStopped, Handling, Callback, InKernel

LEMMA NextTrackInv == TrackInv /\ [Next]_vars => TrackInv'
BY NextTypeInv, NextLeaves, NextEmptyAtReturn, NextEntered, NextLeaderTracked, NextChildIsStopped
   DEF TrackInv

LEMMA Tracking == Spec => []TrackInv
BY InitTrackInv, NextTrackInv, PTL DEF Spec

\* thread_status.at() never throws, whatever thread calls execve.
THEOREM KnownThreadHolds == Spec => []KnownThread
<1>1. TrackInv => KnownThread
  BY DEF TrackInv
<1> QED BY <1>1, Tracking, PTL

\* When run_with_callbacks() returns, the only tasks alive are new ones whose first
\* stop it has not seen.
THEOREM OnlyNewbornsLeftBehindHolds == Spec => []OnlyNewbornsLeftBehind
<1>1. TrackInv => OnlyNewbornsLeftBehind
  <2> SUFFICES ASSUME TrackInv, fate = "returned", pc = "closing", NEW t \in Task, Alive(t)
               PROVE  run[t] \in {"newborn", "sigborn", "sigstop"}
    BY DEF OnlyNewbornsLeftBehind
  <2>1. t \notin Tracked
    BY DEF TrackInv, EmptyAtReturn, Tracked
  <2>2. run[t] \in RunStates \ {"free", "zombie"}
    BY DEF TrackInv, TypeInv, TypeOK, KernelTypeOK, Alive
  <2> QED BY <2>1, <2>2 DEF TrackInv, Entered, RunStates, Stops, InKernel
<1> QED BY <1>1, Tracking, PTL

-----------------------------------------------------------------------------
(***************************************************************************)
(* waitpid() is called only when it will return.                           *)
(***************************************************************************)
InLoop == pc = "wait" \/ pc \in Handling

\* The loop begins with the child in the map, and only a reaped task leaves it.
LEMMA NextInLoop ==
  ASSUME TypeInv, [Next]_vars, InLoop'
  PROVE  \/ InLoop /\ Remembers
         \/ thread_status'[Root] # "absent"
         \/ \E t \in Task : WaitExit(t)
<1> USE DEF TypeInv, TypeOK
<1> DEFINE Goal == \/ InLoop /\ Remembers
                   \/ thread_status'[Root] # "absent"
                   \/ \E t \in Task : WaitExit(t)
<1>1. pc' \notin {"attach", "options", "closing", "exited"}
  BY DEF InLoop, Handling, Callback
<1>2. CASE UNCHANGED <<pc, thread_status>>
  BY <1>2 DEF InLoop, Remembers
<1>3. CASE ChildInitFails \/ AttachChild
  BY <1>1, <1>2, <1>3 DEF ChildInitFails, AttachChild, Closing, Abort, Exited, loopVars
<1>4. CASE SetOptions
  <2>1. PtraceSyscall(Root) /\ thread_status' = [thread_status EXCEPT ![Root] = "USERSPACE"]
    BY <1>1, <1>4 DEF SetOptions, Closing
  <2> QED BY <2>1, RootAssumption
<1>5. CASE Wait
  BY <1>1, <1>2, <1>5 DEF Wait, WaitStop, WaitPinentry, WaitFails, Closing, loopVars, InLoop, Remembers
<1>6. CASE HandleStop \/ Dialog
  <2>1. pc \in Handling
    BY <1>6 DEF HandleStop, HandleSigstop, HandleOther, HandleEntry, HandleDeniedExit,
                HandleAllowedExit, ParseFails, GetAction, Allow, Deny, Resume, Dialog, UserAnswers,
                EnterPassword, DialogFails, Handling, Callback
  <2>2. CASE pc' = "wait"
    <3>1. thread_status' = thread_status
      BY <1>6, <2>2
         DEF HandleStop, HandleSigstop, HandleOther, HandleEntry, HandleDeniedExit, HandleAllowedExit,
             ParseFails, GetAction, Allow, Deny, Resume, Dialog, UserAnswers, EnterPassword,
             DialogFails, TraceeGone, GoTo, Abort, Exited, Closing
    <3> QED BY <2>1, <3>1 DEF InLoop, Remembers
  <2>3. CASE pc' \in Handling
    <3>1. Remembers
      BY <2>1, <2>3, StepLoopEffect
         DEF LoopEffect, GoesOnWithChild, WaitStop, Handling, Callback
    <3> QED BY <2>1, <3>1 DEF InLoop
  <2> QED BY <2>2, <2>3 DEF InLoop
<1>7. CASE CloseUI \/ Killed
  BY <1>1, <1>7 DEF CloseUI, Killed, Abort, Exited
<1>8. CASE PinentryDies \/ UNCHANGED vars \/ \E t \in Task : TaskStep(t)
  BY <1>2, <1>8 DEF PinentryDies, TaskStep, vars, loopVars
<1> QED BY <1>3, <1>4, <1>5, <1>6, <1>7, <1>8 DEF Next, Ended

LEMMA NextLoopHasTask ==
  ASSUME TypeInv, LoopHasTask, [Next]_vars
  PROVE  LoopHasTask'
<1> SUFFICES ASSUME InLoop'
             PROVE  \E u \in Task : thread_status'[u] # "absent"
  BY DEF LoopHasTask, InLoop, Tracked
<1>1. CASE InLoop /\ Remembers
  BY <1>1 DEF LoopHasTask, InLoop, Tracked, Remembers
<1>2. ASSUME NEW t \in Task, WaitExit(t)
      PROVE  \E u \in Task : thread_status'[u] # "absent"
  <2>1. ~(Tracked \subseteq {t})
    BY <1>2 DEF WaitExit, InLoop, Handling, Callback
  <2>2. PICK u \in Task : u # t /\ thread_status[u] # "absent"
    BY <2>1 DEF Tracked
  <2> QED BY <1>2, <2>2 DEF WaitExit, TypeInv, TypeOK
<1> QED BY <1>1, <1>2, NextInLoop, RootAssumption

LEMMA NextExecKillsOthers ==
  ASSUME TypeInv, LeaderTracked, ExecKillsOthers, [Next]_vars
  PROVE  ExecKillsOthers'
<1> USE DEF TypeInv, TypeOK, KernelTypeOK
<1> SUFFICES ASSUME NEW u \in Task, NEW v \in Task, run'[u] = "dethread", v # u,
                    leader'[v] = leader'[u], run'[v] # "free"
             PROVE  run'[v] = "zombie"
  BY DEF ExecKillsOthers, Group
<1>1. run[u] = "dethread" /\ leader[v] = leader[u] /\ run[v] # "free" => run[v] = "zombie"
  BY DEF ExecKillsOthers, Group
<1>2. CASE Deaths
  BY <1>1, <1>2 DEF Deaths, Alive
<1>3. ASSUME NEW t \in Task, MovesItself(t) \/ IsResumed(t)
      PROVE  run'[v] = "zombie"
  <2>1. /\ leader' = leader /\ \A w \in Task \ {t} : run'[w] = run[w]
        /\ run[t] \notin {"free", "zombie"} /\ run'[t] # "dethread"
    BY <1>3 DEF MovesItself, IsResumed, OnlyMoves, Stops, AfterResume
  <2> QED BY <1>1, <2>1
<1>4. ASSUME NEW t \in Task, BeginExec(t)
      PROVE  run'[v] = "zombie"
  <2> DEFINE others == {w \in Group(t) \ {t} : Alive(w)}
  <2>1. /\ run[t] = "kernel" /\ leader' = leader
        /\ run' = [w \in Task |-> IF w = t THEN "dethread" ELSE IF w \in others THEN "zombie" ELSE run[w]]
    BY <1>4 DEF BeginExec, Executing
  <2> HIDE DEF others
  <2>2. CASE u = t
    <3>1. v \in others \/ run[v] = "zombie"
      BY <2>1, <2>2 DEF others, Group, Alive
    <3> QED BY <2>1, <2>2, <3>1
  <2>3. CASE u # t
    <3>1. run[u] = "dethread" /\ leader[v] = leader[u]
      BY <2>1, <2>3
    <3>2. v # t
      BY <1>1, <2>1, <3>1
    <3> QED BY <1>1, <2>1, <3>1, <3>2
  <2> QED BY <2>2, <2>3
<1>5. ASSUME NEW t \in Task, NEW w \in Task, Spawn(t, w)
      PROVE  run'[v] = "zombie"
  <2>1. /\ run[t] = "kernel" /\ run[w] = "free" /\ t # w
        /\ run' = [run EXCEPT ![t] = "event", ![w] = "newborn"]
        /\ leader' = [leader EXCEPT ![w] = IF Executing(t, "clone") THEN leader[t] ELSE w]
    BY <1>5 DEF Spawn, Executing
  <2>2. u # t /\ u # w /\ run[u] = "dethread" /\ leader'[u] = leader[u]
    BY <2>1
  <2>3. leader[t] # leader[u]
    BY <2>1, <2>2 DEF ExecKillsOthers, Group
  <2>4. leader[u] # w
    BY <2>1, <2>2 DEF LeaderTracked
  <2>5. v # w
    BY <2>1, <2>2, <2>3, <2>4
  <2>6. v # t /\ run'[v] = run[v] /\ leader'[v] = leader[v]
    BY <2>1, <2>2, <2>3, <2>5
  <2> QED BY <1>1, <2>2, <2>6
<1>6. ASSUME NEW t \in Task, NEW l \in Task, FinishThreadExec(t, l)
      PROVE  run'[v] = "zombie"
  <2>1. /\ run[t] = "dethread" /\ l # t /\ leader[t] = l /\ Group(t) = {t, l}
        /\ run' = [run EXCEPT ![l] = "exit", ![t] = "free"]
        /\ leader' = [leader EXCEPT ![t] = t]
    BY <1>6 DEF FinishThreadExec
  <2>2. u # t /\ u # l /\ run[u] = "dethread" /\ leader'[u] = leader[u]
    BY <2>1
  <2>3. leader[u] # l
    BY <2>1, <2>2 DEF Group
  <2>4. leader[l] = l
    BY <2>1 DEF LeaderTracked
  <2>5. v # l /\ v # t
    BY <2>1, <2>2, <2>3, <2>4
  <2> QED BY <1>1, <2>1, <2>2, <2>5
<1>7. ASSUME NEW t \in Task, IsReaped(t)
      PROVE  run'[v] = "zombie"
  BY <1>1, <1>7 DEF IsReaped, ReapExit
<1> QED BY <1>2, <1>3, <1>4, <1>5, <1>6, <1>7, StepEffect DEF TaskEffect, OwnEffect

LEMMA InitWaitInv == Init => WaitInv
BY InitTrackInv, InitCoherent, RootAssumption
   DEF Init, KernelInit, Coherent, WaitInv, LoopHasTask, ExecKillsOthers, Handling, Callback

LEMMA NextWaitInv == WaitInv /\ [Next]_vars => WaitInv'
BY NextTrackInv, NextReported, NextLoopHasTask, NextExecKillsOthers DEF WaitInv, TrackInv

\* While the loop waits some task is in the map, every stop that was reported has
\* been handled, and a task in execve waits for dead threads only.
THEOREM WaitInvHolds == Spec => []WaitInv
BY InitWaitInv, NextWaitInv, PTL DEF Spec

\* Some task will answer waitpid().
SomeAnswers == \E t \in Task : StopReady(t) \/ ExitReady(t) \/ GoesOn(t)

\* A task of which nothing is left to report is waited for by one of its group.
LEMMA GroupAnswers ==
  ASSUME WaitInv, pc = "wait", NEW t \in Task, run[t] # "free"
  PROVE  SomeAnswers
<1> USE DEF WaitInv, TrackInv, TypeInv, TypeOK, KernelTypeOK
<1>1. ASSUME NEW u \in Task, run[u] \in Stops
      PROVE  SomeAnswers
  <2>1. ~seen[u]
    BY <1>1, NoTaskAssumption DEF ReportedIsHandled, ChildIsHandled, Handling, Callback
  <2> QED BY <1>1, <2>1 DEF SomeAnswers, StopReady, Traced
<1>2. ASSUME NEW u \in Task, run[u] = "zombie", leader[u] # u
      PROVE  SomeAnswers
  BY <1>2 DEF SomeAnswers, ExitReady
<1>3. ASSUME NEW u \in Task, run[u] \in {"newborn", "user", "kernel", "spawned"}
      PROVE  SomeAnswers
  BY <1>3 DEF SomeAnswers, GoesOn
<1>4. ASSUME NEW u \in Task, run[u] = "dethread"
      PROVE  SomeAnswers
  <2>1. CASE \A v \in Group(u) \ {u} : v = leader[u]
    <3>1. \A v \in Group(u) \ {u} : run[v] = "zombie"
      BY <1>4 DEF ExecKillsOthers
    <3> QED BY <1>4, <2>1, <3>1 DEF SomeAnswers, GoesOn
  <2>2. ASSUME NEW v \in Group(u) \ {u}, v # leader[u]
        PROVE  SomeAnswers
    <3>1. v \in Task /\ run[v] = "zombie" /\ leader[v] = leader[u]
      BY <1>4 DEF ExecKillsOthers, Group
    <3> QED BY <1>2, <2>2, <3>1
  <2> QED BY <2>1, <2>2
<1>5. ASSUME run[t] = "zombie", leader[t] = t
      PROVE  SomeAnswers
  <2>1. CASE Group(t) = {t}
    BY <1>5, <2>1 DEF SomeAnswers, ExitReady
  <2>2. CASE Group(t) # {t}
    <3>1. t \in Group(t)
      BY <1>5 DEF Group
    <3>2. PICK u \in Group(t) : u # t
      BY <2>2, <3>1
    <3>3. u \in Task /\ run[u] # "free" /\ leader[u] # u
      BY <1>5, <3>2 DEF Group
    <3>4. run[u] \in Stops \cup {"newborn", "user", "kernel", "spawned", "dethread", "zombie"}
      BY <3>3 DEF RunStates, InKernel, Stops
    <3> QED BY <1>1, <1>2, <1>3, <1>4, <3>3, <3>4
  <2> QED BY <2>1, <2>2
<1>6. run[t] \in Stops \cup {"newborn", "user", "kernel", "spawned", "dethread", "zombie"}
  BY DEF RunStates, InKernel, Stops
<1> QED BY <1>1, <1>2, <1>3, <1>4, <1>5, <1>6

\* GravelBox and the tasks never all wait for one another: waitpid() returns, or a
\* task is under way that will make it return, unless an execve by another thread
\* than the leader has left a thread id in the map.
THEOREM WaitIsAnsweredHolds == Spec => []WaitIsAnswered
<1>1. WaitInv => WaitIsAnswered
  <2> SUFFICES ASSUME WaitInv, pc = "wait", ~\E t \in Tracked : run[t] = "free"
               PROVE  SomeAnswers
    BY DEF WaitIsAnswered, SomeAnswers
  <2>1. PICK t \in Task : thread_status[t] # "absent"
    BY DEF WaitInv, LoopHasTask, Tracked
  <2> QED BY <2>1, GroupAnswers DEF Tracked
<1> QED BY <1>1, WaitInvHolds, PTL

\* With execve by leaders only there is no such thread id, and waitpid() is always
\* answered.
THEOREM WaitAlwaysAnswered ==
  ASSUME ~ThreadExec
  PROVE  Spec => [](pc = "wait" => SomeAnswers)
<1>1. IInv /\ WaitIsAnswered => (pc = "wait" => SomeAnswers)
  <2>1. IInv => \A t \in Task : run[t] = "free" => thread_status[t] = "absent"
    BY DEF IInv, Coherent, StatusAgrees
  <2> QED BY <2>1 DEF WaitIsAnswered, SomeAnswers, Tracked
<1>2. Spec => []IInv
  BY Invariance
<1> QED BY <1>1, <1>2, WaitIsAnsweredHolds, PTL

-----------------------------------------------------------------------------
(***************************************************************************)
(* The exit code of a target that creates threads, but no processes.       *)
(***************************************************************************)
LEMMA NextOneProcess ==
  ASSUME NoFork, TypeInv, OneProcess, [Next]_vars
  PROVE  OneProcess'
<1> USE DEF TypeInv, TypeOK, KernelTypeOK
<1> SUFFICES ASSUME NEW u \in Task, run'[u] # "free"
             PROVE  leader'[u] = Root
  BY DEF OneProcess
<1>1. run[u] # "free" => leader[u] = Root
  BY DEF OneProcess
<1>2. CASE Deaths
  BY <1>1, <1>2 DEF Deaths, Alive
<1>3. ASSUME NEW t \in Task, MovesItself(t) \/ IsResumed(t) \/ BeginExec(t)
      PROVE  leader'[u] = Root
  <2>1. leader' = leader /\ (run[u] = "free" => run'[u] = "free")
    BY <1>3 DEF MovesItself, IsResumed, OnlyMoves, Stops, BeginExec, Executing, Group, Alive
  <2> QED BY <1>1, <2>1
<1>4. ASSUME NEW t \in Task, NEW v \in Task, Spawn(t, v)
      PROVE  leader'[u] = Root
  <2>1. Executing(t, "clone") /\ run[t] # "free"
    BY <1>4 DEF Spawn, Executing, NoFork
  <2> QED BY <1>1, <1>4, <2>1 DEF Spawn, OneProcess
<1>5. ASSUME NEW t \in Task, NEW l \in Task, FinishThreadExec(t, l)
      PROVE  leader'[u] = Root
  BY <1>1, <1>5 DEF FinishThreadExec
<1>6. ASSUME NEW t \in Task, IsReaped(t)
      PROVE  leader'[u] = Root
  BY <1>1, <1>6 DEF IsReaped, ReapExit
<1> QED BY <1>2, <1>3, <1>4, <1>5, <1>6, StepEffect DEF TaskEffect, OwnEffect

\* The child, as the leader of all, is the last to be reaped.
LEMMA RootIsLast ==
  ASSUME LeaderTracked, OneProcess, run[Root] = "free"
  PROVE  \A t \in Task : run[t] = "free"
BY DEF LeaderTracked, OneProcess

LEMMA NextRootTracked ==
  ASSUME TypeInv, LeaderTracked, OneProcess, RootTracked, [Next]_vars
  PROVE  RootTracked'
<1> USE RootAssumption DEF TypeInv, TypeOK, KernelTypeOK
<1> SUFFICES ASSUME InLoop'
             PROVE  run'[Root] = "free" \/ thread_status'[Root] # "absent"
  BY DEF RootTracked, InLoop, Tracked
<1>1. CASE InLoop /\ Remembers
  <2>1. CASE thread_status[Root] # "absent"
    BY <1>1, <2>1 DEF Remembers
  <2>2. CASE run[Root] = "free"
    <3>1. \A t \in Task : run[t] = "free"
      BY <2>2, RootIsLast
    <3> QED BY <3>1, StepEffect
            DEF TaskEffect, OwnEffect, Deaths, MovesItself, IsResumed, BeginExec, Executing, Spawn,
                FinishThreadExec, IsReaped, ReapExit, ExitReady, Stops, Alive
  <2> QED BY <1>1, <2>1, <2>2 DEF RootTracked, InLoop, Tracked
<1>2. ASSUME NEW t \in Task, WaitExit(t)
      PROVE  run'[Root] = "free" \/ thread_status'[Root] # "absent"
  BY <1>2 DEF WaitExit, ReapExit, RootTracked, Tracked
<1> QED BY <1>1, <1>2, NextInLoop

\* The loop returns when the last task in the map has been reaped.
LEMMA NextReturned ==
  ASSUME TypeInv, [Next]_vars, fate' = "returned"
  PROVE  \/ fate = "returned"
         \/ \E t \in Task : WaitExit(t) /\ Tracked \subseteq {t} /\ rc' = ExitStatus(status[t])
                            /\ pc' = "closing"
<1>1. CASE UNCHANGED fate
  BY <1>1
<1>2. CASE ChildInitFails \/ AttachChild \/ SetOptions
  BY <1>1, <1>2 DEF ChildInitFails, AttachChild, SetOptions, Closing, Abort, Exited, endVars
<1>3. CASE Wait
  <2>1. ASSUME NEW t \in Task, WaitExit(t), fate # "returned"
        PROVE  Tracked \subseteq {t} /\ rc' = ExitStatus(status[t]) /\ pc' = "closing"
    BY <2>1 DEF WaitExit
  <2> QED BY <1>1, <1>3, <2>1 DEF Wait, WaitStop, WaitPinentry, WaitFails, Closing, endVars
<1>4. CASE HandleStop
  BY <1>1, <1>4
     DEF HandleStop, HandleSigstop, HandleOther, HandleEntry, HandleDeniedExit, HandleAllowedExit,
         ParseFails, GetAction, Allow, Deny, Resume, TraceeGone, Abort, Exited, endVars
<1>5. CASE Dialog \/ CloseUI \/ Killed
  BY <1>1, <1>5 DEF Dialog, UserAnswers, EnterPassword, DialogFails, CloseUI, Killed, Closing, Abort,
                    Exited, endVars
<1>6. CASE PinentryDies \/ UNCHANGED vars \/ \E t \in Task : TaskStep(t)
  BY <1>1, <1>6 DEF PinentryDies, TaskStep, vars, endVars
<1> QED BY <1>2, <1>3, <1>4, <1>5, <1>6 DEF Next, Ended

LEMMA NextReturnedWithCode ==
  ASSUME TypeInv, LeaderTracked, OneProcess, RootTracked, ReturnedWithCode, [Next]_vars
  PROVE  ReturnedWithCode'
<1> USE RootAssumption DEF TypeInv, TypeOK, KernelTypeOK
<1> SUFFICES ASSUME fate' = "returned"
             PROVE  /\ pc' \in {"closing", "exited"} /\ rc' = ExitStatus(status'[Root])
                    /\ \A t \in Task : run'[t] = "free"
  BY DEF ReturnedWithCode, ExitStatus
<1>1. CASE fate = "returned"
  <2>1. pc \in {"closing", "exited"} /\ (\A t \in Task : run[t] = "free") /\ rc = ExitStatus(status[Root])
    BY <1>1 DEF ReturnedWithCode
  <2>2. ASSUME UNCHANGED <<pc, run, status, rc>>
        PROVE  /\ pc' \in {"closing", "exited"} /\ rc' = ExitStatus(status'[Root])
               /\ \A t \in Task : run'[t] = "free"
    BY <2>1, <2>2
  <2>3. CASE CloseUI \/ Killed
    BY <2>1, <2>3 DEF CloseUI, Killed, Abort, Exited, Alive
  <2>4. CASE PinentryDies \/ UNCHANGED vars
    BY <2>2, <2>4 DEF PinentryDies, vars, kernelVars, loopVars, endVars
  <2>5. ASSUME NEW t \in Task, TaskStep(t)
        PROVE  FALSE
    BY <2>1, <2>5
       DEF TaskStep, EnterSyscall, FinishThreadExec, ReturnFromSyscall, Spawn, StopBySigstop,
           StopBySignal, ExitThread, ExitGroup, Sigkill, BeginExec, FinishExec, Moves, Alive, Executing
  <2> QED BY <2>1, <2>3, <2>4, <2>5
          DEF Next, Ended, ChildInitFails, AttachChild, SetOptions, Wait, WaitStop, WaitExit, WaitPinentry,
              WaitFails, HandleStop, HandleSigstop, HandleOther, HandleEntry, HandleDeniedExit,
              HandleAllowedExit, ParseFails, GetAction, Allow, Deny, Resume, Dialog, UserAnswers,
              EnterPassword, DialogFails
<1>2. ASSUME NEW t \in Task, WaitExit(t), Tracked \subseteq {t}, rc' = ExitStatus(status[t]), pc' = "closing"
      PROVE  /\ pc' \in {"closing", "exited"} /\ rc' = ExitStatus(status'[Root])
             /\ \A u \in Task : run'[u] = "free"
  <2>1. pc = "wait" /\ run[t] = "zombie" /\ run' = [run EXCEPT ![t] = "free"] /\ status' = status
        /\ (leader[t] = t => Group(t) = {t})
    BY <1>2 DEF WaitExit, ReapExit, ExitReady
  <2>2. run[Root] # "free"
    BY <2>1, RootIsLast
  <2>3. t = Root
    BY <1>2, <2>1, <2>2 DEF RootTracked, Tracked
  <2>4. \A u \in Task \ {t} : run[u] = "free"
    BY <2>1, <2>2, <2>3 DEF OneProcess, Group
  <2> QED BY <1>2, <2>1, <2>3, <2>4
<1> QED BY <1>1, <1>2, NextReturned

LEMMA InitExitCodeInv == Init => ExitCodeInv
BY InitTrackInv, RootAssumption
   DEF Init, KernelInit, ExitCodeInv, OneProcess, RootTracked, ReturnedWithCode, Handling, Callback

\* The child stays in the map until it is reaped, it is reaped last, and the loop
\* ends with it.
THEOREM ExitCodeInvHolds ==
  ASSUME NoFork
  PROVE  Spec => []ExitCodeInv
<1>1. ExitCodeInv /\ [Next]_vars => ExitCodeInv'
  BY NextTrackInv, NextOneProcess, NextRootTracked, NextReturnedWithCode DEF ExitCodeInv, TrackInv
<1> QED BY InitExitCodeInv, <1>1, PTL DEF Spec

\* run_with_callbacks() returns the exit code of the child process if the target
\* creates no other process, however many threads it has and whichever of them
\* calls execve, exits, or is killed.
THEOREM ReturnsExitCodeOfChildHolds ==
  ASSUME NoFork
  PROVE  Spec => []ReturnsExitCodeOfChild
<1>1. ExitCodeInv => ReturnsExitCodeOfChild
  BY DEF ExitCodeInv, ReturnedWithCode, ReturnsExitCodeOfChild
<1> QED BY <1>1, ExitCodeInvHolds, PTL
=============================================================================
