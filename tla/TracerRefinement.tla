-------------------------- MODULE TracerRefinement --------------------------
(***************************************************************************)
(* Tracer implements Mediator: the refinement mapping.  It looks at what   *)
(* the kernel does with a task and, only for a task in a system call stop, *)
(* at what GravelBox has recorded of it.                                   *)
(***************************************************************************)
EXTENDS TracerInvariant

\* A call is decided when the decision is in the map, and over when the map says
\* that its exit stop was handled.
Undecided(t) == run[t] = "entry" /\ thread_status[t] = "USERSPACE"
Over(t) == run[t] = "exit" /\ thread_status[t] = "USERSPACE"
InCall(t) == run[t] \in InKernel \cup {"entry", "exit"} /\ ~Undecided(t) /\ ~Over(t)

PhaseOf(t) ==
  CASE run[t] \in {"free", "zombie"}                            -> "absent"
    [] Undecided(t)                                             -> "requested"
    [] InCall(t) /\ nr[t] = NoSyscall                           -> "refused"
    [] InCall(t) /\ nr[t] # NoSyscall /\ run[t] = "entry"       -> "granted"
    [] InCall(t) /\ nr[t] # NoSyscall /\ run[t] # "entry"       -> "executing"
    [] run[t] \in {"newborn", "user", "sigstop", "signal", "sigborn"} \/ Over(t) -> "idle"

OutsideCall == {"absent", "idle"}

phaseBar == [t \in Task |-> PhaseOf(t)]
callBar == [t \in Task |-> IF PhaseOf(t) \in OutsideCall THEN NoSyscall ELSE nr[t]]
sayBar == [t \in Task |-> IF PhaseOf(t) \in OutsideCall THEN "none" ELSE answer[t]]
resultBar ==
  [t \in Task |-> IF PhaseOf(t) # "idle" THEN "none"
                  ELSE IF rax[t] = "EPERM" THEN "EPERM" ELSE "value"]

M == INSTANCE Mediator
       WITH phase <- phaseBar, call <- callBar, say <- sayBar, result <- resultBar

\* GravelBox mediates: every step of the loop, of the kernel and of the user is
\* a step of Mediator or changes nothing that Mediator speaks of.
RefinesMediator == M!Spec

-----------------------------------------------------------------------------
(***************************************************************************)
(* What the proof needs besides IInv (TracerInvariant).                    *)
(***************************************************************************)
\* The user's answer about a task's call, by how far the callback has come.
AnswerAgrees ==
  \A t \in Task :
    run[t] = "entry" /\ thread_status[t] = "USERSPACE" /\ pc \notin {"closing", "exited"} =>
      /\ child # t \/ pc \in {"stopped", "callback", "ask"} => answer[t] = "none"
      /\ child = t /\ pc \in {"password", "retry"} => answer[t] = "yes"

\* A refusal has a reason.
DenyAgrees ==
  pc = "deny" /\ Alive(child) =>
    \/ Policy[args] = "DENY"
    \/ Policy[args] = "ASK" /\ answer[child] = "no"

\* A thread id that is used again starts afresh.
FreeIsFresh == \A t \in Task : run[t] = "free" => rax[t] = "value"

RInv == IInv /\ AnswerAgrees /\ DenyAgrees /\ FreeIsFresh
=============================================================================
