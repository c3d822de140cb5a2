------------------------------ MODULE Mediator ------------------------------
(***************************************************************************)
(* What GravelBox promises about the system calls of the program it runs,  *)
(* without saying how: no stops, no thread map, no loop.  A task asks for  *)
(* a call, the call is granted or refused as the configuration and the     *)
(* user will have it, and only a granted call has effects.  Tracer         *)
(* implements this specification (TracerRefinement).                       *)
(***************************************************************************)
CONSTANTS Task, Root, Syscall, NoSyscall, Policy, HasPassword

VARIABLES
  phase,   \* what GravelBox and the kernel are doing for each task
  call,    \* the system call that the task asks for
  say,     \* what the user has said of it
  result   \* what the task has got from its last call

vars == <<phase, call, say, result>>

Phases == {"absent", "idle", "requested", "granted", "executing", "refused"}

Init ==
  /\ phase = [t \in Task |-> IF t = Root THEN "idle" ELSE "absent"]
  /\ call = [t \in Task |-> NoSyscall]
  /\ say = [t \in Task |-> "none"]
  /\ result = [t \in Task |-> IF t = Root THEN "value" ELSE "none"]

Request(t) ==
  /\ phase[t] = "idle"
  /\ phase' = [phase EXCEPT ![t] = "requested"]
  /\ \E s \in Syscall : call' = [call EXCEPT ![t] = s]
  /\ result' = [result EXCEPT ![t] = "none"]
  /\ UNCHANGED say

\* The user is asked only about calls that the configuration leaves open, says
\* yes or no once, and after a yes gives the password or gives up.
Say(t) ==
  /\ phase[t] = "requested" /\ Policy[call[t]] = "ASK"
  /\ \/ say[t] = "none" /\ \E what \in {"yes", "no"} : say' = [say EXCEPT ![t] = what]
     \/ /\ say[t] = "yes" /\ HasPassword
        /\ \E what \in {"auth", "no"} : say' = [say EXCEPT ![t] = what]
  /\ UNCHANGED <<phase, call, result>>

Permitted(t) ==
  \/ Policy[call[t]] = "ALLOW"
  \/ Policy[call[t]] = "ASK" /\ say[t] = IF HasPassword THEN "auth" ELSE "yes"

Forbidden(t) ==
  \/ Policy[call[t]] = "DENY"
  \/ Policy[call[t]] = "ASK" /\ say[t] = "no"

Grant(t) ==
  /\ phase[t] = "requested" /\ Permitted(t)
  /\ phase' = [phase EXCEPT ![t] = "granted"]
  /\ UNCHANGED <<call, say, result>>

Refuse(t) ==
  /\ phase[t] = "requested" /\ Forbidden(t)
  /\ phase' = [phase EXCEPT ![t] = "refused"]
  /\ call' = [call EXCEPT ![t] = NoSyscall]
  /\ UNCHANGED <<say, result>>

Execute(t) ==
  /\ phase[t] = "granted"
  /\ phase' = [phase EXCEPT ![t] = "executing"]
  /\ UNCHANGED <<call, say, result>>

\* Back in the program, an executed call has its own result, a refused one EPERM.
Return(t) ==
  /\ phase[t] \in {"executing", "refused"}
  /\ phase' = [phase EXCEPT ![t] = "idle"]
  /\ result' = [result EXCEPT ![t] = IF phase[t] = "refused" THEN "EPERM" ELSE "value"]
  /\ call' = [call EXCEPT ![t] = NoSyscall]
  /\ say' = [say EXCEPT ![t] = "none"]

\* New tasks come only from a call that is being executed.
Create(t, u) ==
  /\ phase[t] = "executing" /\ phase[u] = "absent"
  /\ phase' = [phase EXCEPT ![u] = "idle"]
  /\ result' = [result EXCEPT ![u] = "value"]
  /\ UNCHANGED <<call, say>>

Same(t) ==
  /\ phase'[t] = phase[t] /\ call'[t] = call[t]
  /\ say'[t] = say[t] /\ result'[t] = result[t]

Gone(t) ==
  /\ phase'[t] = "absent" /\ call'[t] = NoSyscall
  /\ say'[t] = "none" /\ result'[t] = "none"

\* Tasks may die at any time, several of them at once.
Vanish == \A t \in Task : Same(t) \/ Gone(t)

Next ==
  \/ Vanish
  \/ \E t \in Task :
       \/ Request(t) \/ Say(t) \/ Grant(t) \/ Refuse(t) \/ Execute(t) \/ Return(t)
       \/ \E u \in Task : Create(t, u)

Spec == Init /\ [][Next]_vars
=============================================================================
