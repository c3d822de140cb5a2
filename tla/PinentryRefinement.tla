------------------------- MODULE PinentryRefinement -------------------------
(***************************************************************************)
(* Pinentry implements UserDialog: the refinement mapping.  The phase is   *)
(* read off the operation; what the user did and what was returned are     *)
(* variables of both.                                                      *)
(***************************************************************************)
EXTENDS Pinentry

PhaseOf(p, o) ==
  CASE p \in Ends                                                 -> "over"
    [] p = "idle"                                                 -> "idle"
    [] p \notin Ends \cup {"idle"} /\ o = "open"                 -> "opening"
    [] p \notin Ends \cup {"idle"} /\ o = "confirm"              -> "confirm"
    [] p \notin Ends \cup {"idle"} /\ o \in {"getpin", "retry"}  -> "getpin"
    [] p \notin Ends \cup {"idle"} /\ o = "close"                -> "closing"

phaseBar == PhaseOf(pc, op)

D == INSTANCE UserDialog WITH phase <- phaseBar, act <- user, outcome <- result

\* However the pipes are used and whatever pinentry does, the user is asked one
\* question in each operation that asks one, at most once and never between
\* operations or after a failure.  The operation returns that answer, a password in
\* the form in which recv() hears it, or throws; or pinentry answers by itself.
RefinesUserDialog == D!Spec

-----------------------------------------------------------------------------
(***************************************************************************)
(* What the proof needs besides the invariant of PinentryProofs.           *)
(***************************************************************************)
\* The user has not acted before pinentry has read the command of the dialog.
ActsOnce ==
  /\ op # "close" /\ pc \notin Ends
  /\ toPin # <<>> \/ pc \in {"start", "send"} \/ (pc = "recv" /\ Command \notin Dialogs)
  => user = "none"

\* Once the object is being destroyed no dialog is on its way to pinentry.
OnlyBye ==
  (op = "close" \/ pc \in Ends) /\ helper = "running" =>
    \A i \in 1 .. Len(toPin) : toPin[i] = "BYE"

\* An operation that has not ended has returned nothing.
NoResultYet ==
  pc \in {"start", "send", "recv", "wait"} => result = [is |-> "none", text |-> Empty]
=============================================================================
