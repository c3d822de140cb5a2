----------------------------- MODULE UserDialog -----------------------------
(***************************************************************************)
(* What a PinentryUI object promises to the program that uses it, without  *)
(* process, pipes or protocol: it is opened once; an operation shows the   *)
(* user one question, at most once, and returns what the user did at it, a *)
(* password in the form in which the object hears it; after a failure      *)
(* nothing is asked any more.  A dialog that answers in the user's place   *)
(* is void: it may have any result but a refusal.  Pinentry implements     *)
(* this specification (PinentryRefinement).                                *)
(***************************************************************************)
CONSTANTS
  Secret,   \* what the user may type into a password dialog
  Texts,    \* what a password may be heard as
  Empty,    \* the empty string
  Heard     \* the form in which a password, or the empty string, is heard

VARIABLES
  phase,    \* the operation the object is in
  act,      \* what the user has done in it
  outcome   \* what the last operation returned

vars == <<phase, act, outcome>>

Questions == {"confirm", "getpin"}
Nothing == [is |-> "none", text |-> Empty]

Init == phase = "opening" /\ act = "none" /\ outcome = Nothing

Opened ==
  /\ phase = "opening" /\ phase' = "idle"
  /\ UNCHANGED <<act, outcome>>

\* An answer does not outlive the next operation.
Begin ==
  /\ phase = "idle" /\ phase' \in Questions \cup {"closing"}
  /\ act' = "none" /\ outcome' = Nothing

\* The user closes the dialog of the operation, by one button or the other, or
\* the dialog answers by itself.
UserActs ==
  /\ act = "none"
  /\ \/ phase = "confirm" /\ act' \in {"allow", "deny", "void"}
     \/ phase = "getpin" /\ act' \in Secret \cup {Empty, "cancel", "void"}
  /\ UNCHANGED <<phase, outcome>>

Return ==
  /\ \/ phase = "confirm" /\ act \in {"allow", "void"}
        /\ outcome' = [is |-> "yes", text |-> Empty]
     \/ phase = "getpin" /\ act \in Secret \cup {Empty}
        /\ outcome' = [is |-> "password", text |-> Heard[act]]
     \/ phase = "getpin" /\ act = "void"
        /\ \E t \in Texts : outcome' = [is |-> "password", text |-> t]
     \/ phase \in Questions /\ act \in {"deny", "cancel"}
        /\ outcome' = [is |-> "no", text |-> Empty]
  /\ phase' = "idle"
  /\ UNCHANGED act

\* An exception: the object is destroyed before anything else is asked.
Fail ==
  /\ phase \in Questions /\ phase' = "closing"
  /\ UNCHANGED <<act, outcome>>

\* The object, or the whole program, is gone.
End ==
  /\ phase \in Questions \cup {"opening", "closing"} /\ phase' = "over"
  /\ UNCHANGED <<act, outcome>>

Next == Opened \/ Begin \/ UserActs \/ Return \/ Fail \/ End

Spec == Init /\ [][Next]_vars
=============================================================================
