---------------------------- MODULE DialogProofs ----------------------------
(***************************************************************************)
(* Proof that Pinentry implements UserDialog: for all secrets, whatever    *)
(* pinentry answers and whenever it dies, the user is asked one question   *)
(* at most once, and only within an operation that asks one.               *)
(***************************************************************************)
EXTENDS PinentryProofs, PinentryRefinement

DInv == PInv /\ ActsOnce /\ OnlyBye /\ NoResultYet

NoResult == [is |-> "none", text |-> Empty]

-----------------------------------------------------------------------------
(***************************************************************************)
(* The commands.                                                           *)
(***************************************************************************)
\* The dialog is the last command of the operation that asks its question.
LEMMA DialogIsLast ==
  ASSUME TypeOK, Script1
  PROVE  /\ Command \in Dialogs => step = Len(Script(op))
         /\ Command = "CONFIRM" => op = "confirm"
         /\ Command = "GETPIN" => op \in {"getpin", "retry"}
         /\ op = "close" => Command = "BYE"
<1>1. op \in Ops /\ step \in 1 .. Len(Script(op))
  BY DEF TypeOK, Script1
<1>2. CASE op = "open"
  BY <1>1, <1>2 DEF Command, Script, Dialogs
<1>3. CASE op = "confirm"
  BY <1>1, <1>3 DEF Command, Script, Dialogs
<1>4. CASE op = "getpin"
  BY <1>1, <1>4 DEF Command, Script, Dialogs
<1>5. CASE op = "retry"
  BY <1>1, <1>5 DEF Command, Script, Dialogs
<1>6. CASE op = "close"
  BY <1>1, <1>6 DEF Command, Script, Dialogs
<1> QED BY <1>1, <1>2, <1>3, <1>4, <1>5, <1>6 DEF Ops

\* Where an exception leads.
LEMMA ThrowLeads ==
  ASSUME TypeOK, Throw
  PROVE  /\ result' = NoResult
         /\ \/ op \in {"open", "close"} /\ pc' \in {"exception", "terminate"} /\ op' = op
            \/ op \in {"confirm", "getpin", "retry"} /\ pc' = "send" /\ op' = "close"
<1>1. CASE op \in {"open", "close"}
  BY <1>1 DEF Throw, NoResult
<1>2. CASE op \notin {"open", "close"}
  BY <1>2 DEF Throw, NoResult, TypeOK, Ops
<1> QED BY <1>1, <1>2

\* A dialog on its way to pinentry is the one of the current operation.
LEMMA DialogIsAsked ==
  ASSUME DInv, NEW c \in Dialogs, ReadCommand(c)
  PROVE  /\ op # "close" /\ pc = "recv" /\ c = Command /\ user = "none"
         /\ toPin' = <<>>
         /\ UNCHANGED <<pc, op, step, result, helper>>
<1>1. /\ helper = "running" /\ toPin # <<>> /\ Head(toPin) = c /\ toPin' = Tail(toPin)
      /\ UNCHANGED <<pc, op, step, result, helper>>
  BY DEF ReadCommand, gravelVars
<1>2. toPin \in Seq(Commands) /\ Len(toPin) \in Nat \ {0} /\ Head(toPin) = toPin[1]
  BY <1>1, EmptySeq, LenProperties DEF DInv, PInv, TypeOK
<1>3. op # "close" /\ pc \notin Ends
  <2>1. c # "BYE"
    BY DEF Dialogs
  <2>2. 1 \in 1 .. Len(toPin)
    BY <1>2
  <2> QED BY <1>1, <1>2, <2>1, <2>2 DEF DInv, OnlyBye
<1>4. pc = "recv" /\ toPin = <<Command>>
  BY <1>1, <1>3 DEF DInv, PInv, Asked, Healthy
<1> QED BY <1>1, <1>3, <1>4 DEF DInv, ActsOnce

-----------------------------------------------------------------------------
(***************************************************************************)
(* The invariant.                                                          *)
(***************************************************************************)
LEMMA GravelBoxActsOnce ==
  ASSUME DInv, GravelBox \/ \E o \in Ops : Begin(o)
  PROVE  ActsOnce'
<1> USE DEF DInv, PInv, ActsOnce
<1>1. CASE Construct
  <2>1. pc = "start" /\ op = "open" /\ step = 1 /\ user = "none"
    BY <1>1 DEF Construct, Script1, Ends
  <2>2. user' = user
    BY <1>1 DEF Construct, helperVars
  <2> QED BY <2>1, <2>2
<1>2. CASE Send
  BY <1>2 DEF Send, Ends
<1>3. CASE RecvLine
  BY <1>3 DEF RecvLine, Takes, Command
<1>4. CASE RecvNext
  <2>1. Command \notin Dialogs
    BY <1>4, DialogIsLast, ScriptType DEF RecvNext, TypeOK
  <2> QED BY <1>4, <2>1 DEF RecvNext, Takes, Ends
<1>5. CASE RecvDone \/ RecvCancel
  <2>1. /\ pc = "recv" /\ fromPin # <<>> /\ pc' \in {"idle", "wait"} /\ op' = op /\ toPin' = toPin
        /\ op # "close" => pc' = "idle"
    BY <1>5, DialogIsLast DEF RecvDone, RecvCancel, Takes, Dialogs
  <2>2. CASE op = "close"
    BY <2>1, <2>2
  <2>3. CASE op # "close"
    <3>1. toPin = <<>>
      BY <2>1, <2>3, TakenLine DEF Healthy, Ends
    <3> QED BY <2>1, <2>3, <3>1
  <2> QED BY <2>2, <2>3
<1>6. CASE RecvError \/ RecvEof
  <2>1. Throw
    BY <1>6 DEF RecvError, RecvEof
  <2> QED BY <2>1, ThrowLeads DEF Ends
<1>7. CASE WaitHelper
  BY <1>7 DEF WaitHelper, Ends
<1>8. ASSUME NEW o \in Ops, Begin(o)
      PROVE  ActsOnce'
  BY <1>8 DEF Begin
<1> QED BY <1>1, <1>2, <1>3, <1>4, <1>5, <1>6, <1>7, <1>8 DEF GravelBox

LEMMA HelperActsOnce ==
  ASSUME DInv, Helper \/ User \/ HelperDies
  PROVE  ActsOnce'
<1>1. CASE HelperExec
  BY <1>1 DEF HelperExec, gravelVars, DInv, ActsOnce, Command
<1>2. CASE Obey
  <2>1. PICK c \in Commands \ Dialogs : ReadCommand(c) /\ UNCHANGED user
    BY <1>2 DEF Obey
  <2>2. toPin # <<>> /\ UNCHANGED <<pc, op, step>>
    BY <2>1 DEF ReadCommand, gravelVars
  <2> QED BY <2>1, <2>2 DEF DInv, ActsOnce
<1>3. CASE User
  <2>1. PICK c \in Dialogs : ReadCommand(c)
    BY <1>3 DEF User, UserConfirms, UserTypes, Dialogs
  <2> QED BY <2>1, DialogIsAsked DEF ActsOnce, Command
<1>4. CASE WriteLine \/ HelperDies
  BY <1>4 DEF WriteLine, HelperDies, gravelVars, DInv, ActsOnce, Command
<1> QED BY <1>1, <1>2, <1>3, <1>4 DEF Helper

LEMMA GravelBoxOnlyBye ==
  ASSUME DInv, GravelBox \/ \E o \in Ops : Begin(o)
  PROVE  OnlyBye'
<1> USE DEF DInv, PInv, OnlyBye
<1>0. Len(<<>>) = 0
  OBVIOUS
<1>1. CASE Construct
  <2>1. toPin = <<>>
    BY <1>1 DEF Construct, Quiet, Healthy, Script1, Nothing, Ends
  <2>2. toPin' = <<>>
    BY <1>1, <2>1 DEF Construct, helperVars
  <2> QED BY <1>0, <2>2
<1>2. CASE Send
  <2>1. /\ pc = "send" /\ UNCHANGED <<op, helper>>
        /\ pc' = "sigpipe" => helper # "running"
        /\ pc' # "sigpipe" => pc' = "recv" /\ toPin' = Append(toPin, Command)
    BY <1>2 DEF Send, HelperAlive
  <2>2. CASE pc' = "sigpipe"
    BY <2>1, <2>2
  <2>3. CASE pc' # "sigpipe" /\ op = "close" /\ helper = "running"
    <3>1. Command = "BYE" /\ toPin \in Seq(Commands) /\ "BYE" \in Commands
      BY <2>3, DialogIsLast DEF TypeOK, Commands
    <3>2. /\ Len(Append(toPin, "BYE")) = Len(toPin) + 1 /\ Len(toPin) \in Nat
          /\ \A i \in 1 .. Len(toPin) : Append(toPin, "BYE")[i] = toPin[i]
          /\ Append(toPin, "BYE")[Len(toPin) + 1] = "BYE"
      BY <3>1, AppendProperties, LenProperties
    <3>3. \A i \in 1 .. Len(toPin) : toPin[i] = "BYE"
      BY <2>3
    <3>4. toPin' = Append(toPin, "BYE")
      BY <2>1, <2>3, <3>1
    <3> QED BY <3>2, <3>3, <3>4
  <2>4. CASE pc' # "sigpipe" /\ ~(op = "close" /\ helper = "running")
    BY <2>1, <2>4 DEF Ends
  <2> QED BY <2>2, <2>3, <2>4
<1>3. CASE RecvLine \/ RecvNext \/ RecvDone \/ RecvCancel
  BY <1>3 DEF RecvLine, RecvNext, RecvDone, RecvCancel, Takes, Ends
<1>4. CASE RecvError
  <2>1. /\ Throw /\ pc = "recv" /\ fromPin # <<>> /\ UNCHANGED <<helper, toPin>>
    BY <1>4 DEF RecvError, Takes
  <2>2. CASE op = "close"
    BY <2>1, <2>2
  <2>3. CASE op # "close"
    <3>1. toPin' = <<>>
      BY <2>1, <2>3, TakenLine DEF Healthy, Ends
    <3> QED BY <1>0, <3>1
  <2> QED BY <2>2, <2>3
<1>5. CASE RecvEof \/ WaitHelper
  BY <1>5 DEF RecvEof, WaitHelper, HelperAlive, helperVars
<1>6. ASSUME NEW o \in Ops, Begin(o)
      PROVE  OnlyBye'
  <2>1. toPin' = <<>>
    BY <1>6 DEF Begin, Quiet, Healthy, Script1, Nothing, Ends
  <2> QED BY <1>0, <2>1
<1> QED BY <1>1, <1>2, <1>3, <1>4, <1>5, <1>6 DEF GravelBox

LEMMA HelperOnlyBye ==
  ASSUME DInv, Helper \/ User \/ HelperDies
  PROVE  OnlyBye'
<1> USE DEF DInv, PInv, OnlyBye
<1>1. CASE HelperExec
  <2>1. toPin' = <<>> /\ Len(<<>>) = 0
    BY <1>1 DEF HelperExec, Script1, Nothing
  <2> QED BY <2>1
<1>2. ASSUME NEW c, ReadCommand(c)
      PROVE  OnlyBye'
  <2>1. /\ toPin # <<>> /\ toPin \in Seq(Commands) /\ toPin' = Tail(toPin)
        /\ UNCHANGED <<pc, op, helper>>
    BY <1>2 DEF ReadCommand, gravelVars, TypeOK
  <2>2. /\ Len(Tail(toPin)) = Len(toPin) - 1 /\ Len(toPin) \in Nat
        /\ \A i \in 1 .. Len(Tail(toPin)) : Tail(toPin)[i] = toPin[i + 1]
    BY <2>1, HeadTailProperties, LenProperties
  <2>3. \A i \in 1 .. Len(Tail(toPin)) : i + 1 \in 1 .. Len(toPin)
    BY <2>2
  <2> QED BY <2>1, <2>2, <2>3
<1>3. CASE Obey \/ User
  BY <1>2, <1>3 DEF Obey, User, UserConfirms, UserTypes
<1>4. CASE WriteLine \/ HelperDies
  BY <1>4 DEF WriteLine, HelperDies, gravelVars
<1> QED BY <1>1, <1>3, <1>4 DEF Helper

LEMMA NextNoResultYet ==
  ASSUME DInv, [Next]_vars
  PROVE  NoResultYet'
<1> USE DEF DInv, PInv, NoResultYet
<1>1. CASE Throw
  BY <1>1, ThrowLeads DEF NoResult
<1>2. CASE Construct \/ RecvError \/ RecvEof
  BY <1>1, <1>2 DEF Construct, RecvError, RecvEof
<1>3. CASE Send \/ RecvLine \/ RecvNext
  BY <1>3 DEF Send, RecvLine, RecvNext, Takes
<1>4. CASE RecvDone
  BY <1>4 DEF RecvDone, Takes
<1>5. CASE RecvCancel \/ WaitHelper
  BY <1>5 DEF RecvCancel, WaitHelper
<1>6. ASSUME NEW o \in Ops, Begin(o)
      PROVE  NoResultYet'
  BY <1>6 DEF Begin
<1>7. CASE Helper \/ User \/ HelperDies
  BY <1>7 DEF Helper, User, HelperExec, Obey, UserConfirms, UserTypes, WriteLine, HelperDies,
     ReadCommand, gravelVars
<1>8. CASE UNCHANGED vars
  BY <1>8 DEF vars, gravelVars
<1> QED BY <1>2, <1>3, <1>4, <1>5, <1>6, <1>7, <1>8 DEF Next, GravelBox, Ended

\* The user has acted only once a dialog was read, and no dialog survives a failure.
THEOREM DInvHolds == Spec => []DInv
<1>1. Init => DInv
  <2> SUFFICES ASSUME Init PROVE DInv
    OBVIOUS
  <2>1. Len(toPin) = 0
    BY DEF Init
  <2> QED BY <2>1, Initial DEF Init, DInv, ActsOnce, OnlyBye, NoResultYet
<1>2. DInv /\ [Next]_vars /\ PInv' => DInv'
  <2> SUFFICES ASSUME DInv, [Next]_vars, PInv' PROVE DInv'
    OBVIOUS
  <2>1. CASE UNCHANGED vars
    BY <2>1 DEF DInv, ActsOnce, OnlyBye, NoResultYet, Command, vars, gravelVars, helperVars
  <2>2. CASE GravelBox \/ \E o \in Ops : Begin(o)
    BY <2>2, GravelBoxActsOnce, GravelBoxOnlyBye, NextNoResultYet DEF DInv
  <2>3. CASE Helper \/ User \/ HelperDies
    BY <2>3, HelperActsOnce, HelperOnlyBye, NextNoResultYet DEF DInv
  <2> QED BY <2>1, <2>2, <2>3 DEF Next, Ended
<1> QED BY <1>1, <1>2, Invariance, PTL DEF Spec

-----------------------------------------------------------------------------
(***************************************************************************)
(* The refinement.                                                         *)
(***************************************************************************)
LEMMA PhaseView ==
  ASSUME NEW p, NEW o \in Ops
  PROVE  /\ p \in Ends => PhaseOf(p, o) = "over"
         /\ p = "idle" => PhaseOf(p, o) = "idle"
         /\ p \notin Ends \cup {"idle"} =>
              /\ o = "open" => PhaseOf(p, o) = "opening"
              /\ o = "confirm" => PhaseOf(p, o) = "confirm"
              /\ o \in {"getpin", "retry"} => PhaseOf(p, o) = "getpin"
              /\ o = "close" => PhaseOf(p, o) = "closing"
              /\ PhaseOf(p, o) \in D!Questions \cup {"opening", "closing"}
<1>1. "idle" \notin Ends
  BY DEF Ends
<1> HIDE DEF Ends
<1>2. p \in Ends => PhaseOf(p, o) = "over"
  BY <1>1 DEF PhaseOf
<1>3. p = "idle" => PhaseOf(p, o) = "idle"
  BY <1>1 DEF PhaseOf
<1>4. ASSUME p \notin Ends, p # "idle"
      PROVE  PhaseOf(p, o) = CASE o = "open" -> "opening"
                               [] o = "confirm" -> "confirm"
                               [] o \in {"getpin", "retry"} -> "getpin"
                               [] o = "close" -> "closing"
  <2>1. CASE o = "open"
    BY <1>4, <2>1 DEF PhaseOf
  <2>2. CASE o = "confirm"
    BY <1>4, <2>2 DEF PhaseOf
  <2>3. CASE o \in {"getpin", "retry"}
    BY <1>4, <2>3 DEF PhaseOf
  <2>4. CASE o = "close"
    BY <1>4, <2>4 DEF PhaseOf
  <2> QED BY <2>1, <2>2, <2>3, <2>4 DEF Ops
<1>5. ASSUME p \notin Ends, p # "idle"
      PROVE  /\ o = "open" => PhaseOf(p, o) = "opening"
             /\ o = "confirm" => PhaseOf(p, o) = "confirm"
             /\ o \in {"getpin", "retry"} => PhaseOf(p, o) = "getpin"
             /\ o = "close" => PhaseOf(p, o) = "closing"
  BY <1>4, <1>5
<1> QED BY <1>2, <1>3, <1>5 DEF Ops, D!Questions

\* In every state, and after every step.
LEMMA PhaseHere ==
  ASSUME TypeOK, TypeOK'
  PROVE  op \in Ops /\ op' \in Ops /\ phaseBar = PhaseOf(pc, op) /\ phaseBar' = PhaseOf(pc', op')
BY DEF TypeOK, phaseBar

Quietly == UNCHANGED <<phaseBar, user, result>>

\* A step of the protocol that neither ends the operation nor shows a dialog.
LEMMA SamePhase ==
  ASSUME TypeOK, TypeOK', UNCHANGED <<op, user, result>>,
         pc' = pc \/ (pc \notin Ends \cup {"idle"} /\ pc' \notin Ends \cup {"idle"})
  PROVE  Quietly
<1>1. CASE pc' = pc
  BY <1>1 DEF Quietly, phaseBar
<1>2. CASE pc \notin Ends \cup {"idle"} /\ pc' \notin Ends \cup {"idle"}
  <2>1. PhaseOf(pc, op) = PhaseOf(pc', op)
    <3>1. op \in Ops
      BY PhaseHere
    <3> QED BY <1>2, <3>1, PhaseView DEF Ops
  <2> QED BY <2>1, PhaseHere DEF Quietly
<1> QED BY <1>1, <1>2

LEMMA EndsHere ==
  ASSUME TypeOK, TypeOK', pc \notin Ends \cup {"idle"}, pc' \in Ends, UNCHANGED <<user, result>>
  PROVE  D!End
BY PhaseHere, PhaseView DEF D!End

LEMMA ThrowIsDialog ==
  ASSUME DInv, TypeOK', Throw, pc \in {"start", "recv"}, UNCHANGED user
  PROVE  D!Next
<1>1. TypeOK /\ result = NoResult
  BY DEF DInv, PInv, NoResultYet, NoResult
<1>2. /\ result' = result
      /\ \/ op \in {"open", "close"} /\ pc' \in {"exception", "terminate"}
         \/ op \in {"confirm", "getpin", "retry"} /\ pc' = "send" /\ op' = "close"
  BY <1>1, ThrowLeads
<1>3. CASE pc' \in {"exception", "terminate"}
  BY <1>1, <1>2, <1>3, EndsHere DEF D!Next, Ends
<1>4. CASE op \in {"confirm", "getpin", "retry"} /\ pc' = "send" /\ op' = "close"
  <2>1. phaseBar \in D!Questions
    BY <1>1, <1>4, PhaseHere, PhaseView DEF Ends, D!Questions
  <2>2. phaseBar' = "closing"
    BY <1>1, <1>4, PhaseHere, PhaseView DEF Ends
  <2> QED BY <1>2, <2>1, <2>2 DEF D!Next, D!Fail
<1> QED BY <1>2, <1>3, <1>4

\* The reply ends the operation.
LEMMA ReplyIsDialog ==
  ASSUME DInv, TypeOK', RecvDone \/ RecvCancel
  PROVE  D!Next \/ Quietly
<1> USE DEF DInv, PInv
<1>1. /\ pc = "recv" /\ fromPin # <<>> /\ UNCHANGED <<op, user>> /\ op \in Ops
      /\ data \in Texts /\ Head(fromPin) \in Lines
      /\ pc \notin Ends \cup {"idle"}
  BY HeadTailProperties DEF RecvDone, RecvCancel, Takes, TypeOK, Ends
<1>2. op # "close" =>
        /\ Head(fromPin).kind = "CANCEL" => user \in {"deny", "cancel"}
        /\ Head(fromPin).kind = "OK" /\ Command = "CONFIRM" => user = "allow"
        /\ Head(fromPin).kind = "OK" /\ Command = "GETPIN" =>
             user \in DOMAIN Heard /\ data = Heard[user]
        /\ Head(fromPin).kind \in {"ZERO", "BLANK"} /\ Command \in Dialogs => user = "void"
  BY <1>1, TakenLine DEF Healthy, Ends
<1>3. CASE RecvCancel
  <2>1. /\ Head(fromPin).kind = "CANCEL" /\ Command \in Dialogs
        /\ pc' = "idle" /\ result' = [is |-> "no", text |-> Empty]
    BY <1>3 DEF RecvCancel, Takes
  <2>2. op \in {"confirm", "getpin", "retry"}
    BY <2>1, DialogIsLast DEF Dialogs
  <2>3. phaseBar \in D!Questions /\ phaseBar' = "idle"
    BY <1>1, <2>1, <2>2, PhaseHere, PhaseView DEF D!Questions
  <2>4. user \in {"deny", "cancel"}
    BY <1>2, <2>1, <2>2
  <2> QED BY <1>1, <2>1, <2>3, <2>4 DEF D!Next, D!Return
<1>4. CASE RecvDone
  <2>1. /\ Head(fromPin).kind \in Successes /\ step = Len(Script(op))
        /\ pc' = (IF op = "close" THEN "wait" ELSE "idle")
    BY <1>4 DEF RecvDone, Takes
  <2>2. CASE op = "open"
    <3>1. result' = result /\ phaseBar = "opening" /\ phaseBar' = "idle"
      BY <1>1, <1>4, <2>1, <2>2, PhaseHere, PhaseView DEF RecvDone
    <3> QED BY <1>1, <3>1 DEF D!Next, D!Opened
  <2>3. CASE op = "confirm"
    <3>1. Command = "CONFIRM"
      BY <2>1, <2>3 DEF Command, Script
    <3>2. /\ result' = [is |-> "yes", text |-> Empty] /\ user \in {"allow", "void"}
          /\ phaseBar = "confirm" /\ phaseBar' = "idle"
      BY <1>1, <1>2, <1>4, <2>1, <2>3, <3>1, PhaseHere, PhaseView
         DEF RecvDone, Successes, Dialogs
    <3> QED BY <1>1, <3>2 DEF D!Next, D!Return
  <2>4. CASE op \in {"getpin", "retry"}
    <3>1. Command = "GETPIN"
      BY <2>1, <2>4 DEF Command, Script
    <3>2. /\ result' = [is |-> "password", text |-> Received]
          /\ phaseBar = "getpin" /\ phaseBar' = "idle"
      BY <1>1, <1>4, <2>1, <2>4, PhaseHere, PhaseView DEF RecvDone
    <3>3. CASE Head(fromPin).kind = "OK"
      <4>1. user \in Secret \cup {Empty} /\ Received = Heard[user]
        BY <1>2, <2>4, <3>1, <3>3, HeardType DEF Received
      <4> QED BY <1>1, <3>2, <4>1 DEF D!Next, D!Return
    <3>4. CASE Head(fromPin).kind \in {"ZERO", "BLANK"}
      <4>1. user = "void"
        BY <1>2, <2>4, <3>1, <3>4 DEF Dialogs
      <4>2. Received \in Texts
        BY <1>1 DEF Received, Lines
      <4> QED BY <1>1, <3>2, <4>1, <4>2 DEF D!Next, D!Return
    <3> QED BY <2>1, <3>3, <3>4 DEF Successes
  <2>5. CASE op = "close"
    <3>1. result' = result /\ pc' = "wait"
      BY <1>4, <2>1, <2>5 DEF RecvDone
    <3> QED BY <1>1, <3>1, SamePhase DEF Ends
  <2> QED BY <1>1, <2>2, <2>3, <2>4, <2>5 DEF Ops
<1> QED BY <1>3, <1>4

LEMMA GravelBoxIsDialog ==
  ASSUME DInv, TypeOK', GravelBox \/ \E o \in Ops : Begin(o)
  PROVE  D!Next \/ Quietly
<1> USE DEF DInv, PInv
<1>1. CASE Construct
  <2>1. CASE Throw /\ UNCHANGED <<data, holds, helperVars>>
    BY <1>1, <2>1, ThrowIsDialog DEF Construct, helperVars
  <2>2. CASE ~(Throw /\ UNCHANGED <<data, holds, helperVars>>)
    BY <1>1, <2>2, SamePhase DEF Construct, Ends
  <2> QED BY <2>1, <2>2
<1>2. CASE Send
  <2>1. CASE pc' = "recv"
    BY <1>2, <2>1, SamePhase DEF Send, Ends
  <2>2. CASE pc' = "sigpipe"
    BY <1>2, <2>2, EndsHere DEF Send, Ends, D!Next
  <2> QED BY <1>2, <2>1, <2>2 DEF Send
<1>3. CASE RecvLine \/ RecvNext
  BY <1>3, SamePhase DEF RecvLine, RecvNext, Takes, Ends
<1>4. CASE RecvDone \/ RecvCancel
  BY <1>4, ReplyIsDialog
<1>5. CASE RecvError \/ RecvEof
  BY <1>5, ThrowIsDialog DEF RecvError, RecvEof, Takes, helperVars
<1>6. CASE WaitHelper
  BY <1>6, EndsHere DEF WaitHelper, Ends, D!Next
<1>7. ASSUME NEW o \in Ops, Begin(o)
      PROVE  D!Next
  <2>1. /\ pc = "idle" /\ pc' = "send" /\ op' = o /\ o # "open"
        /\ user' = "none" /\ result' = NoResult
    BY <1>7 DEF Begin, NoResult
  <2>2. phaseBar = "idle" /\ phaseBar' \in D!Questions \cup {"closing"}
    BY <2>1, PhaseHere, PhaseView DEF Ends, Ops, D!Questions
  <2> QED BY <2>1, <2>2 DEF D!Next, D!Begin, D!Nothing, NoResult
<1> QED BY <1>1, <1>2, <1>3, <1>4, <1>5, <1>6, <1>7 DEF GravelBox

LEMMA HelperIsDialog ==
  ASSUME DInv, TypeOK', Helper \/ User \/ HelperDies
  PROVE  D!Next \/ Quietly
<1>0. TypeOK
  BY DEF DInv, PInv
<1>1. CASE Helper \/ HelperDies
  <2>1. UNCHANGED <<pc, op, user, result>>
    BY <1>1 DEF Helper, HelperExec, Obey, WriteLine, HelperDies, ReadCommand, gravelVars
  <2> QED BY <1>0, <2>1, SamePhase
<1>2. CASE User /\ user' = user
  <2>1. UNCHANGED <<pc, op, result>>
    BY <1>2 DEF User, UserConfirms, UserTypes, ReadCommand, gravelVars
  <2> QED BY <1>0, <1>2, <2>1, SamePhase
<1>3. CASE UserConfirms /\ user' # user
  <2>1. ReadCommand("CONFIRM") /\ user' \in {"allow", "deny", "void"}
    BY <1>3 DEF UserConfirms
  <2>2. /\ op # "close" /\ pc = "recv" /\ Command = "CONFIRM" /\ user = "none"
        /\ UNCHANGED <<pc, op, result>>
    BY <2>1, DialogIsAsked DEF Dialogs
  <2>3. phaseBar = "confirm" /\ phaseBar' = "confirm"
    BY <2>2, DialogIsLast, PhaseHere, PhaseView DEF DInv, PInv, Ends
  <2> QED BY <2>1, <2>2, <2>3 DEF D!Next, D!UserActs
<1>4. CASE UserTypes /\ user' # user
  <2>1. ReadCommand("GETPIN") /\ user' \in Secret \cup {Empty, "cancel", "void"}
    BY <1>4 DEF UserTypes
  <2>2. /\ op # "close" /\ pc = "recv" /\ Command = "GETPIN" /\ user = "none"
        /\ UNCHANGED <<pc, op, result>>
    BY <2>1, DialogIsAsked DEF Dialogs
  <2>3. phaseBar = "getpin" /\ phaseBar' = "getpin"
    BY <2>2, DialogIsLast, PhaseHere, PhaseView DEF DInv, PInv, Ends
  <2> QED BY <2>1, <2>2, <2>3 DEF D!Next, D!UserActs
<1> QED BY <1>1, <1>2, <1>3, <1>4 DEF User

\* PinentryUI keeps the promise of UserDialog: a question is asked at most once in an
\* operation, its answer, as recv() hears it, is what the operation returns unless
\* pinentry answers by itself, and after an exception nothing is asked.
THEOREM RefinesUserDialogHolds == Spec => RefinesUserDialog
<1>1. Init => D!Init
  <2> SUFFICES ASSUME Init PROVE D!Init
    OBVIOUS
  <2>1. phaseBar = "opening"
    BY InitTypes, PhaseView DEF Init, Ends, TypeOK, phaseBar
  <2> QED BY <2>1 DEF Init, D!Init, D!Nothing
<1>2. DInv /\ DInv' /\ [Next]_vars => [D!Next]_D!vars
  <2> SUFFICES ASSUME DInv, DInv', [Next]_vars
               PROVE  [D!Next]_D!vars
    OBVIOUS
  <2>1. D!Next \/ Quietly
    <3>0. TypeOK /\ TypeOK'
      BY DEF DInv, PInv
    <3>1. CASE UNCHANGED vars
      BY <3>0, <3>1, SamePhase DEF vars, gravelVars, helperVars
    <3> QED BY <3>0, <3>1, GravelBoxIsDialog, HelperIsDialog DEF Next, Ended
  <2> QED BY <2>1 DEF Quietly, D!vars
<1> QED BY <1>1, <1>2, DInvHolds, PTL DEF Spec, RefinesUserDialog, D!Spec
=============================================================================
