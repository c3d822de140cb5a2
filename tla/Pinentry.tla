------------------------------ MODULE Pinentry ------------------------------
(***************************************************************************)
(* A PinentryUI object from its constructor to its destructor: the child   *)
(* process forked for pinentry (src/ui/pinentry_ui.cpp, Utils::spawn), the *)
(* two pipes between them, and the line protocol that PinentryConn speaks  *)
(* over them (src/ui/pinentry_conn.h and .cpp).                            *)
(*                                                                         *)
(* GravelBox writes a command and reads lines until one ends the reply; it *)
(* never writes before the reply to the last command.  pinentry, the user  *)
(* at its dialog, and the pipes are the environment.                       *)
(*                                                                         *)
(* The pipes have one reader each.  The read end of the reply pipe is made *)
(* without O_CLOEXEC, so a process that GravelBox starts later holds it    *)
(* too; the model assumes that no such process reads it.                   *)
(***************************************************************************)
EXTENDS Sequences, Naturals

CONSTANTS
  Secret,       \* what the user may type into a password dialog
  Text,         \* what may follow the keyword of a line
  DataLines,    \* the D lines that pinentry writes for a secret
  Empty,        \* the empty string
  Misbehaves,   \* may pinentry answer what PinentryConn does not expect?
  MaxStatus     \* bound: S lines in a reply

ASSUME EmptyAssumption == Empty \notin Secret \cup Text
ASSUME DataLinesAssumption ==
  DataLines \in [Secret -> Seq(Text)] /\ \A s \in Secret : DataLines[s] # <<>>
ASSUME MisbehavesAssumption == Misbehaves \in BOOLEAN
ASSUME MaxStatusAssumption == MaxStatus \in Nat

VARIABLES
  pc,        \* where GravelBox is in the current operation
  op,        \* the operation: a member function of PinentryConn
  step,      \* which command of the operation
  data,      \* recv(): the local variable of that name
  result,    \* what the last operation returned
  holds,     \* does GravelBox hold pinentry's ends of the pipes too?
  helper,    \* the process forked for pinentry
  toPin,     \* the pipe to pinentry
  fromPin,   \* the pipe from pinentry
  reply,     \* lines that pinentry is still going to write
  user       \* history: what the user did at the last dialog; "void" when
             \* pinentry has answered by itself

gravelVars == <<pc, op, step, data, result, holds>>
helperVars == <<helper, toPin, fromPin, reply, user>>
vars == <<gravelVars, helperVars>>

Ops == {"open", "confirm", "getpin", "retry", "close"}

\* The commands of each operation; getpin() has one more when there is an error
\* to show ("retry").  The greeting is a reply to no command.
Script(o) ==
  CASE o = "open"    -> <<"GREETING", "SETTITLE">>
    [] o = "confirm" -> <<"SETDESC", "SETOK", "SETCANCEL", "CONFIRM">>
    [] o = "getpin"  -> <<"SETDESC", "SETPROMPT", "SETOK", "SETCANCEL", "GETPIN">>
    [] o = "retry"   -> <<"SETDESC", "SETPROMPT", "SETOK", "SETCANCEL", "SETERROR", "GETPIN">>
    [] o = "close"   -> <<"BYE">>

Commands == {"GREETING", "SETTITLE", "SETDESC", "SETOK", "SETCANCEL", "SETPROMPT",
             "SETERROR", "CONFIRM", "GETPIN", "BYE"}

Command == Script(op)[step]
Dialogs == {"CONFIRM", "GETPIN"}

\* A line from pinentry, and the command it is about.  Of the error lines, CANCEL
\* has the code kCancel, ZERO the code 0 and BLANK none that can be read, which
\* recv() takes for 0 too.  OTHER is anything that recv() does not know.
Kinds == {"OK", "ZERO", "BLANK", "ERR", "CANCEL", "OTHER", "D", "S"}
Line(k, c, t) == [kind |-> k, about |-> c, text |-> t]
Texts == Text \cup {Empty}
Lines == [kind : Kinds, about : Commands, text : Texts]

\* Response::operator bool(): the code is 0.
Successes == {"OK", "ZERO", "BLANK"}

\* What recv() has of a secret in the end.  pinentry escapes some characters and
\* may spread a secret over several lines; recv() decodes nothing, and each line
\* replaces the one before it.
Heard ==
  [s \in Secret \cup {Empty} |->
     IF s = Empty THEN Empty ELSE DataLines[s][Len(DataLines[s])]]

Results == {"none", "yes", "no", "password"}
HelperStates == {"none", "child", "running", "exited", "signaled", "reaped"}
Ends == {"closed", "exception", "terminate", "sigpipe", "assert"}

TypeOK ==
  /\ pc \in {"start", "send", "recv", "idle", "wait"} \cup Ends
  /\ op \in Ops
  /\ step \in 1..6
  /\ data \in Texts
  /\ result \in [is : Results, text : Texts]
  /\ holds \in BOOLEAN
  /\ helper \in HelperStates
  /\ toPin \in Seq(Commands) /\ fromPin \in Seq(Lines) /\ reply \in Seq(Lines)
  /\ user \in {"none", "void", "allow", "deny", "cancel"} \cup Secret \cup {Empty}

Init ==
  /\ pc = "start" /\ op = "open" /\ step = 1 /\ data = Empty
  /\ result = [is |-> "none", text |-> Empty]
  /\ holds = FALSE
  /\ helper = "none" /\ toPin = <<>> /\ fromPin = <<>> /\ reply = <<>> /\ user = "none"

HelperAlive == helper \in {"child", "running"}

-----------------------------------------------------------------------------
(***************************************************************************)
(* PinentryUI and PinentryConn.                                            *)
(***************************************************************************)
\* Slip: main() catches the exception and goes on with the object.
ThrowGoesOn ==
  /\ pc' = CASE op = "open" -> "exception" [] op = "close" -> "terminate" [] OTHER -> "idle"
  /\ result' = [is |-> "none", text |-> Empty]
  /\ UNCHANGED <<op, step>>

\* An exception.  It leaves the constructor without the destructor being run;
\* later main() is reached over the destructor; out of the destructor, which is
\* noexcept, it reaches nobody.
Throw ==
  /\ IF op \in {"open", "close"}
     THEN pc' = (IF op = "open" THEN "exception" ELSE "terminate") /\ UNCHANGED <<op, step>>
     ELSE pc' = "send" /\ op' = "close" /\ step' = 1
  /\ result' = [is |-> "none", text |-> Empty]

\* PinentryUI(): pipe2(), pipe(), ttyname() and fork(), any of which may fail.
\* Then open() waits for the greeting.
Construct ==
  /\ pc = "start"
  /\ \/ Throw /\ UNCHANGED <<data, holds, helperVars>>
     \/ /\ pc' = "recv" /\ data' = Empty /\ holds' = TRUE /\ helper' = "child"
        /\ UNCHANGED <<op, step, result, toPin, fromPin, reply, user>>

\* The forked child: dup2(), close() and execvp().  When that fails, the throw
\* meets Fd destructors that close the same descriptors again, and terminates.
HelperExec ==
  /\ helper = "child"
  /\ \/ /\ helper' = "running"
        /\ reply' = <<Line("OK", "GREETING", Empty)>>
     \/ helper' = "signaled" /\ UNCHANGED reply
  /\ UNCHANGED <<gravelVars, toPin, fromPin, user>>

\* confirm(), getpin() and the destructor begin.
Begin(o) ==
  /\ pc = "idle" /\ o # "open"
  /\ pc' = "send" /\ op' = o /\ step' = 1
  /\ result' = [is |-> "none", text |-> Empty]
  /\ user' = "none"
  /\ UNCHANGED <<data, holds, helper, toPin, fromPin, reply>>

\* Slip: the next command does not wait for the reply to this one.
SendPipelines ==
  /\ pc = "send"
  /\ toPin' = Append(toPin, Command)
  /\ data' = Empty
  /\ \/ step < Len(Script(op)) /\ step' = step + 1 /\ UNCHANGED pc
     \/ step = Len(Script(op)) /\ pc' = "recv" /\ UNCHANGED step
  /\ UNCHANGED <<op, result, holds, helper, fromPin, reply, user>>

\* os_ << command << std::endl, fatal when nobody can read the pipe; then
\* recv() begins with empty data.
Send ==
  /\ pc = "send"
  /\ \/ /\ HelperAlive \/ holds
        /\ toPin' = Append(toPin, Command)
        /\ pc' = "recv" /\ data' = Empty
     \/ /\ ~(HelperAlive \/ holds)
        /\ pc' = "sigpipe" /\ UNCHANGED <<toPin, data>>
  /\ UNCHANGED <<op, step, result, holds, helper, fromPin, reply, user>>

\* recv() takes the next line, which is of one of these kinds.
Takes(kinds) ==
  /\ pc = "recv" /\ fromPin # <<>> /\ Head(fromPin).kind \in kinds
  /\ fromPin' = Tail(fromPin)
  /\ UNCHANGED <<helper, toPin, reply, user>>

\* Slip: a status line is taken for data.
RecvLineTakesStatus ==
  /\ Takes({"D", "S"})
  /\ data' = IF Head(fromPin).kind = "D" THEN Head(fromPin).text ELSE Head(fromPin).about
  /\ UNCHANGED <<pc, op, step, result, holds>>

\* A data line replaces what an earlier one said, as it is; a status line is
\* skipped.
RecvLine ==
  /\ Takes({"D", "S"})
  /\ data' = IF Head(fromPin).kind = "D" THEN Head(fromPin).text ELSE data
  /\ UNCHANGED <<pc, op, step, result, holds>>

\* The data that a successful reply leaves.  An error line with the code 0
\* replaces them by its message.
Received == IF Head(fromPin).kind = "ZERO" THEN Head(fromPin).text ELSE data

\* Slip: nobody looks at the code of the reply to the last command.
RecvDoneLoosely ==
  /\ Takes(Successes \cup {"ERR", "CANCEL"})
  /\ step = Len(Script(op))
  /\ pc' = IF op = "close" THEN "wait" ELSE "idle"
  /\ result' = CASE op = "confirm"             -> [is |-> "yes", text |-> Empty]
                 [] op \in {"getpin", "retry"} -> [is |-> "password", text |-> Received]
                 [] OTHER                      -> result
  /\ holds' = FALSE
  /\ UNCHANGED <<op, step, data>>

\* The last command of the operation succeeds.  When the constructor returns,
\* its Fd objects close pinentry's ends of the pipes; the destructor goes on to
\* waitpid().
RecvDone ==
  /\ Takes(Successes)
  /\ step = Len(Script(op))
  /\ pc' = IF op = "close" THEN "wait" ELSE "idle"
  /\ result' = CASE op = "confirm"             -> [is |-> "yes", text |-> Empty]
                 [] op \in {"getpin", "retry"} -> [is |-> "password", text |-> Received]
                 [] OTHER                      -> result
  /\ holds' = FALSE
  /\ UNCHANGED <<op, step, data>>

\* Slip: a command that succeeded is sent again.
RecvNextRepeats ==
  /\ Takes(Successes)
  /\ step < Len(Script(op))
  /\ pc' = "send"
  /\ UNCHANGED <<op, step, data, result, holds>>

\* A command before the last one succeeds.
RecvNext ==
  /\ Takes(Successes)
  /\ step < Len(Script(op))
  /\ pc' = "send" /\ step' = step + 1
  /\ UNCHANGED <<op, data, result, holds>>

\* The user said no: an error, but not an exception, of a dialog.
RecvCancel ==
  /\ Takes({"CANCEL"}) /\ Command \in Dialogs
  /\ pc' = "idle" /\ result' = [is |-> "no", text |-> Empty]
  /\ UNCHANGED <<op, step, data, holds>>

\* An error with another code, and a line that recv() does not know.
RecvError ==
  /\ \/ Takes({"ERR", "OTHER"})
     \/ Takes({"CANCEL"}) /\ Command \notin Dialogs
  /\ Throw /\ holds' = FALSE /\ UNCHANGED data

\* Slip: recv() does not look at the state of the stream.
RecvEofSpins ==
  /\ pc = "recv" /\ fromPin = <<>> /\ ~(HelperAlive \/ holds)
  /\ UNCHANGED vars

\* getline() meets the end of the file, once nobody can write the pipe.
RecvEof ==
  /\ pc = "recv" /\ fromPin = <<>> /\ ~(HelperAlive \/ holds)
  /\ Throw /\ UNCHANGED <<data, holds, helperVars>>

\* The destructor's waitpid() and, if assertions are compiled in, WIFEXITED.
WaitHelper ==
  /\ pc = "wait" /\ helper \in {"exited", "signaled"}
  /\ helper' = "reaped"
  /\ \/ pc' = "closed"
     \/ helper = "signaled" /\ pc' = "assert"
  /\ UNCHANGED <<op, step, data, result, holds, toPin, fromPin, reply, user>>

-----------------------------------------------------------------------------
(***************************************************************************)
(* pinentry and its user.                                                  *)
(***************************************************************************)
\* Some S lines, then the rest of the reply.
Replies(c, rest) ==
  {[i \in 1..n |-> Line("S", c, Empty)] \o rest : n \in 0..MaxStatus}

Unexpected(c) ==
  IF Misbehaves
  THEN {<<Line("ERR", c, Empty)>>, <<Line("BLANK", c, Empty)>>,
        <<Line("OTHER", c, Empty), Line("OK", c, Empty)>>}
       \cup {<<Line("ZERO", c, t)>> : t \in Texts}
  ELSE {}

ReadCommand(c) ==
  /\ helper = "running" /\ reply = <<>> /\ toPin # <<>> /\ Head(toPin) = c
  /\ toPin' = Tail(toPin)
  /\ UNCHANGED <<gravelVars, helper, fromPin>>

Obey ==
  \E c \in Commands \ Dialogs :
    /\ ReadCommand(c)
    /\ reply' \in Replies(c, <<Line("OK", c, Empty)>>) \cup Unexpected(c)
    /\ UNCHANGED user

UserConfirms ==
  /\ ReadCommand("CONFIRM")
  /\ \/ user' = "allow" /\ reply' \in Replies("CONFIRM", <<Line("OK", "CONFIRM", Empty)>>)
     \/ user' = "deny" /\ reply' \in Replies("CONFIRM", <<Line("CANCEL", "CONFIRM", Empty)>>)
     \/ user' = "void" /\ reply' \in Unexpected("CONFIRM")

\* The D lines of a secret, and the end of the reply.
Typed(s) ==
  [i \in DOMAIN DataLines[s] |-> Line("D", "GETPIN", DataLines[s][i])]
    \o <<Line("OK", "GETPIN", Empty)>>

\* A data line is written only if the user has typed something.
UserTypes ==
  /\ ReadCommand("GETPIN")
  /\ \/ \E s \in Secret :
          user' = s /\ reply' \in Replies("GETPIN", Typed(s))
     \/ user' = Empty /\ reply' \in Replies("GETPIN", <<Line("OK", "GETPIN", Empty)>>)
     \/ user' = "cancel" /\ reply' \in Replies("GETPIN", <<Line("CANCEL", "GETPIN", Empty)>>)
     \/ user' = "void" /\ reply' \in Unexpected("GETPIN")

\* pinentry exits after its reply to BYE.
WriteLine ==
  /\ helper = "running" /\ reply # <<>>
  /\ fromPin' = Append(fromPin, Head(reply)) /\ reply' = Tail(reply)
  /\ helper' = IF Len(reply) = 1 /\ Head(reply).about = "BYE" THEN "exited" ELSE helper
  /\ UNCHANGED <<gravelVars, toPin, user>>

HelperDies ==
  /\ helper = "running"
  /\ helper' \in {"exited", "signaled"} /\ reply' = <<>>
  /\ UNCHANGED <<gravelVars, toPin, fromPin, user>>

-----------------------------------------------------------------------------
GravelBox ==
  \/ Construct \/ Send \/ RecvLine \/ RecvNext \/ RecvDone \/ RecvCancel
  \/ RecvError \/ RecvEof \/ WaitHelper

Helper == HelperExec \/ Obey \/ WriteLine
User == UserConfirms \/ UserTypes

\* Nothing is left to do once the object, or GravelBox, is gone.
Ended == pc \in Ends /\ UNCHANGED vars

Next ==
  \/ GravelBox \/ (\E o \in Ops : Begin(o))
  \/ Helper \/ User \/ HelperDies
  \/ Ended

Spec == Init /\ [][Next]_vars

\* GravelBox and pinentry run, and the user does not leave a dialog open.  When
\* GravelBox uses the object is its own affair, and nothing makes pinentry die.
FairSpec == Spec /\ WF_vars(GravelBox) /\ WF_vars(Helper) /\ WF_vars(User)

-----------------------------------------------------------------------------
(***************************************************************************)
(* Properties.                                                             *)
(***************************************************************************)
\* Until an exception, GravelBox and pinentry are in step: whatever is on its
\* way is the one command GravelBox waits for, or the reply to it.  An answer is
\* never taken for the answer to another question.
InStep ==
  op # "close" /\ pc \notin Ends =>
    /\ \A l \in {fromPin[i] : i \in DOMAIN fromPin} \cup {reply[i] : i \in DOMAIN reply} :
         pc = "recv" /\ l.about = Command
    /\ toPin # <<>> => pc = "recv" /\ toPin = <<Command>> /\ fromPin = <<>> /\ reply = <<>>

\* What an operation returns is what the user did at this very dialog, unless
\* pinentry answered by itself.  A password is returned as recv() hears it, which
\* is how the user typed it only if pinentry writes it on one line, unescaped.
ResultIsTheUsers ==
  pc = "idle" =>
    /\ result.is = "yes" => user \in {"allow", "void"}
    /\ result.is = "no" => user \in {"deny", "cancel"}
    /\ result.is = "password" =>
         user = "void" \/ (user \in DOMAIN Heard /\ result.text = Heard[user])

\* PinentryUI() returns or throws: Utils::spawn() and the greeting end.
ConstructorReturns == (pc = "recv" /\ op = "open") ~> pc \in Ends \cup {"idle"}

\* It does at least as long as pinentry lives, whatever it answers.
ConstructorReturnsWithPinentry ==
  (pc = "recv" /\ op = "open") ~> (pc \in Ends \cup {"idle"} \/ ~HelperAlive)

\* Whatever becomes of pinentry once it is up, no operation waits for ever.
OperationEnds ==
  (op # "open" /\ pc \in {"send", "recv", "wait"}) ~> pc \in Ends \cup {"idle"}
=============================================================================
