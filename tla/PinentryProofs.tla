--------------------------- MODULE PinentryProofs ---------------------------
(***************************************************************************)
(* Proofs about Pinentry, for all secrets, any number of status lines and  *)
(* whatever pinentry answers or whenever it dies: GravelBox and pinentry   *)
(* stay in step, and an operation returns what the user did at its dialog, *)
(* however a secret is spread over data lines.                             *)
(***************************************************************************)
EXTENDS Pinentry, TLAPS, SequenceTheorems

-----------------------------------------------------------------------------
(***************************************************************************)
(* The lines on their way to GravelBox: those in the pipe, and those that  *)
(* pinentry is still going to write.                                       *)
(***************************************************************************)
Coming == fromPin \o reply

LEMMA WrittenStaysComing ==
  ASSUME NEW S, NEW s \in Seq(S), NEW t \in Seq(S), t # <<>>
  PROVE  /\ Append(s, Head(t)) \in Seq(S) /\ Tail(t) \in Seq(S)
         /\ Append(s, Head(t)) \o Tail(t) = s \o t
<1>1. Head(t) \in S /\ Tail(t) \in Seq(S) /\ t = <<Head(t)>> \o Tail(t)
  <2>1. Head(t) \in S /\ Tail(t) \in Seq(S) /\ Len(Tail(t)) = Len(t) - 1
        /\ \A i \in 1 .. Len(Tail(t)) : Tail(t)[i] = t[i + 1]
    BY HeadTailProperties
  <2>2. <<Head(t)>> \in Seq(S) /\ Len(<<Head(t)>>) = 1 /\ <<Head(t)>>[1] = t[1]
    BY <2>1
  <2> DEFINE u == <<Head(t)>> \o Tail(t)
  <2>3. u \in Seq(S) /\ Len(u) = Len(t)
        /\ \A i \in 1 .. Len(t) : u[i] = IF i <= 1 THEN <<Head(t)>>[i] ELSE Tail(t)[i - 1]
    BY <2>1, <2>2, ConcatProperties
  <2>4. \A i \in 1 .. Len(t) : u[i] = t[i]
    <3> HIDE DEF u
    <3> SUFFICES ASSUME NEW i \in 1 .. Len(t)
                 PROVE  u[i] = t[i]
      OBVIOUS
    <3>1. CASE i = 1
      BY <2>2, <2>3, <3>1
    <3>2. CASE i # 1
      <4>1. i - 1 \in 1 .. Len(Tail(t)) /\ (i - 1) + 1 = i
        BY <2>1, <3>2, LenProperties
      <4> QED BY <2>1, <2>3, <3>2, <4>1
    <3> QED BY <3>1, <3>2
  <2> HIDE DEF u
  <2>5. u = t
    BY <2>3, <2>4, SeqEqual
  <2> QED BY <2>1, <2>5 DEF u
<1>2. <<Head(t)>> \in Seq(S)
  BY <1>1
<1>3. Append(s, Head(t)) = s \o <<Head(t)>> /\ Append(s, Head(t)) \in Seq(S)
  BY <1>1, AppendIsConcat, AppendProperties
<1>4. (s \o <<Head(t)>>) \o Tail(t) = s \o (<<Head(t)>> \o Tail(t))
  BY <1>1, <1>2, ConcatAssociative
<1> QED BY <1>1, <1>3, <1>4

\* Taking a line from the pipe takes the first of those that are coming.
LEMMA TakenIsFirst ==
  ASSUME NEW S, NEW s \in Seq(S), NEW t \in Seq(S), s # <<>>
  PROVE  LET all == s \o t
             left == Tail(s) \o t
         IN  /\ Head(s) = all[1] /\ Head(s) \in S /\ Tail(s) \in Seq(S)
             /\ all \in Seq(S) /\ left \in Seq(S)
             /\ Len(all) \in Nat \ {0} /\ Len(left) = Len(all) - 1
             /\ \A i \in 1 .. Len(left) : left[i] = all[i + 1] /\ i + 1 \in 1 .. Len(all)
<1> DEFINE all == s \o t
           left == Tail(s) \o t
<1>1. /\ Head(s) \in S /\ Tail(s) \in Seq(S) /\ Len(Tail(s)) = Len(s) - 1
      /\ \A i \in 1 .. Len(Tail(s)) : Tail(s)[i] = s[i + 1]
  BY HeadTailProperties
<1>2. Len(s) \in Nat \ {0} /\ Len(t) \in Nat /\ Head(s) = s[1]
  BY EmptySeq, LenProperties
<1>3. /\ all \in Seq(S) /\ Len(all) = Len(s) + Len(t)
      /\ \A i \in 1 .. Len(s) + Len(t) : all[i] = IF i <= Len(s) THEN s[i] ELSE t[i - Len(s)]
  BY ConcatProperties
<1>4. /\ left \in Seq(S) /\ Len(left) = Len(Tail(s)) + Len(t)
      /\ \A i \in 1 .. Len(Tail(s)) + Len(t) :
           left[i] = IF i <= Len(Tail(s)) THEN Tail(s)[i] ELSE t[i - Len(Tail(s))]
  BY <1>1, ConcatProperties
<1> HIDE DEF all, left
<1>5. \A i \in 1 .. Len(left) : left[i] = all[i + 1] /\ i + 1 \in 1 .. Len(all)
  <2> SUFFICES ASSUME NEW i \in 1 .. Len(left)
               PROVE  left[i] = all[i + 1] /\ i + 1 \in 1 .. Len(all)
    OBVIOUS
  <2>1. i + 1 \in 1 .. Len(s) + Len(t) /\ i \in 1 .. Len(Tail(s)) + Len(t)
    BY <1>1, <1>2, <1>4
  <2>2. CASE i <= Len(Tail(s))
    <3>1. i \in 1 .. Len(Tail(s)) /\ i + 1 <= Len(s)
      BY <1>1, <1>2, <2>2
    <3> QED BY <1>1, <1>3, <1>4, <2>1, <2>2, <3>1
  <2>3. CASE ~(i <= Len(Tail(s)))
    <3>1. ~(i + 1 <= Len(s)) /\ i - Len(Tail(s)) = (i + 1) - Len(s)
      BY <1>1, <1>2, <2>3
    <3> QED BY <1>3, <1>4, <2>1, <2>3, <3>1
  <2> QED BY <2>2, <2>3
<1> QED BY <1>1, <1>2, <1>3, <1>4, <1>5 DEF all, left

-----------------------------------------------------------------------------
(***************************************************************************)
(* What a reply may be, for the user's last act u and recv()'s data d.     *)
(***************************************************************************)
Has(lines, kind) == \E i \in 1 .. Len(lines) : lines[i].kind = kind

Finals == Successes \cup {"ERR", "CANCEL"}

\* What recv() has after the lines, if it had d before them, is h.
Leaves(lines, d, h) ==
  \/ ~Has(lines, "D") /\ d = h
  \/ \E i \in 1 .. Len(lines) :
       /\ lines[i].kind = "D" /\ lines[i].text = h
       /\ \A j \in 1 .. Len(lines) : j > i => lines[j].kind # "D"

\* What the end of a reply says of the user.
Says(lines, c, u, d) ==
  /\ Has(lines, "CANCEL") => u \in {"deny", "cancel"}
  /\ Has(lines, "OK") /\ c = "CONFIRM" => u = "allow"
  /\ Has(lines, "OK") /\ c = "GETPIN" => u \in DOMAIN Heard /\ Leaves(lines, d, Heard[u])
  /\ (Has(lines, "ZERO") \/ Has(lines, "BLANK")) /\ c \in Dialogs => u = "void"

\* The lines are about c, and the first OK or error is the last line.  Unless it
\* holds a line at which GravelBox gives up, its end says what the user did.
ReplyOK(lines, c, u, d) ==
  /\ \A i \in 1 .. Len(lines) :
       lines[i].about = c /\ (lines[i].kind \in Finals => i = Len(lines))
  /\ Has(lines, "OTHER") \/ Says(lines, c, u, d)

\* Status lines in front of a reply say nothing.
LEMMA StatusIsIdle ==
  ASSUME NEW c \in Commands, NEW rest \in Seq(Lines), NEW r \in Replies(c, rest),
         NEW u, NEW d, ReplyOK(rest, c, u, d)
  PROVE  r \in Seq(Lines) /\ ReplyOK(r, c, u, d)
<1>1. PICK n \in 0 .. MaxStatus : r = [i \in 1 .. n |-> Line("S", c, Empty)] \o rest
  BY DEF Replies
<1> DEFINE S == [i \in 1 .. n |-> Line("S", c, Empty)]
<1>2. n \in Nat
  BY MaxStatusAssumption
<1>3. Line("S", c, Empty) \in Lines
  BY DEF Line, Lines, Kinds, Texts
<1>4. S \in Seq(Lines) /\ Len(S) = n /\ \A i \in 1 .. n : S[i] = Line("S", c, Empty)
  BY <1>2, <1>3
<1>5. Len(rest) \in Nat
  BY LenProperties
<1> HIDE DEF S
<1>6. /\ r \in Seq(Lines) /\ Len(r) = n + Len(rest)
      /\ \A i \in 1 .. n + Len(rest) : r[i] = IF i <= n THEN S[i] ELSE rest[i - n]
  BY <1>1, <1>4, ConcatProperties DEF S
<1>7. \A i \in 1 .. Len(r) :
        \/ r[i].kind = "S" /\ r[i].about = c
        \/ i - n \in 1 .. Len(rest) /\ r[i] = rest[i - n]
  BY <1>2, <1>4, <1>5, <1>6 DEF Line
<1>8. \A j \in 1 .. Len(rest) : j + n \in 1 .. Len(r) /\ r[j + n] = rest[j]
  BY <1>2, <1>5, <1>6
<1>9. \A k \in Kinds \ {"S"} : Has(r, k) <=> Has(rest, k)
  BY <1>7, <1>8 DEF Has, Kinds
<1>10. \A i \in 1 .. Len(r) :
         r[i].about = c /\ (r[i].kind \in Finals => i = Len(r))
  <2> SUFFICES ASSUME NEW i \in 1 .. Len(r)
               PROVE  r[i].about = c /\ (r[i].kind \in Finals => i = Len(r))
    OBVIOUS
  <2>1. CASE r[i].kind = "S" /\ r[i].about = c
    BY <2>1 DEF Finals, Successes
  <2>2. CASE i - n \in 1 .. Len(rest) /\ r[i] = rest[i - n]
    <3>1. rest[i - n].about = c /\ (rest[i - n].kind \in Finals => i - n = Len(rest))
      BY <2>2 DEF ReplyOK
    <3> QED BY <1>2, <1>5, <1>6, <2>2, <3>1
  <2> QED BY <1>7, <2>1, <2>2
<1>11. ASSUME NEW h, Leaves(rest, d, h)
       PROVE  Leaves(r, d, h)
  <2>1. CASE ~Has(rest, "D") /\ d = h
    BY <1>9, <2>1 DEF Leaves, Kinds
  <2>2. CASE Has(rest, "D") \/ d # h
    <3>1. PICK i \in 1 .. Len(rest) :
            /\ rest[i].kind = "D" /\ rest[i].text = h
            /\ \A j \in 1 .. Len(rest) : j > i => rest[j].kind # "D"
      BY <1>11, <2>2 DEF Leaves
    <3>2. i + n \in 1 .. Len(r) /\ r[i + n].kind = "D" /\ r[i + n].text = h
      BY <1>8, <3>1
    <3>3. ASSUME NEW j \in 1 .. Len(r), j > i + n
          PROVE  r[j].kind # "D"
      <4>1. j - n \in 1 .. Len(rest) /\ j - n > i /\ r[j] = rest[j - n]
        BY <1>2, <1>5, <1>6, <3>3
      <4> QED BY <3>1, <4>1
    <3> QED BY <3>2, <3>3 DEF Leaves
  <2> QED BY <2>1, <2>2
<1>12. Says(rest, c, u, d) => Says(r, c, u, d)
  <2>1. \A k \in {"CANCEL", "OK", "ZERO", "BLANK"} : Has(r, k) <=> Has(rest, k)
    BY <1>9 DEF Kinds
  <2> QED BY <1>11, <2>1 DEF Says
<1>13. Has(rest, "OTHER") => Has(r, "OTHER")
  BY <1>9 DEF Kinds
<1> QED BY <1>6, <1>10, <1>12, <1>13 DEF ReplyOK

-----------------------------------------------------------------------------
(***************************************************************************)
(* The inductive invariant.                                                *)
(***************************************************************************)
\* No exception has been thrown and the object is not being destroyed.
Healthy == op # "close" /\ pc \notin Ends

Nothing == toPin = <<>> /\ fromPin = <<>> /\ reply = <<>>

Script1 ==
  /\ step \in 1 .. Len(Script(op))
  /\ pc = "start" => op = "open" /\ step = 1
  /\ op = "close" => pc # "idle"
  /\ pc \in {"start", "send", "recv"} => result.is = "none"
  /\ helper = "child" => pc = "recv" /\ op = "open" /\ step = 1 /\ Nothing

\* Outside of recv() nothing is on its way.
Quiet == Healthy /\ pc # "recv" => Nothing

\* A command that pinentry has not read is alone on its way.
Asked ==
  Healthy /\ toPin # <<>> =>
    pc = "recv" /\ toPin = <<Command>> /\ fromPin = <<>> /\ reply = <<>> /\ data = Empty

\* What is coming is the reply to the command of this moment.
Answered == Healthy /\ pc = "recv" => ReplyOK(Coming, Command, user, data)

PInv ==
  /\ TypeOK /\ Script1 /\ Quiet /\ Asked /\ Answered /\ ResultIsTheUsers

-----------------------------------------------------------------------------
LEMMA ScriptType ==
  ASSUME NEW o \in Ops
  PROVE  /\ Len(Script(o)) \in 1 .. 6
         /\ \A i \in 1 .. Len(Script(o)) : Script(o)[i] \in Commands
BY DEF Ops, Script, Commands

LEMMA LineType ==
  ASSUME NEW k \in Kinds, NEW c \in Commands, NEW t \in Texts
  PROVE  /\ Line(k, c, t) \in Lines /\ Line(k, c, t).kind = k
         /\ Line(k, c, t).about = c /\ Line(k, c, t).text = t
BY DEF Line, Lines

LEMMA EmptyIsText == Empty \in Texts
BY DEF Texts

\* Whatever recv() hears of a secret is the text of a line.
LEMMA HeardType ==
  /\ DOMAIN Heard = Secret \cup {Empty}
  /\ \A x \in DOMAIN Heard : Heard[x] \in Texts
  /\ Heard[Empty] = Empty
<1>1. ASSUME NEW x \in Secret
      PROVE  DataLines[x][Len(DataLines[x])] \in Text
  <2>1. DataLines[x] \in Seq(Text) /\ DataLines[x] # <<>>
    BY DataLinesAssumption
  <2>2. Len(DataLines[x]) \in 1 .. Len(DataLines[x])
    BY <2>1, EmptySeq, LenProperties
  <2> QED BY <2>1, <2>2, ElementOfSeq
<1> QED BY <1>1 DEF Heard, Texts

\* The types hold in the first state.
LEMMA InitTypes == Init => TypeOK
<1> SUFFICES ASSUME Init PROVE TypeOK
  OBVIOUS
<1>1. toPin \in Seq(Commands) /\ fromPin \in Seq(Lines) /\ reply \in Seq(Lines)
  BY EmptySeq DEF Init
<1>2. result \in [is : Results, text : Texts]
  BY EmptyIsText DEF Init, Results
<1>3. /\ pc \in {"start", "send", "recv", "idle", "wait"} \cup Ends
      /\ op \in Ops /\ step \in 1 .. 6 /\ data \in Texts
  BY EmptyIsText DEF Init, Ops
<1>4. /\ holds \in BOOLEAN /\ helper \in HelperStates
      /\ user \in {"none", "void", "allow", "deny", "cancel"} \cup Secret \cup {Empty}
  BY DEF Init, HelperStates
<1> QED BY <1>1, <1>2, <1>3, <1>4 DEF TypeOK

\* Whatever is in Replies consists of lines.
LEMMA RepliesType ==
  ASSUME NEW c \in Commands, NEW rest \in Seq(Lines), NEW r \in Replies(c, rest)
  PROVE  r \in Seq(Lines)
<1>1. PICK n \in 0 .. MaxStatus : r = [i \in 1 .. n |-> Line("S", c, Empty)] \o rest
  BY DEF Replies
<1>2. n \in Nat /\ Line("S", c, Empty) \in Lines
  BY MaxStatusAssumption, LineType, EmptyIsText DEF Kinds
<1>3. [i \in 1 .. n |-> Line("S", c, Empty)] \in Seq(Lines)
  BY <1>2
<1> QED BY <1>1, <1>3, ConcatProperties

LEMMA UnexpectedIs ==
  ASSUME NEW c \in Commands, NEW r \in Unexpected(c)
  PROVE  \/ r = <<Line("OTHER", c, Empty), Line("OK", c, Empty)>>
         \/ \E k \in {"ERR", "ZERO", "BLANK"}, t \in Texts : r = <<Line(k, c, t)>>
BY EmptyIsText DEF Unexpected

LEMMA UnexpectedType ==
  ASSUME NEW c \in Commands, NEW r \in Unexpected(c)
  PROVE  r \in Seq(Lines)
<1>1. CASE r = <<Line("OTHER", c, Empty), Line("OK", c, Empty)>>
  <2>1. Line("OTHER", c, Empty) \in Lines /\ Line("OK", c, Empty) \in Lines
    BY LineType, EmptyIsText DEF Kinds
  <2> QED BY <1>1, <2>1
<1>2. ASSUME NEW k \in {"ERR", "ZERO", "BLANK"}, NEW t \in Texts, r = <<Line(k, c, t)>>
      PROVE  r \in Seq(Lines)
  <2>1. Line(k, c, t) \in Lines
    BY LineType DEF Kinds
  <2> QED BY <1>2, <2>1
<1> QED BY <1>1, <1>2, UnexpectedIs

\* What pinentry writes for a secret.
LEMMA TypedIs ==
  ASSUME NEW x \in Secret
  PROVE  LET n == Len(DataLines[x])
         IN  /\ n \in Nat \ {0}
             /\ Typed(x) \in Seq(Lines) /\ Len(Typed(x)) = n + 1
             /\ \A i \in 1 .. n : Typed(x)[i] = Line("D", "GETPIN", DataLines[x][i])
             /\ Typed(x)[n + 1] = Line("OK", "GETPIN", Empty)
<1> DEFINE n == Len(DataLines[x])
           ds == [i \in DOMAIN DataLines[x] |-> Line("D", "GETPIN", DataLines[x][i])]
           ok == <<Line("OK", "GETPIN", Empty)>>
<1>1. DataLines[x] \in Seq(Text) /\ DataLines[x] # <<>>
  BY DataLinesAssumption
<1>2. n \in Nat \ {0} /\ DOMAIN DataLines[x] = 1 .. n
  BY <1>1, EmptySeq, LenProperties
<1>3. "GETPIN" \in Commands /\ Line("OK", "GETPIN", Empty) \in Lines
  BY LineType, EmptyIsText DEF Kinds, Commands
<1>4. \A i \in 1 .. n : Line("D", "GETPIN", DataLines[x][i]) \in Lines
  <2> SUFFICES ASSUME NEW i \in 1 .. n
               PROVE  Line("D", "GETPIN", DataLines[x][i]) \in Lines
    OBVIOUS
  <2>1. DataLines[x][i] \in Texts
    BY <1>1, <1>2, ElementOfSeq DEF Texts
  <2> QED BY <1>3, <2>1, LineType DEF Kinds
<1> HIDE DEF n
<1>5. ds \in Seq(Lines) /\ Len(ds) = n
      /\ \A i \in 1 .. n : ds[i] = Line("D", "GETPIN", DataLines[x][i])
  BY <1>2, <1>4
<1>6. ok \in Seq(Lines) /\ Len(ok) = 1 /\ ok[1] = Line("OK", "GETPIN", Empty)
  BY <1>3
<1> HIDE DEF ds, ok
<1>7. /\ ds \o ok \in Seq(Lines) /\ Len(ds \o ok) = n + 1
      /\ \A i \in 1 .. n + 1 : (ds \o ok)[i] = IF i <= n THEN ds[i] ELSE ok[i - n]
  <2>1. /\ ds \o ok \in Seq(Lines) /\ Len(ds \o ok) = Len(ds) + Len(ok)
        /\ \A i \in 1 .. Len(ds) + Len(ok) :
             (ds \o ok)[i] = IF i <= Len(ds) THEN ds[i] ELSE ok[i - Len(ds)]
    BY <1>5, <1>6, ConcatProperties
  <2> QED BY <1>5, <1>6, <2>1
<1>8. (ds \o ok)[n + 1] = ok[1]
  <2>1. n + 1 \in 1 .. n + 1 /\ ~(n + 1 <= n) /\ (n + 1) - n = 1
    BY <1>2
  <2> QED BY <1>7, <2>1
<1>9. \A i \in 1 .. n : (ds \o ok)[i] = ds[i]
  BY <1>2, <1>7
<1>10. Typed(x) = ds \o ok
  BY DEF Typed, ds, ok
<1> QED BY <1>2, <1>5, <1>6, <1>7, <1>8, <1>9, <1>10 DEF n

\* The types of the steps of GravelBox.
LEMMA GravelBoxTypes ==
  ASSUME TypeOK, Script1, GravelBox \/ \E o \in Ops : Begin(o)
  PROVE  TypeOK'
<1> USE DEF TypeOK, HelperStates, Ops, Results, Ends
<1> DEFINE none == [is |-> "none", text |-> Empty]
<1>0. none \in [is : Results, text : Texts]
  BY EmptyIsText
<1> HIDE DEF none
<1>t. ASSUME Throw
      PROVE  /\ pc' \in {"exception", "terminate", "send"} /\ op' \in Ops /\ step' \in 1 .. 6
             /\ result' \in [is : Results, text : Texts]
  <2>1. result' = none
    BY <1>t DEF Throw, none
  <2>2. CASE op \in {"open", "close"}
    BY <1>0, <1>t, <2>1, <2>2 DEF Throw
  <2>3. CASE op \notin {"open", "close"}
    BY <1>0, <1>t, <2>1, <2>3 DEF Throw
  <2> QED BY <2>2, <2>3
<1>1. CASE Construct
  <2>1. CASE Throw /\ UNCHANGED <<data, holds, helperVars>>
    BY <1>t, <2>1 DEF helperVars
  <2>2. CASE ~(Throw /\ UNCHANGED <<data, holds, helperVars>>)
    BY <1>1, <2>2, EmptyIsText DEF Construct
  <2> QED BY <2>1, <2>2
<1>2. CASE Send
  <2>1. Command \in Commands
    BY ScriptType DEF Script1, Command
  <2>2. Append(toPin, Command) \in Seq(Commands)
    BY <2>1
  <2>3. toPin' \in Seq(Commands) /\ pc' \in {"recv", "sigpipe"} /\ data' \in Texts
        /\ UNCHANGED <<op, step, result, holds, helper, fromPin, reply, user>>
    BY <1>2, <2>2, EmptyIsText DEF Send
  <2> QED BY <2>3
<1>3. ASSUME NEW K, Takes(K)
      PROVE  /\ fromPin' \in Seq(Lines) /\ Head(fromPin) \in Lines
             /\ UNCHANGED <<helper, toPin, reply, user>>
  BY <1>3, HeadTailProperties DEF Takes
<1>4. CASE RecvLine
  <2>1. Head(fromPin).text \in Texts
    BY <1>3, <1>4 DEF RecvLine, Lines
  <2>2. data' \in Texts
    BY <1>4, <2>1 DEF RecvLine
  <2> QED BY <1>3, <1>4, <2>2 DEF RecvLine
<1>5. CASE RecvNext
  <2> DEFINE n == Len(Script(op))
  <2>1. step \in 1 .. 6 /\ n \in 1 .. 6 /\ step < n
    BY <1>5, ScriptType DEF RecvNext
  <2> HIDE DEF n
  <2>2. step + 1 \in 1 .. 6
    BY <2>1
  <2> QED BY <1>3, <1>5, <2>2 DEF RecvNext
<1>6. CASE RecvDone
  <2>1. fromPin' \in Seq(Lines) /\ Head(fromPin) \in Lines
        /\ UNCHANGED <<helper, toPin, reply, user>>
    BY <1>3, <1>6 DEF RecvDone
  <2>2. Received \in Texts
    BY <2>1 DEF Received, Lines
  <2>3. result' \in {[is |-> "yes", text |-> Empty], [is |-> "password", text |-> Received], result}
    BY <1>6 DEF RecvDone
  <2>4. result' \in [is : Results, text : Texts]
    BY <2>2, <2>3, EmptyIsText
  <2> QED BY <1>6, <2>1, <2>4 DEF RecvDone
<1>7. CASE RecvCancel
  BY <1>3, <1>7, EmptyIsText DEF RecvCancel
<1>8. CASE RecvError
  BY <1>3, <1>8, <1>t DEF RecvError
<1>9. CASE RecvEof
  BY <1>9, <1>t DEF RecvEof, helperVars
<1>10. CASE WaitHelper
  BY <1>10 DEF WaitHelper
<1>11. ASSUME NEW o \in Ops, Begin(o)
       PROVE  TypeOK'
  BY <1>0, <1>11 DEF Begin, none
<1> QED
  BY <1>1, <1>2, <1>4, <1>5, <1>6, <1>7, <1>8, <1>9, <1>10, <1>11 DEF GravelBox

\* The types of the steps of pinentry and its user.
LEMMA HelperTypes ==
  ASSUME TypeOK, Helper \/ User \/ HelperDies
  PROVE  TypeOK'
<1> USE DEF TypeOK, HelperStates
<1>1. CASE HelperExec
  <2>1. <<Line("OK", "GREETING", Empty)>> \in Seq(Lines)
    BY LineType, EmptyIsText DEF Kinds, Commands
  <2> QED BY <1>1, <2>1 DEF HelperExec, gravelVars
<1>2. ASSUME NEW c \in Commands, ReadCommand(c)
      PROVE  toPin' \in Seq(Commands) /\ UNCHANGED <<gravelVars, helper, fromPin>>
  BY <1>2, HeadTailProperties DEF ReadCommand
<1>3. CASE Obey
  <2>1. PICK c \in Commands :
          /\ ReadCommand(c)
          /\ reply' \in Replies(c, <<Line("OK", c, Empty)>>) \cup Unexpected(c)
          /\ UNCHANGED user
    BY <1>3 DEF Obey
  <2>2. <<Line("OK", c, Empty)>> \in Seq(Lines)
    BY LineType, EmptyIsText DEF Kinds
  <2>3. reply' \in Seq(Lines)
    BY <2>1, <2>2, RepliesType, UnexpectedType
  <2> QED BY <1>2, <2>1, <2>3 DEF gravelVars
<1>4. CASE UserConfirms
  <2>1. "CONFIRM" \in Commands
    BY DEF Commands
  <2>2. /\ <<Line("OK", "CONFIRM", Empty)>> \in Seq(Lines)
        /\ <<Line("CANCEL", "CONFIRM", Empty)>> \in Seq(Lines)
    BY <2>1, LineType, EmptyIsText DEF Kinds
  <2>3. reply' \in Seq(Lines)
    BY <1>4, <2>1, <2>2, RepliesType, UnexpectedType DEF UserConfirms
  <2>4. user' \in {"allow", "deny", "void"}
    BY <1>4 DEF UserConfirms
  <2> QED BY <1>2, <1>4, <2>1, <2>3, <2>4 DEF UserConfirms, gravelVars
<1>5. CASE UserTypes
  <2>1. "GETPIN" \in Commands
    BY DEF Commands
  <2>2. /\ <<Line("OK", "GETPIN", Empty)>> \in Seq(Lines)
        /\ <<Line("CANCEL", "GETPIN", Empty)>> \in Seq(Lines)
        /\ \A x \in Secret : Typed(x) \in Seq(Lines)
    BY <2>1, LineType, EmptyIsText, TypedIs DEF Kinds
  <2>3. reply' \in Seq(Lines)
    BY <1>5, <2>1, <2>2, RepliesType, UnexpectedType DEF UserTypes
  <2>4. user' \in Secret \cup {Empty, "cancel", "void"}
    BY <1>5 DEF UserTypes
  <2> QED BY <1>2, <1>5, <2>1, <2>3, <2>4 DEF UserTypes, gravelVars
<1>6. CASE WriteLine
  <2>1. fromPin' \in Seq(Lines) /\ reply' \in Seq(Lines)
    BY <1>6, WrittenStaysComing DEF WriteLine
  <2> QED BY <1>6, <2>1 DEF WriteLine, gravelVars
<1>7. CASE HelperDies
  BY <1>7 DEF HelperDies, gravelVars
<1> QED
  BY <1>1, <1>3, <1>4, <1>5, <1>6, <1>7 DEF Helper, User

-----------------------------------------------------------------------------
(***************************************************************************)
(* What recv() may conclude from the line that it takes.                   *)
(***************************************************************************)
LEMMA RestOfReply ==
  ASSUME NEW all, NEW left, NEW c, NEW u, NEW d,
         Len(all) \in Nat \ {0}, Len(left) = Len(all) - 1,
         \A i \in 1 .. Len(left) : left[i] = all[i + 1] /\ i + 1 \in 1 .. Len(all),
         ReplyOK(all, c, u, d)
  PROVE  /\ all[1].about = c
         /\ all[1].kind \in Finals => Len(left) = 0
         /\ all[1].kind = "S" => ReplyOK(left, c, u, d)
         /\ all[1].kind = "D" => ReplyOK(left, c, u, all[1].text)
<1>1. 1 \in 1 .. Len(all) /\ Len(left) \in Nat
  OBVIOUS
<1>2. all[1].about = c /\ (all[1].kind \in Finals => 1 = Len(all))
  BY <1>1 DEF ReplyOK
<1>3. \A i \in 1 .. Len(left) :
        left[i].about = c /\ (left[i].kind \in Finals => i = Len(left))
  <2> SUFFICES ASSUME NEW i \in 1 .. Len(left)
               PROVE  left[i].about = c /\ (left[i].kind \in Finals => i = Len(left))
    OBVIOUS
  <2>1. left[i] = all[i + 1] /\ i + 1 \in 1 .. Len(all)
    OBVIOUS
  <2>2. all[i + 1].about = c /\ (all[i + 1].kind \in Finals => i + 1 = Len(all))
    BY <2>1 DEF ReplyOK
  <2> QED BY <1>1, <2>1, <2>2
<1>4. ASSUME NEW i \in 1 .. Len(all), i # 1
      PROVE  i - 1 \in 1 .. Len(left) /\ left[i - 1] = all[i]
  <2>1. i - 1 \in 1 .. Len(left) /\ (i - 1) + 1 = i
    BY <1>1, <1>4
  <2> QED BY <2>1
<1>5. ASSUME NEW k
      PROVE  Has(all, k) <=> all[1].kind = k \/ Has(left, k)
  <2>1. Has(all, k) => all[1].kind = k \/ Has(left, k)
    BY <1>4 DEF Has
  <2>2. Has(left, k) => Has(all, k)
    BY DEF Has
  <2>3. all[1].kind = k => Has(all, k)
    BY <1>1 DEF Has
  <2> QED BY <2>1, <2>2, <2>3
<1> DEFINE e == IF all[1].kind = "D" THEN all[1].text ELSE d
\* A data line further on decides what recv() has in the end.
<1>6. ASSUME NEW h, Leaves(all, d, h), all[1].kind \in {"S", "D"}
      PROVE  Leaves(left, e, h)
  <2>1. CASE ~Has(all, "D") /\ d = h
    BY <1>5, <1>6, <2>1 DEF Leaves
  <2>2. CASE Has(all, "D") \/ d # h
    <3>1. PICK i \in 1 .. Len(all) :
            /\ all[i].kind = "D" /\ all[i].text = h
            /\ \A j \in 1 .. Len(all) : j > i => all[j].kind # "D"
      BY <1>6, <2>2 DEF Leaves
    <3>2. ASSUME NEW j \in 1 .. Len(left), j + 1 > i
          PROVE  left[j].kind # "D"
      BY <3>1, <3>2
    <3>3. CASE i = 1
      <4>1. ~Has(left, "D")
        BY <3>2, <3>3 DEF Has
      <4> QED BY <1>6, <3>1, <3>3, <4>1 DEF Leaves
    <3>4. CASE i # 1
      <4>1. i - 1 \in 1 .. Len(left) /\ left[i - 1] = all[i]
        BY <1>4, <3>4
      <4>2. \A j \in 1 .. Len(left) : j > i - 1 => left[j].kind # "D"
        BY <3>2
      <4> QED BY <3>1, <4>1, <4>2 DEF Leaves
    <3> QED BY <3>3, <3>4
  <2> QED BY <2>1, <2>2
<1> HIDE DEF e
<1>7. ASSUME all[1].kind \in {"S", "D"}
      PROVE  ReplyOK(left, c, u, e)
  <2>1. \A k \in {"CANCEL", "OK", "ZERO", "BLANK", "OTHER"} : Has(all, k) <=> Has(left, k)
    BY <1>5, <1>7
  <2>2. Has(all, "OTHER") \/ Says(all, c, u, d)
    BY DEF ReplyOK
  <2>3. Says(all, c, u, d) => Says(left, c, u, e)
    BY <1>6, <1>7, <2>1 DEF Says
  <2> QED BY <1>3, <2>1, <2>2, <2>3 DEF ReplyOK
<1> QED BY <1>1, <1>2, <1>7 DEF e

\* recv() takes a line while all is well: it is about the command of the moment,
\* nothing is on its way to pinentry, and after an OK or an error nothing is left.
LEMMA TakenLine ==
  ASSUME PInv, Healthy, pc = "recv", fromPin # <<>>
  PROVE  /\ toPin = <<>> /\ helper # "child"
         /\ Head(fromPin).kind \in Finals => Tail(fromPin) = <<>> /\ reply = <<>>
         /\ Head(fromPin).kind = "S" => ReplyOK(Tail(fromPin) \o reply, Command, user, data)
         /\ Head(fromPin).kind = "D" =>
              ReplyOK(Tail(fromPin) \o reply, Command, user, Head(fromPin).text)
         /\ Head(fromPin).kind = "CANCEL" => user \in {"deny", "cancel"}
         /\ Head(fromPin).kind = "OK" /\ Command = "CONFIRM" => user = "allow"
         /\ Head(fromPin).kind = "OK" /\ Command = "GETPIN" =>
              user \in DOMAIN Heard /\ data = Heard[user]
         /\ Head(fromPin).kind \in {"ZERO", "BLANK"} /\ Command \in Dialogs => user = "void"
<1> DEFINE all == fromPin \o reply
           left == Tail(fromPin) \o reply
<1>1. fromPin \in Seq(Lines) /\ reply \in Seq(Lines)
  BY DEF PInv, TypeOK
<1>2. ReplyOK(all, Command, user, data)
  BY DEF PInv, Answered, Coming
<1>3. /\ Head(fromPin) = all[1] /\ Tail(fromPin) \in Seq(Lines)
      /\ Len(all) \in Nat \ {0} /\ Len(left) = Len(all) - 1
      /\ \A i \in 1 .. Len(left) : left[i] = all[i + 1] /\ i + 1 \in 1 .. Len(all)
  BY <1>1, TakenIsFirst
<1>4. Len(left) = Len(Tail(fromPin)) + Len(reply)
      /\ Len(Tail(fromPin)) \in Nat /\ Len(reply) \in Nat
  BY <1>1, <1>3, ConcatProperties, LenProperties
<1>5. Len(left) = 0 => Tail(fromPin) = <<>> /\ reply = <<>>
  <2> HIDE DEF left
  <2>1. Len(left) = 0 => Len(Tail(fromPin)) = 0 /\ Len(reply) = 0
    BY <1>4
  <2> QED BY <1>1, <1>3, <2>1, EmptySeq
<1>6. toPin = <<>> /\ helper # "child"
  BY DEF PInv, Asked, Script1, Nothing
<1> HIDE DEF all, left
<1>7. /\ all[1].kind \in Finals => Len(left) = 0
      /\ all[1].kind = "S" => ReplyOK(left, Command, user, data)
      /\ all[1].kind = "D" => ReplyOK(left, Command, user, all[1].text)
  BY <1>2, <1>3, RestOfReply
<1>8. ASSUME all[1].kind \in Successes \cup {"CANCEL"}
      PROVE  /\ all[1].kind = "CANCEL" => user \in {"deny", "cancel"}
             /\ all[1].kind = "OK" /\ Command = "CONFIRM" => user = "allow"
             /\ all[1].kind = "OK" /\ Command = "GETPIN" =>
                  user \in DOMAIN Heard /\ data = Heard[user]
             /\ all[1].kind \in {"ZERO", "BLANK"} /\ Command \in Dialogs => user = "void"
  <2>1. Len(all) = 1
    BY <1>3, <1>7, <1>8 DEF Finals
  <2>2. \A k : Has(all, k) <=> all[1].kind = k
    BY <2>1 DEF Has
  <2>3. ~Has(all, "OTHER") /\ ~Has(all, "D")
    BY <1>8, <2>2 DEF Successes
  <2>4. Says(all, Command, user, data)
    BY <1>2, <2>3 DEF ReplyOK
  <2>5. \A h : Leaves(all, data, h) => data = h
    BY <2>3 DEF Leaves, Has
  <2> QED BY <1>8, <2>2, <2>4, <2>5 DEF Says
<1>9. Head(fromPin).kind = all[1].kind /\ Head(fromPin).text = all[1].text
  BY <1>3
<1> QED BY <1>5, <1>6, <1>7, <1>8, <1>9 DEF left, Successes

LEMMA NothingComing ==
  ASSUME NEW c, NEW u, NEW d
  PROVE  ReplyOK(<<>> \o <<>>, c, u, d)
<1>1. <<>> \in Seq(Lines) /\ <<>> \o <<>> = <<>> /\ Len(<<>>) = 0
  BY EmptySeq, ConcatEmptySeq
<1> QED BY <1>1 DEF ReplyOK, Says, Has

-----------------------------------------------------------------------------
(***************************************************************************)
(* The steps of GravelBox.                                                 *)
(***************************************************************************)
Rest == Script1 /\ Quiet /\ Asked /\ Answered /\ ResultIsTheUsers

LEMMA ConstructKeeps ==
  ASSUME PInv, Construct
  PROVE  Rest'
<1>1. Nothing /\ op = "open" /\ step = 1
  BY DEF PInv, Construct, Script1, Quiet, Healthy, Ends
<1>2. CASE Throw /\ UNCHANGED <<data, holds, helperVars>>
  <2>1. pc' = "exception" /\ op' = op /\ step' = step /\ helper' = helper
    BY <1>1, <1>2 DEF Throw, helperVars
  <2>2. helper # "child"
    BY DEF PInv, Script1, Construct
  <2> QED
    BY <1>1, <2>1, <2>2 DEF Rest, Script1, Quiet, Asked, Answered, ResultIsTheUsers, Healthy,
       Ends, PInv
<1>3. CASE ~(Throw /\ UNCHANGED <<data, holds, helperVars>>)
  <2>1. /\ pc' = "recv" /\ data' = Empty /\ helper' = "child"
        /\ UNCHANGED <<op, step, result, toPin, fromPin, reply, user>>
    BY <1>3 DEF Construct
  <2>2. Coming' = <<>> \o <<>>
    BY <1>1, <2>1 DEF Nothing, Coming
  <2>3. Answered'
    BY <2>2, NothingComing DEF Answered
  <2>4. Script1' /\ Quiet' /\ Asked' /\ ResultIsTheUsers'
    BY <1>1, <2>1 DEF Script1, Quiet, Asked, ResultIsTheUsers, Healthy, PInv, Nothing, Construct
  <2> QED BY <2>3, <2>4 DEF Rest
<1> QED BY <1>2, <1>3

LEMMA SendKeeps ==
  ASSUME PInv, Send
  PROVE  Rest'
<1>1. pc = "send" /\ helper # "child" /\ result.is = "none"
  BY DEF PInv, Send, Script1
<1>2. UNCHANGED <<op, step, result, holds, helper, fromPin, reply, user>>
  BY DEF Send
<1>3. Script1' /\ ResultIsTheUsers' /\ Quiet'
  BY <1>1, <1>2 DEF Send, PInv, Script1, ResultIsTheUsers, Quiet, Healthy, Ends
<1>4. CASE pc' = "recv" /\ op # "close"
  <2>1. Nothing
    BY <1>1, <1>4 DEF PInv, Quiet, Healthy, Ends
  <2>2. toPin' = <<Command>> /\ data' = Empty
    BY <1>4, <2>1 DEF Send, Nothing
  <2>3. Asked'
    BY <1>2, <1>4, <2>1, <2>2 DEF Asked, Command, Nothing
  <2>4. Coming' = <<>> \o <<>>
    BY <1>2, <2>1 DEF Nothing, Coming
  <2>5. Answered'
    BY <2>4, NothingComing DEF Answered
  <2> QED BY <1>3, <2>3, <2>5 DEF Rest
<1>5. CASE ~(pc' = "recv" /\ op # "close")
  <2>1. ~Healthy'
    BY <1>2, <1>5 DEF Send, Healthy, Ends
  <2> QED BY <1>3, <2>1 DEF Rest, Asked, Answered
<1> QED BY <1>4, <1>5

\* After an exception the object is being destroyed, or there is none.
LEMMA ThrowKeeps ==
  ASSUME PInv, pc = "recv", helper # "child", Throw, helper' = helper
  PROVE  Rest'
<1>1. \/ pc' \in {"exception", "terminate"} /\ op' = op /\ step' = step
      \/ pc' = "send" /\ op' = "close" /\ step' = 1
  <2>1. CASE op = "open"
    BY <2>1 DEF Throw
  <2>2. CASE op = "close"
    BY <2>2 DEF Throw
  <2>3. CASE op \notin {"open", "close"}
    BY <2>3 DEF Throw
  <2> QED BY <2>1, <2>2, <2>3
<1>2. result'.is = "none"
  BY DEF Throw
<1>3. ~Healthy' /\ pc' \notin {"start", "idle", "recv"}
  BY <1>1 DEF Healthy, Ends
<1>4. step' \in 1 .. Len(Script(op'))
  <2>1. "close" \in Ops
    BY DEF Ops
  <2>2. 1 \in 1 .. Len(Script("close"))
    BY <2>1, ScriptType
  <2>3. step \in 1 .. Len(Script(op))
    BY DEF PInv, Script1
  <2> QED BY <1>1, <2>2, <2>3
<1> QED
  BY <1>2, <1>3, <1>4 DEF Rest, Script1, Quiet, Asked, Answered, ResultIsTheUsers

LEMMA RecvLineKeeps ==
  ASSUME PInv, RecvLine
  PROVE  Rest'
<1>1. /\ pc = "recv" /\ fromPin # <<>> /\ Head(fromPin).kind \in {"D", "S"}
      /\ fromPin' = Tail(fromPin)
      /\ data' = IF Head(fromPin).kind = "D" THEN Head(fromPin).text ELSE data
      /\ UNCHANGED <<pc, op, step, result, holds, helper, toPin, reply, user>>
  BY DEF RecvLine, Takes
<1>2. helper # "child"
  BY <1>1 DEF PInv, Script1, Nothing
<1>3. Script1' /\ Quiet' /\ ResultIsTheUsers'
  BY <1>1, <1>2 DEF PInv, Script1, Quiet, ResultIsTheUsers, Healthy
<1>4. CASE Healthy
  <2>1. toPin = <<>>
    BY <1>1, <1>4, TakenLine
  <2>2. ReplyOK(Tail(fromPin) \o reply, Command, user, data')
    BY <1>1, <1>4, TakenLine
  <2>3. Asked' /\ Answered'
    BY <1>1, <2>1, <2>2 DEF Asked, Answered, Coming, Command
  <2> QED BY <1>3, <2>3 DEF Rest
<1>5. CASE ~Healthy
  BY <1>1, <1>3, <1>5 DEF Rest, Asked, Answered, Healthy
<1> QED BY <1>4, <1>5

\* The line ends the reply to a command.
LEMMA RecvEndKeeps ==
  ASSUME PInv, RecvNext \/ RecvDone \/ RecvCancel
  PROVE  Rest'
<1>1. /\ pc = "recv" /\ fromPin # <<>> /\ Head(fromPin).kind \in Successes \cup {"CANCEL"}
      /\ fromPin' = Tail(fromPin)
      /\ pc' \in {"send", "idle", "wait"}
      /\ UNCHANGED <<op, helper, toPin, reply, user>>
  BY DEF RecvNext, RecvDone, RecvCancel, Takes
<1>2. helper # "child" /\ result.is = "none" /\ op \in Ops
  BY <1>1 DEF PInv, Script1, Nothing, TypeOK
<1>3. step' \in 1 .. Len(Script(op))
  <2> DEFINE n == Len(Script(op))
  <2>1. n \in 1 .. 6 /\ step \in 1 .. n
    BY <1>2, ScriptType DEF PInv, Script1
  <2>2. step' = step \/ (step < n /\ step' = step + 1)
    <3>1. CASE RecvNext
      BY <3>1 DEF RecvNext
    <3>2. CASE RecvDone
      BY <3>2 DEF RecvDone
    <3>3. CASE RecvCancel
      BY <3>3 DEF RecvCancel
    <3> QED BY <3>1, <3>2, <3>3
  <2> HIDE DEF n
  <2>3. step' \in 1 .. n
    BY <2>1, <2>2
  <2> QED BY <2>3 DEF n
<1>4. /\ pc' = "send" => result' = result
      /\ pc' = "idle" => op # "close"
      /\ pc' = "wait" => op = "close"
  <2>1. Command \in Dialogs => op # "close"
    BY DEF PInv, Script1, Command, Script, Dialogs
  <2> QED BY <2>1 DEF RecvNext, RecvDone, RecvCancel
<1>5. Script1'
  BY <1>1, <1>2, <1>3, <1>4 DEF Script1
<1>6. CASE op = "close"
  BY <1>1, <1>4, <1>5, <1>6 DEF Rest, Quiet, Asked, Answered, ResultIsTheUsers, Healthy
<1>7. CASE op # "close"
  <2>1. Healthy
    BY <1>1, <1>7 DEF Healthy, Ends
  <2>2. /\ toPin = <<>> /\ Tail(fromPin) = <<>> /\ reply = <<>>
        /\ Head(fromPin).kind = "CANCEL" => user \in {"deny", "cancel"}
        /\ Head(fromPin).kind = "OK" /\ Command = "CONFIRM" => user = "allow"
        /\ Head(fromPin).kind = "OK" /\ Command = "GETPIN" =>
             user \in DOMAIN Heard /\ data = Heard[user]
        /\ Head(fromPin).kind \in {"ZERO", "BLANK"} /\ Command \in Dialogs => user = "void"
    BY <1>1, <2>1, TakenLine DEF Finals
  <2>3. Quiet' /\ Asked' /\ Answered'
    BY <1>1, <2>2 DEF Quiet, Asked, Answered, Nothing
  <2>4. CASE RecvNext
    BY <1>5, <2>3, <2>4 DEF Rest, RecvNext, ResultIsTheUsers
  <2>5. CASE RecvCancel
    <3>1. Head(fromPin).kind = "CANCEL" /\ result' = [is |-> "no", text |-> Empty]
      BY <2>5 DEF RecvCancel, Takes
    <3>2. ResultIsTheUsers'
      BY <1>1, <2>2, <3>1 DEF ResultIsTheUsers
    <3> QED BY <1>5, <2>3, <3>2 DEF Rest
  <2>6. CASE RecvDone
    <3>1. Head(fromPin).kind \in Successes /\ step = Len(Script(op))
      BY <2>6 DEF RecvDone, Takes
    <3>2. CASE op = "confirm"
      <4>1. Command = "CONFIRM"
        BY <3>1, <3>2 DEF Command, Script
      <4>2. result' = [is |-> "yes", text |-> Empty]
        BY <2>6, <3>2 DEF RecvDone
      <4>3. user \in {"allow", "void"}
        BY <2>2, <3>1, <4>1 DEF Successes, Dialogs
      <4>4. ResultIsTheUsers'
        BY <1>1, <4>2, <4>3 DEF ResultIsTheUsers
      <4> QED BY <1>5, <2>3, <4>4 DEF Rest
    <3>3. CASE op \in {"getpin", "retry"}
      <4>1. Command = "GETPIN"
        BY <3>1, <3>3 DEF Command, Script
      <4>2. result' = [is |-> "password", text |-> Received]
        BY <2>6, <3>3 DEF RecvDone
      <4>3. user = "void" \/ (user \in DOMAIN Heard /\ Received = Heard[user])
        BY <2>2, <3>1, <4>1 DEF Successes, Dialogs, Received
      <4>4. ResultIsTheUsers'
        BY <1>1, <4>2, <4>3 DEF ResultIsTheUsers
      <4> QED BY <1>5, <2>3, <4>4 DEF Rest
    <3>4. CASE op = "open"
      <4>1. result' = result
        BY <2>6, <3>4 DEF RecvDone
      <4>2. ResultIsTheUsers'
        BY <1>2, <4>1 DEF ResultIsTheUsers
      <4> QED BY <1>5, <2>3, <4>2 DEF Rest
    <3> QED BY <1>2, <1>7, <3>2, <3>3, <3>4 DEF Ops
  <2> QED BY <2>4, <2>5, <2>6
<1> QED BY <1>6, <1>7

LEMMA GravelBoxKeeps ==
  ASSUME PInv, GravelBox \/ \E o \in Ops : Begin(o)
  PROVE  Rest'
<1>1. CASE RecvError
  <2>1. /\ pc = "recv" /\ fromPin # <<>> /\ helper' = helper /\ Throw
    BY <1>1 DEF RecvError, Takes
  <2>2. helper # "child"
    BY <2>1 DEF PInv, Script1, Nothing
  <2> QED BY <2>1, <2>2, ThrowKeeps
<1>2. CASE RecvEof
  <2>1. pc = "recv" /\ helper # "child" /\ helper' = helper /\ Throw
    BY <1>2 DEF RecvEof, HelperAlive, helperVars
  <2> QED BY <2>1, ThrowKeeps
<1>3. CASE WaitHelper
  <2>1. /\ pc' \in {"closed", "assert"} /\ helper' = "reaped"
        /\ UNCHANGED <<op, step, data, result, holds, toPin, fromPin, reply, user>>
    BY <1>3 DEF WaitHelper
  <2> QED
    BY <2>1 DEF PInv, Rest, Script1, Quiet, Asked, Answered, ResultIsTheUsers, Healthy, Ends
<1>4. ASSUME NEW o \in Ops, Begin(o)
      PROVE  Rest'
  <2>1. /\ pc = "idle" /\ pc' = "send" /\ op' = o /\ o # "open" /\ step' = 1
        /\ result'.is = "none" /\ UNCHANGED <<helper, toPin, fromPin, reply>>
    BY <1>4 DEF Begin
  <2>2. Nothing /\ helper # "child"
    BY <2>1 DEF PInv, Script1, Quiet, Healthy, Ends
  <2>3. 1 \in 1 .. Len(Script(o))
    BY ScriptType
  <2> QED
    BY <2>1, <2>2, <2>3 DEF Rest, Script1, Quiet, Asked, Answered, ResultIsTheUsers, Nothing
<1> QED
  BY <1>1, <1>2, <1>3, <1>4, ConstructKeeps, SendKeeps, RecvLineKeeps, RecvEndKeeps
     DEF GravelBox

-----------------------------------------------------------------------------
(***************************************************************************)
(* The steps of pinentry and its user.                                     *)
(***************************************************************************)
\* A reply that is cut short is still one that GravelBox understands.
LEMMA CutReply ==
  ASSUME NEW s \in Seq(Lines), NEW t \in Seq(Lines), NEW c, NEW u, NEW d,
         ReplyOK(s \o t, c, u, d)
  PROVE  ReplyOK(s \o <<>>, c, u, d)
<1> DEFINE all == s \o t
<1>1. Len(s) \in Nat /\ Len(t) \in Nat /\ s \o <<>> = s
  BY LenProperties, ConcatEmptySeq
<1>2. CASE t = <<>>
  BY <1>2
<1>3. CASE t # <<>>
  <2>1. Len(t) # 0
    BY <1>3, EmptySeq
  <2>2. /\ Len(all) = Len(s) + Len(t)
        /\ \A i \in 1 .. Len(s) + Len(t) : all[i] = IF i <= Len(s) THEN s[i] ELSE t[i - Len(s)]
    BY ConcatProperties
  <2>3. ReplyOK(all, c, u, d)
    OBVIOUS
  <2> HIDE DEF all
  <2>4. \A i \in 1 .. Len(s) : i \in 1 .. Len(all) /\ s[i] = all[i] /\ i # Len(all)
    BY <1>1, <2>1, <2>2
  <2>5. \A i \in 1 .. Len(s) : s[i].about = c /\ s[i].kind \notin Finals
    BY <2>3, <2>4 DEF ReplyOK
  <2>6. Says(s, c, u, d)
    BY <2>5 DEF Says, Has, Finals, Successes
  <2> QED BY <1>1, <2>5, <2>6 DEF ReplyOK
<1> QED BY <1>2, <1>3

\* A reply of one line.
LEMMA OneLine ==
  ASSUME NEW k \in Finals, NEW c \in Commands, NEW t \in Texts, NEW u, NEW d,
         k = "OK" /\ c = "CONFIRM" => u = "allow",
         k = "OK" /\ c = "GETPIN" => u \in DOMAIN Heard /\ Heard[u] = d,
         k \in {"ZERO", "BLANK"} /\ c \in Dialogs => u = "void",
         k = "CANCEL" => u \in {"deny", "cancel"}
  PROVE  <<Line(k, c, t)>> \in Seq(Lines) /\ ReplyOK(<<Line(k, c, t)>>, c, u, d)
<1> DEFINE r == <<Line(k, c, t)>>
<1>1. Line(k, c, t) \in Lines /\ Line(k, c, t).kind = k /\ Line(k, c, t).about = c
  BY LineType DEF Kinds, Finals, Successes
<1>2. r \in Seq(Lines) /\ Len(r) = 1 /\ r[1] = Line(k, c, t)
  BY <1>1
<1> HIDE DEF r
<1>3. \A x : Has(r, x) <=> x = k
  BY <1>1, <1>2 DEF Has
<1>4. \A i \in 1 .. Len(r) : i = Len(r) /\ r[i].about = c
  BY <1>1, <1>2
<1>5. Leaves(r, d, d)
  BY <1>3 DEF Leaves, Finals, Successes
<1>6. Says(r, c, u, d)
  BY <1>3, <1>5 DEF Says
<1>7. ReplyOK(r, c, u, d)
  BY <1>4, <1>6 DEF ReplyOK
<1> QED BY <1>2, <1>7 DEF r

\* pinentry's data and the end of its reply.
LEMMA TypedLines ==
  ASSUME NEW x \in Secret, NEW d
  PROVE  Typed(x) \in Seq(Lines) /\ ReplyOK(Typed(x), "GETPIN", x, d)
<1> DEFINE r == Typed(x)
           n == Len(DataLines[x])
<1>1. /\ n \in Nat \ {0} /\ r \in Seq(Lines) /\ Len(r) = n + 1
      /\ \A i \in 1 .. n : r[i] = Line("D", "GETPIN", DataLines[x][i])
      /\ r[n + 1] = Line("OK", "GETPIN", Empty)
  BY TypedIs
<1>2. Heard[x] = DataLines[x][n] /\ x \in DOMAIN Heard
  BY EmptyAssumption DEF Heard
<1> HIDE DEF r, n
<1>3. \A i \in 1 .. n : r[i].kind = "D" /\ r[i].about = "GETPIN" /\ r[i].text = DataLines[x][i]
  <2> SUFFICES ASSUME NEW i \in 1 .. n
               PROVE  r[i].kind = "D" /\ r[i].about = "GETPIN" /\ r[i].text = DataLines[x][i]
    OBVIOUS
  <2>1. r[i] = Line("D", "GETPIN", DataLines[x][i])
    BY <1>1
  <2> QED BY <2>1 DEF Line
<1>4. r[n + 1].kind = "OK" /\ r[n + 1].about = "GETPIN"
  BY <1>1 DEF Line
<1>5. \A i \in 1 .. Len(r) : i \in 1 .. n \/ i = n + 1
  BY <1>1
<1>6. Leaves(r, d, Heard[x])
  <2>1. n \in 1 .. n /\ n \in 1 .. Len(r)
    BY <1>1
  <2>2. \A j \in 1 .. Len(r) : j > n => j = n + 1
    BY <1>1
  <2> QED BY <1>2, <1>3, <1>4, <2>1, <2>2 DEF Leaves
<1>7. ~Has(r, "CANCEL") /\ ~Has(r, "ZERO") /\ ~Has(r, "BLANK")
  BY <1>3, <1>4, <1>5 DEF Has
<1>8. Says(r, "GETPIN", x, d)
  BY <1>2, <1>6, <1>7 DEF Says
<1>9. \A i \in 1 .. Len(r) : r[i].about = "GETPIN" /\ (r[i].kind \in Finals => i = Len(r))
  BY <1>1, <1>3, <1>4, <1>5 DEF Finals, Successes
<1>10. ReplyOK(r, "GETPIN", x, d)
  BY <1>8, <1>9 DEF ReplyOK
<1> QED BY <1>1, <1>10 DEF r

\* What GravelBox does not expect ends in an exception, or says nothing of the user.
LEMMA UnexpectedOK ==
  ASSUME NEW c \in Commands, NEW r \in Unexpected(c), NEW u, NEW d, c \in Dialogs => u = "void"
  PROVE  r \in Seq(Lines) /\ ReplyOK(r, c, u, d)
<1>1. ASSUME NEW k \in {"ERR", "ZERO", "BLANK"}, NEW t \in Texts, r = <<Line(k, c, t)>>
      PROVE  r \in Seq(Lines) /\ ReplyOK(r, c, u, d)
  BY <1>1, OneLine DEF Finals, Successes
<1>2. CASE r = <<Line("OTHER", c, Empty), Line("OK", c, Empty)>>
  <2>1. /\ Line("OTHER", c, Empty).kind = "OTHER" /\ Line("OTHER", c, Empty).about = c
        /\ Line("OK", c, Empty).kind = "OK" /\ Line("OK", c, Empty).about = c
    BY LineType, EmptyIsText DEF Kinds
  <2>2. /\ Len(r) = 2 /\ r[1] = Line("OTHER", c, Empty) /\ r[2] = Line("OK", c, Empty)
    BY <1>2
  <2>3. \A i \in 1 .. Len(r) : i = 1 \/ i = 2
    BY <2>2
  <2>4. Has(r, "OTHER")
    BY <2>1, <2>2 DEF Has
  <2>5. \A i \in 1 .. Len(r) : r[i].about = c /\ (r[i].kind \in Finals => i = Len(r))
    BY <2>1, <2>2, <2>3 DEF Finals, Successes
  <2>6. r \in Seq(Lines)
    BY UnexpectedType
  <2> QED BY <2>4, <2>5, <2>6 DEF ReplyOK
<1> QED BY <1>1, <1>2, UnexpectedIs

\* pinentry reads a command and has a reply.
LEMMA AnswerKeeps ==
  ASSUME PInv, NEW c \in Commands, ReadCommand(c), reply' \in Seq(Lines),
         ReplyOK(reply', c, user', Empty)
  PROVE  Rest'
<1>1. /\ helper = "running" /\ reply = <<>> /\ toPin # <<>> /\ Head(toPin) = c
      /\ toPin' = Tail(toPin)
      /\ UNCHANGED <<pc, op, step, data, result, holds, helper, fromPin>>
  BY DEF ReadCommand, gravelVars
<1>2. Script1'
  BY <1>1 DEF PInv, Script1
<1>3. CASE Healthy
  <2>1. pc = "recv" /\ toPin = <<Command>> /\ fromPin = <<>> /\ data = Empty
    BY <1>1, <1>3 DEF PInv, Asked
  <2>2. c = Command /\ toPin' = <<>>
    BY <1>1, <2>1
  <2>3. Coming' = reply'
    BY <1>1, <2>1, ConcatEmptySeq DEF Coming
  <2>4. Answered' /\ Asked' /\ Quiet' /\ ResultIsTheUsers'
    BY <1>1, <2>1, <2>2, <2>3 DEF Answered, Asked, Quiet, ResultIsTheUsers, Command
  <2> QED BY <1>2, <2>4 DEF Rest
<1>4. CASE ~Healthy
  <2>1. pc # "idle"
    BY <1>4 DEF PInv, Script1, Healthy, Ends
  <2> QED
    BY <1>1, <1>2, <1>4, <2>1 DEF Rest, Answered, Asked, Quiet, ResultIsTheUsers, Healthy
<1> QED BY <1>3, <1>4

LEMMA HelperKeeps ==
  ASSUME PInv, Helper \/ User \/ HelperDies
  PROVE  Rest'
<1>1. CASE HelperExec
  <2>1. /\ pc = "recv" /\ op = "open" /\ step = 1 /\ Nothing /\ helper = "child"
        /\ UNCHANGED <<pc, op, step, data, result, holds, toPin, fromPin, user>>
        /\ helper' \in {"running", "signaled"}
        /\ reply' \in {<<Line("OK", "GREETING", Empty)>>, reply}
    BY <1>1 DEF PInv, Script1, HelperExec, gravelVars
  <2>2. Command = "GREETING" /\ Command \in Commands
    BY <2>1 DEF Command, Script, Commands
  <2>3. CASE reply' = <<Line("OK", "GREETING", Empty)>>
    <3>1. reply' \in Seq(Lines) /\ ReplyOK(reply', Command, user, data)
      BY <2>2, <2>3, OneLine, EmptyIsText DEF Finals, Successes, Dialogs
    <3>2. Coming' = reply'
      BY <2>1, <3>1, ConcatEmptySeq DEF Coming, Nothing
    <3>3. Answered'
      BY <2>1, <3>1, <3>2 DEF Answered, Command
    <3> QED
      BY <2>1, <3>3 DEF Rest, PInv, Script1, Quiet, Asked, ResultIsTheUsers, Nothing
  <2>4. CASE reply' = reply
    <3>1. Answered'
      BY <2>1, <2>4 DEF PInv, Answered, Coming, Command, Healthy
    <3> QED
      BY <2>1, <2>4, <3>1 DEF Rest, PInv, Script1, Quiet, Asked, ResultIsTheUsers, Nothing
  <2> QED BY <2>1, <2>3, <2>4
<1>2. CASE Obey
  <2>1. PICK c \in Commands \ Dialogs :
          /\ ReadCommand(c)
          /\ reply' \in Replies(c, <<Line("OK", c, Empty)>>) \cup Unexpected(c)
    BY <1>2 DEF Obey
  <2>2. c \in Commands /\ c # "CONFIRM" /\ c # "GETPIN"
    BY DEF Dialogs
  <2>3. LET r == <<Line("OK", c, Empty)>>
        IN  r \in Seq(Lines) /\ ReplyOK(r, c, user', Empty)
    BY <2>2, OneLine, EmptyIsText DEF Finals, Successes
  <2>4. reply' \in Seq(Lines) /\ ReplyOK(reply', c, user', Empty)
    BY <2>1, <2>2, <2>3, StatusIsIdle, UnexpectedOK
  <2> QED BY <2>1, <2>2, <2>4, AnswerKeeps
<1>3. CASE UserConfirms
  <2>1. "CONFIRM" \in Commands /\ ReadCommand("CONFIRM")
    BY <1>3 DEF Commands, UserConfirms
  <2>2. reply' \in Seq(Lines) /\ ReplyOK(reply', "CONFIRM", user', Empty)
    <3>1. CASE /\ user' = "allow"
               /\ reply' \in Replies("CONFIRM", <<Line("OK", "CONFIRM", Empty)>>)
      <4>1. LET r == <<Line("OK", "CONFIRM", Empty)>>
            IN  r \in Seq(Lines) /\ ReplyOK(r, "CONFIRM", user', Empty)
        BY <2>1, <3>1, OneLine, EmptyIsText DEF Finals, Successes
      <4> QED BY <2>1, <3>1, <4>1, StatusIsIdle
    <3>2. CASE /\ user' = "deny"
               /\ reply' \in Replies("CONFIRM", <<Line("CANCEL", "CONFIRM", Empty)>>)
      <4>1. LET r == <<Line("CANCEL", "CONFIRM", Empty)>>
            IN  r \in Seq(Lines) /\ ReplyOK(r, "CONFIRM", user', Empty)
        BY <2>1, <3>2, OneLine, EmptyIsText DEF Finals, Successes
      <4> QED BY <2>1, <3>2, <4>1, StatusIsIdle
    <3>3. CASE user' = "void" /\ reply' \in Unexpected("CONFIRM")
      BY <2>1, <3>3, UnexpectedOK
    <3> QED BY <1>3, <3>1, <3>2, <3>3 DEF UserConfirms
  <2> QED BY <2>1, <2>2, AnswerKeeps
<1>4. CASE UserTypes
  <2>1. "GETPIN" \in Commands /\ ReadCommand("GETPIN")
    BY <1>4 DEF Commands, UserTypes
  <2>2. reply' \in Seq(Lines) /\ ReplyOK(reply', "GETPIN", user', Empty)
    <3>1. ASSUME NEW x \in Secret, user' = x,
                 reply' \in Replies("GETPIN", Typed(x))
          PROVE  reply' \in Seq(Lines) /\ ReplyOK(reply', "GETPIN", user', Empty)
      <4>1. Typed(x) \in Seq(Lines) /\ ReplyOK(Typed(x), "GETPIN", user', Empty)
        BY <3>1, TypedLines
      <4> QED BY <2>1, <3>1, <4>1, StatusIsIdle
    <3>2. CASE /\ user' = Empty
               /\ reply' \in Replies("GETPIN", <<Line("OK", "GETPIN", Empty)>>)
      <4>1. LET r == <<Line("OK", "GETPIN", Empty)>>
            IN  r \in Seq(Lines) /\ ReplyOK(r, "GETPIN", user', Empty)
        BY <2>1, <3>2, OneLine, EmptyIsText, HeardType DEF Finals, Successes
      <4> QED BY <2>1, <3>2, <4>1, StatusIsIdle
    <3>3. CASE /\ user' = "cancel"
               /\ reply' \in Replies("GETPIN", <<Line("CANCEL", "GETPIN", Empty)>>)
      <4>1. LET r == <<Line("CANCEL", "GETPIN", Empty)>>
            IN  r \in Seq(Lines) /\ ReplyOK(r, "GETPIN", user', Empty)
        BY <2>1, <3>3, OneLine, EmptyIsText DEF Finals, Successes
      <4> QED BY <2>1, <3>3, <4>1, StatusIsIdle
    <3>4. CASE user' = "void" /\ reply' \in Unexpected("GETPIN")
      BY <2>1, <3>4, UnexpectedOK
    <3> QED BY <1>4, <3>1, <3>2, <3>3, <3>4 DEF UserTypes
  <2> QED BY <2>1, <2>2, AnswerKeeps
<1>5. CASE WriteLine
  <2>1. /\ helper = "running" /\ helper' \in {"running", "exited"} /\ reply # <<>>
        /\ fromPin' = Append(fromPin, Head(reply)) /\ reply' = Tail(reply)
        /\ UNCHANGED <<pc, op, step, data, result, holds, toPin, user>>
    BY <1>5 DEF WriteLine, gravelVars
  <2>2. fromPin \in Seq(Lines) /\ reply \in Seq(Lines)
    BY DEF PInv, TypeOK
  <2>3. Coming' = Coming
    BY <2>1, <2>2, WrittenStaysComing DEF Coming
  <2>4. Answered'
    BY <2>1, <2>3 DEF PInv, Answered, Healthy, Command
  <2> QED
    BY <2>1, <2>4 DEF Rest, PInv, Script1, Quiet, Asked, ResultIsTheUsers, Nothing, Healthy
<1>6. CASE HelperDies
  <2>1. /\ helper = "running" /\ helper' \in {"exited", "signaled"} /\ reply' = <<>>
        /\ UNCHANGED <<pc, op, step, data, result, holds, toPin, fromPin, user>>
    BY <1>6 DEF HelperDies, gravelVars
  <2>2. fromPin \in Seq(Lines) /\ reply \in Seq(Lines)
    BY DEF PInv, TypeOK
  <2>3. Healthy /\ pc = "recv" => ReplyOK(fromPin \o <<>>, Command, user, data)
    BY <2>2, CutReply DEF PInv, Answered, Coming
  <2>4. Answered'
    BY <2>1, <2>3 DEF Answered, Coming, Healthy, Command
  <2> QED
    BY <2>1, <2>4 DEF Rest, PInv, Script1, Quiet, Asked, ResultIsTheUsers, Nothing, Healthy,
       Command
<1> QED BY <1>1, <1>2, <1>3, <1>4, <1>5, <1>6 DEF Helper, User

-----------------------------------------------------------------------------
(***************************************************************************)
(* The theorems.                                                           *)
(***************************************************************************)
LEMMA Initial == Init => PInv
<1> SUFFICES ASSUME Init PROVE PInv
  OBVIOUS
<1>1. 1 \in 1 .. Len(Script(op)) /\ op \in Ops
  BY ScriptType DEF Init, Ops
<1> QED
  BY <1>1, InitTypes
     DEF Init, PInv, Script1, Quiet, Asked, Answered, ResultIsTheUsers, Nothing

LEMMA Invariance == Spec => []PInv
<1>1. ASSUME PInv, [Next]_vars
      PROVE  PInv'
  <2>1. CASE GravelBox \/ \E o \in Ops : Begin(o)
    BY <1>1, <2>1, GravelBoxTypes, GravelBoxKeeps DEF PInv, Rest
  <2>2. CASE Helper \/ User \/ HelperDies
    BY <1>1, <2>2, HelperTypes, HelperKeeps DEF PInv, Rest
  <2>3. CASE UNCHANGED vars
    BY <1>1, <2>3
       DEF PInv, TypeOK, Script1, Quiet, Asked, Answered, ResultIsTheUsers, Nothing, Healthy,
           Command, Coming, vars, gravelVars, helperVars
  <2> QED BY <1>1, <2>1, <2>2, <2>3 DEF Next, Ended
<1> QED BY <1>1, Initial, PTL DEF Spec

\* Every variable keeps its type, through every operation and every death of pinentry.
THEOREM TypeCorrect == Spec => []TypeOK
<1>1. PInv => TypeOK
  BY DEF PInv
<1> QED BY <1>1, Invariance, PTL

\* PinentryConn never reads the answer to another command than the last one, until
\* an exception: nothing is on its way but one command, or the reply to it.
THEOREM InStepHolds == Spec => []InStep
<1>1. PInv => InStep
  <2> SUFFICES ASSUME PInv, op # "close", pc \notin Ends
               PROVE  /\ \A l \in {fromPin[i] : i \in DOMAIN fromPin}
                                    \cup {reply[i] : i \in DOMAIN reply} :
                           pc = "recv" /\ l.about = Command
                      /\ toPin # <<>> =>
                           pc = "recv" /\ toPin = <<Command>> /\ fromPin = <<>> /\ reply = <<>>
    BY DEF InStep
  <2>1. Healthy /\ fromPin \in Seq(Lines) /\ reply \in Seq(Lines)
    BY DEF Healthy, PInv, TypeOK
  <2>2. /\ Len(fromPin) \in Nat /\ Len(reply) \in Nat
        /\ DOMAIN fromPin = 1 .. Len(fromPin) /\ DOMAIN reply = 1 .. Len(reply)
    BY <2>1, LenProperties
  <2>3. CASE pc # "recv"
    <3>1. toPin = <<>> /\ fromPin = <<>> /\ reply = <<>>
      BY <2>1, <2>3 DEF PInv, Quiet, Nothing
    <3>2. DOMAIN fromPin = {} /\ DOMAIN reply = {}
      BY <3>1
    <3> QED BY <3>1, <3>2
  <2>4. CASE pc = "recv"
    <3> DEFINE all == fromPin \o reply
    <3>1. ReplyOK(all, Command, user, data)
      BY <2>1, <2>4 DEF PInv, Answered, Coming
    <3>2. /\ Len(all) = Len(fromPin) + Len(reply)
          /\ \A i \in 1 .. Len(fromPin) + Len(reply) :
               all[i] = IF i <= Len(fromPin) THEN fromPin[i] ELSE reply[i - Len(fromPin)]
      BY <2>1, ConcatProperties
    <3> HIDE DEF all
    <3>3. \A i \in 1 .. Len(all) : all[i].about = Command
      BY <3>1 DEF ReplyOK
    <3>4. ASSUME NEW i \in DOMAIN fromPin
          PROVE  fromPin[i].about = Command
      <4>1. i \in 1 .. Len(all) /\ all[i] = fromPin[i]
        BY <2>2, <3>2
      <4> QED BY <3>3, <4>1
    <3>5. ASSUME NEW i \in DOMAIN reply
          PROVE  reply[i].about = Command
      <4>1. /\ Len(fromPin) + i \in 1 .. Len(all) /\ ~(Len(fromPin) + i <= Len(fromPin))
            /\ (Len(fromPin) + i) - Len(fromPin) = i
        BY <2>2, <3>2
      <4>2. all[Len(fromPin) + i] = reply[i]
        BY <3>2, <4>1
      <4> QED BY <3>3, <4>1, <4>2
    <3> QED BY <2>1, <2>4, <3>4, <3>5 DEF PInv, Asked
  <2> QED BY <2>3, <2>4
<1> QED BY <1>1, Invariance, PTL

\* A yes, a no or a password that an operation returns is what the user answered at
\* the dialog of that operation, the password as recv() hears it; or pinentry has
\* answered with the code 0 by itself.
THEOREM ResultIsTheUsersHolds == Spec => []ResultIsTheUsers
<1>1. PInv => ResultIsTheUsers
  BY DEF PInv
<1> QED BY <1>1, Invariance, PTL
=============================================================================
