--------------------------- MODULE StartupProofs ---------------------------
(***************************************************************************)
(* Proofs about Startup, for all sets of contents, keys and passwords and  *)
(* however often the files are edited and signed: what GravelBox enforces  *)
(* was signed with the key that the user typed, and the start as a whole   *)
(* implements SignedStart.                                                 *)
(***************************************************************************)
EXTENDS StartupRefinement, TLAPS

\* A key that verifies a text has signed it.
LEMMA VerifiedIsSigned ==
  ASSUME TypeOK, SignatureIsMade, key_ \in Key, config_ \in Content,
         sigFile = HMAC(key_, config_)
  PROVE  <<key_, config_>> \in signed
<1>1. HMAC(key_, config_) \in [key : Key, data : Content]
  BY DEF HMAC
<1>2. PICK p \in signed : sigFile = HMAC(p[1], p[2])
  BY <1>1, FileAssumption DEF SignatureIsMade
<1>3. p \in Key \X Content
  BY <1>2 DEF TypeOK, SigningTypeOK
<1>4. HMAC(key_, config_).key = HMAC(p[1], p[2]).key
      /\ HMAC(key_, config_).data = HMAC(p[1], p[2]).data
  BY <1>2
<1>5. key_ = p[1] /\ config_ = p[2]
  BY <1>4 DEF HMAC
<1> QED
  BY <1>2, <1>3, <1>5

\* The invariant holds in the initial states.
LEMMA InitIInv == Init => IInv
BY DEF Init, SigningInit, IInv, TypeOK, SigningTypeOK, SignatureIsMade, SignerHasBoth,
       TextIsLoaded, OptionObeyed, HashIsLoaded, EnforcedIsSigned, Starting, UiStates

-----------------------------------------------------------------------------
(***************************************************************************)
(* The signer and the editor: they change nothing of GravelBox's, never    *)
(* forget what was signed, and write no signature that was not made.       *)
(***************************************************************************)
\* What the part of the invariant about the files says.
FilesInv == SigningTypeOK /\ SignatureIsMade /\ SignerHasBoth

\* A signature that reaches the file is entered in the history.
LEMMA SignsIsMade ==
  ASSUME FilesInv, spc = "write", Signs(sconfig)
  PROVE  /\ sigFile' \in Signatures
         /\ signed' \subseteq Key \X Content
         /\ SignatureIsMade'
<1>1. skey \in Key /\ sconfig \in Content
  BY DEF FilesInv, SignerHasBoth
<1>2. sigFile' \in Signatures
  BY <1>1 DEF Signs, HMAC, Signatures
<1>3. <<skey, sconfig>> \in signed' /\ signed' \subseteq Key \X Content
  BY <1>1 DEF Signs, FilesInv, SigningTypeOK
<1>4. sigFile' = HMAC(<<skey, sconfig>>[1], <<skey, sconfig>>[2])
  BY DEF Signs
<1>5. SignatureIsMade'
  BY <1>3, <1>4 DEF SignatureIsMade, HMAC
<1> QED
  BY <1>2, <1>3, <1>5

\* They keep their part of the invariant, and the history only grows.
LEMMA OthersKeepFiles ==
  ASSUME FilesInv, Others
  PROVE  FilesInv' /\ signed \subseteq signed'
<1> USE DEF FilesInv, SigningTypeOK, SignatureIsMade, SignerHasBoth, files, signer, Finish,
            HMAC
<1>1. CASE SignerStart
  BY <1>1 DEF SignerStart
<1>2. CASE SignerKey
  BY <1>2 DEF SignerKey
<1>3. CASE SignerOpen
  BY <1>3 DEF SignerOpen
<1>4. CASE SignerWrite
  <2>1. CASE attached /\ Signs(sconfig)
    <3>1. sigFile' \in Signatures /\ signed' \subseteq Key \X Content /\ SignatureIsMade'
      BY <1>4, <2>1, SignsIsMade DEF SignerWrite
    <3>2. signed \subseteq signed'
      BY <2>1 DEF Signs
    <3> QED
      BY <1>4, <3>1, <3>2 DEF SignerWrite
  <2>2. CASE UNCHANGED <<sigFile, signed>>
    BY <1>4, <2>2 DEF SignerWrite
  <2> QED
    BY <1>4, <2>1, <2>2 DEF SignerWrite
<1>5. CASE SignerKilled
  BY <1>5 DEF SignerKilled
<1>6. CASE EditConfig
  BY <1>6 DEF EditConfig
<1>7. CASE RestoreSignature
  <2>1. PICK p \in signed : sigFile' = HMAC(p[1], p[2])
    BY <1>7 DEF RestoreSignature
  <2>2. sigFile' \in Signatures
    BY <2>1 DEF Signatures
  <2> QED
    BY <1>7, <2>1, <2>2 DEF RestoreSignature
<1>8. CASE ReplaceSignature
  <2>1. CASE sigFile' = NoFile
    BY <1>8, <2>1 DEF ReplaceSignature
  <2>2. ASSUME NEW p \in signed, sigFile' = HMAC(p[1], p[2])
        PROVE  FilesInv' /\ signed \subseteq signed'
    <3>1. sigFile' \in Signatures
      BY <2>2 DEF Signatures
    <3> QED
      BY <1>8, <2>2, <3>1 DEF ReplaceSignature
  <2> QED
    BY <1>8, <2>1, <2>2 DEF ReplaceSignature
<1> QED
  BY <1>1, <1>2, <1>3, <1>4, <1>5, <1>6, <1>7, <1>8 DEF Others, Signer

\* And they leave GravelBox's part alone.
LEMMA OthersStep ==
  ASSUME IInv, Others
  PROVE  IInv'
<1>1. FilesInv' /\ signed \subseteq signed'
  BY OthersKeepFiles DEF IInv, TypeOK, FilesInv
<1>2. UNCHANGED gravelVars
  BY DEF Others
<1> QED
  BY <1>1, <1>2 DEF IInv, TypeOK, FilesInv, TextIsLoaded, OptionObeyed, HashIsLoaded,
     EnforcedIsSigned, gravelVars, options, config

-----------------------------------------------------------------------------
(***************************************************************************)
(* GravelBox: it writes no file.                                           *)
(***************************************************************************)
\* Ending keeps the invariant: nothing is claimed of a GravelBox that has ended.
LEMMA LeaveStep ==
  ASSUME IInv, NEW uis \in [{1, 2} -> UiStates],
         NEW how \in {"success", "failure", "target"}, LeaveWith(uis, how)
  PROVE  IInv'
<1>1. ui' \in [{1, 2} -> UiStates]
  BY DEF LeaveWith, UiStates
<1> QED
  BY <1>1 DEF IInv, TypeOK, SigningTypeOK, SignatureIsMade, SignerHasBoth, TextIsLoaded,
     OptionObeyed, HashIsLoaded, EnforcedIsSigned, LeaveWith, Starting,
     files, signer, options, config

\* So does the construction of a PinentryUI, whether it succeeds or not.
LEMMA ConstructStep ==
  ASSUME IInv, NEW i \in {1, 2}, NEW next, Construct(i, next),
         \/ pc = "ui" /\ next = "skip" /\ no_signature
         \/ pc = "ui" /\ next = "key" /\ ~no_signature
         \/ pc = "second" /\ next = "swap"
  PROVE  IInv'
<1>1. CASE /\ ui' = [ui EXCEPT ![i] = "up"] /\ pc' = next
           /\ Stays /\ UNCHANGED config
  <2>1. ui' \in [{1, 2} -> UiStates]
    BY <1>1 DEF IInv, TypeOK, UiStates
  <2> QED
    BY <1>1, <2>1 DEF IInv, TypeOK, SigningTypeOK, SignatureIsMade, SignerHasBoth,
       TextIsLoaded, OptionObeyed, HashIsLoaded, EnforcedIsSigned, Stays, Starting,
       files, signer, options, config
<1>2. ASSUME NEW left \in {"none", "leaked"},
             LeaveWith([ui EXCEPT ![i] = left], "failure")
      PROVE  IInv'
  <2>1. [ui EXCEPT ![i] = left] \in [{1, 2} -> UiStates]
    BY DEF IInv, TypeOK, UiStates
  <2> QED
    BY <1>2, <2>1, LeaveStep
<1> QED
  BY <1>1, <1>2 DEF Construct

\* Every step of GravelBox keeps the invariant; that a verified text is a signed
\* one is what ReadSignature adds to it.
LEMMA GravelBoxStep ==
  ASSUME IInv, GravelBox
  PROVE  IInv'
<1>u. ui \in [{1, 2} -> UiStates]
  BY DEF IInv, TypeOK
<1>l. ASSUME NEW how \in {"success", "failure", "target"}, Leave(how)
      PROVE  IInv'
  BY <1>l, <1>u, LeaveStep DEF Leave
<1> USE DEF IInv, TypeOK, SigningTypeOK, SignatureIsMade, SignerHasBoth, TextIsLoaded,
            OptionObeyed, HashIsLoaded, EnforcedIsSigned, Stays, Starting,
            files, signer, options, config
<1>1. CASE Main
  BY <1>1, <1>l DEF Main
<1>2. CASE LoadConfig
  <2>1. CASE configFile \in Content \ Broken /\ ~Leave("failure")
    <3>1. HashOf[configFile] \in Hashes \cup {None}
      BY <2>1, HashOfAssumption
    <3> QED
      BY <1>2, <2>1, <3>1 DEF LoadConfig
  <2> QED
    BY <1>2, <2>1, <1>l DEF LoadConfig
<1>3. CASE FirstUi
  <2>1. CASE with_pinentry \/ ~no_signature
    BY <1>3, <2>1, ConstructStep DEF FirstUi
  <2>2. CASE ~(with_pinentry \/ ~no_signature)
    BY <1>3, <2>2 DEF FirstUi
  <2> QED
    BY <2>1, <2>2
<1>4. CASE SkipSignature
  BY <1>4 DEF SkipSignature
<1>5. CASE EnterKey
  BY <1>5, <1>l DEF EnterKey
<1>6. CASE OpenSignature
  BY <1>6, <1>l DEF OpenSignature
<1>7. CASE ReadSignature
  <2>1. CASE sigFile = HMAC(key_, config_) /\ pc' = "second"
    <3>1. <<key_, config_>> \in signed
      BY <1>7, <2>1, VerifiedIsSigned DEF ReadSignature
    <3> QED
      BY <1>7, <2>1, <3>1 DEF ReadSignature
  <2>2. CASE pc' = "key" /\ UNCHANGED config_
    BY <1>7, <2>2 DEF ReadSignature
  <2> QED
    BY <1>7, <2>1, <2>2 DEF ReadSignature
<1>8. CASE SecondUi
  <2>1. CASE with_pinentry
    BY <1>8, <2>1 DEF SecondUi
  <2>2. CASE ~with_pinentry
    BY <1>8, <2>2, ConstructStep DEF SecondUi
  <2> QED
    BY <2>1, <2>2
<1>9. CASE SwapUi
  <2>1. ui' \in [{1, 2} -> UiStates]
    BY <1>9, <1>u DEF SwapUi, UiStates
  <2> QED
    BY <1>9, <2>1 DEF SwapUi
<1>10. CASE LoadParser
  BY <1>10, <1>l DEF LoadParser
<1>11. CASE Trace
  BY <1>11, <1>l DEF Trace
<1> QED
  BY <1>1, <1>2, <1>3, <1>4, <1>5, <1>6, <1>7, <1>8, <1>9, <1>10, <1>11 DEF GravelBox

-----------------------------------------------------------------------------
(***************************************************************************)
(* The theorems.                                                           *)
(***************************************************************************)
\* The invariant holds in every reachable state.
THEOREM Invariance == Spec => []IInv
<1>1. IInv /\ [Next]_vars => IInv'
  <2> SUFFICES ASSUME IInv, [Next]_vars
               PROVE  IInv'
    OBVIOUS
  <2>1. CASE GravelBox
    BY <2>1, GravelBoxStep
  <2>2. CASE Others
    BY <2>2, OthersStep
  <2>3. CASE UNCHANGED vars
    BY <2>3 DEF vars, gravelVars, IInv, TypeOK, SigningTypeOK, SignatureIsMade,
       SignerHasBoth, TextIsLoaded, OptionObeyed, HashIsLoaded, EnforcedIsSigned,
       files, signer, options, config
  <2> QED
    BY <2>1, <2>2, <2>3 DEF Next
<1> QED
  BY <1>1, InitIInv, PTL DEF Spec

\* EnforcedIsSigned: whatever happens to the files between the reading of the
\* configuration, the dialogs and the reading of the signature, the rules that
\* GravelBox goes on with were signed with the key that the user typed.
THEOREM EnforcedIsSignedHolds == Spec => []EnforcedIsSigned
<1>1. IInv => EnforcedIsSigned
  BY DEF IInv
<1> QED
  BY <1>1, Invariance, PTL

\* PasswordIsCheckable: a password that the tracer asks for can be checked, with
\* the hash that was signed and the key that signed it.
THEOREM PasswordIsCheckableHolds == Spec => []PasswordIsCheckable
<1>1. IInv => PasswordIsCheckable
  BY DEF IInv, HashIsLoaded, EnforcedIsSigned, PasswordIsCheckable
<1> QED
  BY <1>1, Invariance, PTL

\* TypeOK, for any contents, keys and passwords.
THEOREM TypeCorrect == Spec => []TypeOK
<1>1. IInv => TypeOK
  BY DEF IInv
<1> QED
  BY <1>1, Invariance, PTL

-----------------------------------------------------------------------------
(***************************************************************************)
(* The PinentryUI objects, and the signature file that is being read.      *)
(***************************************************************************)
\* Which objects there are at each point of run().
UiInv ==
  /\ pc \in {"main", "load", "ui"} => ui[1] = "none" /\ ui[2] = "none"
  /\ pc \in {"skip", "key", "verify", "read", "second"} =>
       ui[1] = (IF with_pinentry \/ ~no_signature THEN "up" ELSE "none") /\ ui[2] = "none"
  /\ pc = "swap" => ~with_pinentry /\ ui[1] \in {"up", "none"} /\ ui[2] = "up"
  /\ pc \in {"parser", "tracing"} =>
       IF with_pinentry THEN ui[1] = "up" /\ ui[2] = "none"
       ELSE ui[1] \in {"none", "reaped"} /\ ui[2] = "up"
  /\ pc = "ended" /\ exit # "aborted" => ui[1] # "up" /\ ui[2] # "up"

\* The signature that is being read cannot disappear.
ReadsFile == pc = "read" => sigFile # NoFile

LEMMA LeaveEndsUis ==
  ASSUME NEW uis \in [{1, 2} -> UiStates], NEW how, how # "aborted", LeaveWith(uis, how)
  PROVE  UiInv'
BY DEF LeaveWith, UiInv

LEMMA ConstructKeepsUis ==
  ASSUME ui \in [{1, 2} -> UiStates], UiInv, NEW i \in {1, 2}, NEW next, Construct(i, next),
         \/ pc = "ui" /\ i = 1 /\ next = "skip" /\ with_pinentry
         \/ pc = "ui" /\ i = 1 /\ next = "key" /\ ~no_signature
         \/ pc = "second" /\ i = 2 /\ next = "swap" /\ ~with_pinentry
  PROVE  UiInv'
<1>1. CASE /\ ui' = [ui EXCEPT ![i] = "up"] /\ pc' = next
           /\ Stays /\ UNCHANGED config
  BY <1>1 DEF UiInv, Stays, options
<1>2. ASSUME NEW left \in {"none", "leaked"},
             LeaveWith([ui EXCEPT ![i] = left], "failure")
      PROVE  UiInv'
  <2>1. [ui EXCEPT ![i] = left] \in [{1, 2} -> UiStates]
    BY DEF UiStates
  <2> QED
    BY <1>2, <2>1, LeaveEndsUis
<1> QED
  BY <1>1, <1>2 DEF Construct

LEMMA NextUiInv ==
  ASSUME TypeOK, UiInv, [Next]_vars
  PROVE  UiInv'
<1>u. ui \in [{1, 2} -> UiStates]
  BY DEF TypeOK
<1>l. ASSUME NEW how, how # "aborted", Leave(how)
      PROVE  UiInv'
  BY <1>l, <1>u, LeaveEndsUis DEF Leave
<1>1. CASE Main \/ LoadConfig \/ EnterKey \/ OpenSignature \/ LoadParser \/ Trace
  BY <1>1, <1>l
     DEF Main, LoadConfig, EnterKey, OpenSignature, LoadParser, Trace, UiInv, Stays, options
<1>2. CASE FirstUi
  <2>1. CASE with_pinentry \/ ~no_signature
    BY <1>2, <1>u, <2>1, ConstructKeepsUis DEF FirstUi
  <2>2. CASE ~(with_pinentry \/ ~no_signature)
    BY <1>2, <2>2 DEF FirstUi, UiInv, Stays, options
  <2> QED
    BY <2>1, <2>2
<1>3. CASE SkipSignature \/ ReadSignature
  BY <1>3 DEF SkipSignature, ReadSignature, UiInv, Stays, options
<1>4. CASE SecondUi
  <2>1. CASE with_pinentry
    BY <1>4, <2>1 DEF SecondUi, UiInv, Stays, options
  <2>2. CASE ~with_pinentry
    BY <1>4, <1>u, <2>2, ConstructKeepsUis DEF SecondUi
  <2> QED
    BY <2>1, <2>2
<1>5. CASE SwapUi
  BY <1>5, <1>u DEF SwapUi, UiInv, Stays, options
<1>6. CASE Others \/ UNCHANGED vars
  BY <1>6 DEF Others, UiInv, gravelVars, options, vars
<1> QED
  BY <1>1, <1>2, <1>3, <1>4, <1>5, <1>6 DEF Next, GravelBox

LEMMA NextReadsFile ==
  ASSUME IInv, ReadsFile, [Next]_vars
  PROVE  ReadsFile'
<1>1. CASE GravelBox
  BY <1>1 DEF GravelBox, Main, LoadConfig, FirstUi, SkipSignature, EnterKey, OpenSignature,
     ReadSignature, SecondUi, SwapUi, LoadParser, Trace, Construct, Leave, LeaveWith, Stays,
     ReadsFile, files
<1>2. CASE Others
  <2>1. pc' = pc
    BY <1>2 DEF Others, gravelVars
  <2>2. CASE UNCHANGED sigFile \/ pc # "read"
    BY <2>1, <2>2 DEF ReadsFile
  <2>3. CASE sigFile' \in Signatures \cup {Truncated}
    BY <2>3, FileAssumption DEF Signatures, ReadsFile
  <2>4. CASE SignerWrite /\ Signs(sconfig)
    BY <2>3, <2>4, SignsIsMade DEF IInv, TypeOK, FilesInv, SignerWrite
  <2>5. CASE RestoreSignature
    <3>1. PICK p \in signed : sigFile' = HMAC(p[1], p[2])
      BY <2>5 DEF RestoreSignature
    <3>2. p[1] \in Key /\ p[2] \in Content
      BY DEF IInv, TypeOK, SigningTypeOK
    <3> QED
      BY <2>3, <3>1, <3>2 DEF HMAC, Signatures
  <2> QED
    BY <1>2, <2>2, <2>3, <2>4, <2>5
       DEF Others, Signer, SignerStart, SignerKey, SignerOpen, SignerWrite, SignerKilled,
           EditConfig, files
<1>3. CASE UNCHANGED vars
  BY <1>3 DEF vars, gravelVars, files, ReadsFile
<1> QED
  BY <1>1, <1>2, <1>3 DEF Next

\* UisAccountedFor: the tracer gets one living pinentry, and none is left.
THEOREM UisAccountedForHolds == Spec => []UisAccountedFor
<1>1. Init => UiInv
  BY DEF Init, UiInv
<1>2. TypeOK /\ TypeOK' /\ UiInv /\ [Next]_vars => UiInv'
  BY NextUiInv
<1>3. UiInv => UisAccountedFor
  BY DEF UiInv, UisAccountedFor
<1> QED
  BY <1>1, <1>2, <1>3, TypeCorrect, PTL DEF Spec

\* RefusalHasReason: the text that is compared is the one that was loaded, so a
\* refusal means another key, another text, or a signature being written.
THEOREM RefusalHasReasonHolds == Spec => RefusalHasReason
<1> DEFINE Reason == pc = "read" /\ pc' = "key"
                       => \/ sigFile = Truncated
                          \/ sigFile.key # key_
                          \/ sigFile.data # loaded
<1>1. Init => ReadsFile
  BY DEF Init, ReadsFile
<1>2. IInv /\ ReadsFile /\ [Next]_vars => ReadsFile'
  BY NextReadsFile
<1>3. IInv /\ ReadsFile /\ [Next]_vars => [Reason]_vars
  <2> SUFFICES ASSUME IInv, ReadsFile, Next, pc = "read", pc' = "key", sigFile # Truncated
               PROVE  sigFile.key # key_ \/ sigFile.data # loaded
    OBVIOUS
  <2>1. ReadSignature
    BY DEF Next, GravelBox, Others, gravelVars, Main, LoadConfig, FirstUi, SkipSignature,
       EnterKey, OpenSignature, SecondUi, SwapUi, LoadParser, Trace
  <2>2. sigFile # HMAC(key_, loaded)
    BY <2>1 DEF ReadSignature, IInv, TextIsLoaded
  <2>3. sigFile \in Signatures
    BY DEF IInv, TypeOK, SigningTypeOK, ReadsFile
  <2> QED
    BY <2>2, <2>3 DEF Signatures, HMAC
<1> QED
  BY <1>1, <1>2, <1>3, Invariance, PTL DEF Spec, RefusalHasReason

-----------------------------------------------------------------------------
(***************************************************************************)
(* The refinement.                                                         *)
(***************************************************************************)
LEMMA InitHashIsKept == Init => HashIsKept
BY DEF Init, HashIsKept

LEMMA NextHashIsKept ==
  ASSUME HashIsKept, [Next]_vars
  PROVE  HashIsKept'
<1> USE DEF HashIsKept, Stays, options, config
<1>l. ASSUME NEW uis, NEW how, LeaveWith(uis, how)
      PROVE  HashIsKept'
  BY <1>l DEF LeaveWith
<1>1. CASE Main \/ EnterKey \/ OpenSignature \/ LoadParser \/ Trace
  BY <1>1, <1>l DEF Main, EnterKey, OpenSignature, LoadParser, Trace, Leave
<1>2. CASE LoadConfig
  BY <1>2, <1>l DEF LoadConfig, Leave
<1>3. ASSUME NEW i, NEW next, Construct(i, next), next \notin {"main", "load"},
             pc \in {"ui", "second"}, pc = "second" => next = "swap"
      PROVE  HashIsKept'
  <2>1. CASE pc' = next /\ UNCHANGED config
    BY <1>3, <2>1
  <2> QED
    BY <1>3, <1>l, <2>1 DEF Construct
<1>4. CASE FirstUi
  <2>1. CASE with_pinentry \/ ~no_signature
    BY <1>3, <1>4, <2>1 DEF FirstUi
  <2>2. CASE ~(with_pinentry \/ ~no_signature)
    BY <1>4, <2>2 DEF FirstUi
  <2> QED
    BY <2>1, <2>2
<1>5. CASE SecondUi
  <2>1. CASE with_pinentry
    BY <1>5, <2>1 DEF SecondUi
  <2>2. CASE ~with_pinentry
    BY <1>3, <1>5, <2>2 DEF SecondUi
  <2> QED
    BY <2>1, <2>2
<1>6. CASE SkipSignature \/ ReadSignature
  BY <1>6 DEF SkipSignature, ReadSignature
<1>7. CASE SwapUi
  BY <1>7 DEF SwapUi
<1>8. CASE Others \/ UNCHANGED vars
  BY <1>8 DEF Others, gravelVars, vars
<1> QED
  BY <1>1, <1>2, <1>4, <1>5, <1>6, <1>7, <1>8 DEF Next, GravelBox

\* What the mapping shows at each point.
LEMMA View ==
  /\ Enforcing => /\ phaseBar = "enforcing" /\ demandBar = password_hash_
                  /\ keyBar = IF no_signature THEN None ELSE key_
  /\ ~Enforcing => keyBar = None /\ demandBar = None
  /\ pc = "ended" => phaseBar = "over" /\ ~Enforcing
  /\ pc \in (Starting \cup {"skip"}) \ {"second", "swap", "parser"} =>
       phaseBar = "starting" /\ ~Enforcing
<1>1. CASE Enforcing
  BY <1>1 DEF Enforcing, phaseBar, keyBar, demandBar, Starting
<1>2. CASE pc = "ended"
  BY <1>2 DEF Enforcing, phaseBar, keyBar, demandBar, Starting
<1>3. CASE ~Enforcing /\ pc # "ended"
  BY <1>3 DEF Enforcing, phaseBar, keyBar, demandBar, Starting
<1> QED
  BY <1>1, <1>2, <1>3

\* The same after a step.
LEMMA ViewAfter ==
  /\ Enforcing' => /\ phaseBar' = "enforcing" /\ demandBar' = password_hash_'
                   /\ keyBar' = IF no_signature' THEN None ELSE key_'
  /\ ~Enforcing' => keyBar' = None /\ demandBar' = None
  /\ pc' = "ended" => phaseBar' = "over" /\ ~Enforcing'
  /\ pc' \in (Starting \cup {"skip"}) \ {"second", "swap", "parser"} =>
       phaseBar' = "starting" /\ ~Enforcing'
<1>1. CASE Enforcing'
  BY <1>1 DEF Enforcing, phaseBar, keyBar, demandBar, Starting
<1>2. CASE pc' = "ended"
  BY <1>2 DEF Enforcing, phaseBar, keyBar, demandBar, Starting
<1>3. CASE ~Enforcing' /\ pc' # "ended"
  BY <1>3 DEF Enforcing, phaseBar, keyBar, demandBar, Starting
<1> QED
  BY <1>1, <1>2, <1>3

Quietly == UNCHANGED <<no_signature, signed, phaseBar, loaded, keyBar, demandBar>>

\* run() is left, or GravelBox is brought down.
LEMMA EndingIsEnd ==
  ASSUME pc # "ended", pc \in Starting \cup {"skip", "tracing"}, pc' = "ended",
         UNCHANGED <<signer, options, config>>
  PROVE  A!End
<1>1. phaseBar # "over"
  <2>1. CASE Enforcing
    BY <2>1, View
  <2>2. CASE ~Enforcing
    BY <2>2, View DEF Starting, Enforcing
  <2> QED
    BY <2>1, <2>2
<1> QED
  BY <1>1, ViewAfter DEF A!End, signer, options, config

\* GravelBox goes on without passing the signature.
LEMMA GoingOnIsQuiet ==
  ASSUME UNCHANGED <<signer, options, loaded, password_hash_>>,
         \/ {pc, pc'} \subseteq {"main", "load", "ui", "skip", "key", "verify", "read"}
         \/ {pc, pc'} \subseteq {"second", "swap", "parser", "tracing"} /\ key_' = key_
  PROVE  Quietly
<1>1. CASE {pc, pc'} \subseteq {"main", "load", "ui", "skip", "key", "verify", "read"}
  BY <1>1 DEF Quietly, phaseBar, keyBar, demandBar, Enforcing, signer, options
<1>2. CASE {pc, pc'} \subseteq {"second", "swap", "parser", "tracing"} /\ key_' = key_
  BY <1>2 DEF Quietly, phaseBar, keyBar, demandBar, Enforcing, signer, options
<1> QED
  BY <1>1, <1>2

LEMMA GravelBoxIsStart ==
  ASSUME IInv, HashIsKept, GravelBox
  PROVE  A!Next \/ Quietly
<1> USE DEF Stays, options, config
<1>e. ASSUME pc' = "ended", pc # "ended", UNCHANGED <<signer, options, config>>
      PROVE  A!Next
  BY <1>e, EndingIsEnd DEF A!Next, IInv, TypeOK
<1>l. ASSUME NEW uis, NEW how, LeaveWith(uis, how), pc # "ended"
      PROVE  A!Next
  BY <1>l, <1>e DEF LeaveWith
<1>1. CASE Main \/ EnterKey \/ OpenSignature \/ LoadParser
  BY <1>1, <1>l, GoingOnIsQuiet DEF Main, EnterKey, OpenSignature, LoadParser, Leave
<1>2. CASE LoadConfig
  <2>1. CASE Leave("failure")
    BY <1>2, <2>1, <1>l DEF LoadConfig, Leave
  <2>2. CASE ~Leave("failure")
    <3>1. /\ pc = "load" /\ pc' = "ui" /\ loaded' = configFile /\ configFile \in Content
          /\ UNCHANGED <<signer, no_signature>>
      BY <1>2, <2>2 DEF LoadConfig
    <3>2. loaded = None
      BY <3>1 DEF HashIsKept
    <3>3. /\ phaseBar = "starting" /\ phaseBar' = "starting" /\ UNCHANGED <<keyBar, demandBar>>
      BY <3>1, View, ViewAfter DEF Starting
    <3> QED
      BY <3>1, <3>2, <3>3 DEF A!Next, A!Read, signer
  <2> QED
    BY <2>1, <2>2
<1>3. ASSUME NEW i, NEW next, Construct(i, next),
             \/ pc = "ui" /\ next \in {"skip", "key"}
             \/ pc = "second" /\ next = "swap"
      PROVE  A!Next \/ Quietly
  BY <1>3, <1>l, GoingOnIsQuiet DEF Construct
<1>4. CASE FirstUi
  <2>1. CASE with_pinentry \/ ~no_signature
    BY <1>3, <1>4, <2>1 DEF FirstUi
  <2>2. CASE ~(with_pinentry \/ ~no_signature)
    BY <1>4, <2>2, GoingOnIsQuiet DEF FirstUi
  <2> QED
    BY <2>1, <2>2
<1>5. CASE SecondUi
  <2>1. CASE with_pinentry
    BY <1>5, <2>1, GoingOnIsQuiet DEF SecondUi
  <2>2. CASE ~with_pinentry
    BY <1>3, <1>5, <2>2 DEF SecondUi
  <2> QED
    BY <2>1, <2>2
<1>6. CASE SkipSignature
  <2>1. /\ pc = "skip" /\ pc' = "second" /\ no_signature /\ loaded \in Content
        /\ password_hash_' = None /\ UNCHANGED <<signer, no_signature, loaded>>
    BY <1>6 DEF SkipSignature, IInv, OptionObeyed, TextIsLoaded
  <2>2. phaseBar = "starting"
    BY <2>1, View DEF Starting
  <2>3. phaseBar' = "enforcing" /\ keyBar' = None /\ demandBar' = None
    BY <2>1, ViewAfter DEF Enforcing
  <2>4. loaded # None
    BY <2>1, FileAssumption
  <2> QED
    BY <2>1, <2>2, <2>3, <2>4 DEF A!Next, A!Enforce, A!EnforceUnsigned, signer
<1>7. CASE ReadSignature
  <2>1. pc = "read" /\ ~no_signature /\ loaded \in Content /\ config_ = loaded /\ key_ \in Key
        /\ UNCHANGED <<signer, no_signature, with_pinentry, loaded, key_, password_hash_>>
    BY <1>7 DEF ReadSignature, IInv, OptionObeyed, TextIsLoaded
  <2>2. CASE sigFile = HMAC(key_, config_) /\ pc' = "second"
    <3>1. <<key_, loaded>> \in signed
      BY <2>1, <2>2, VerifiedIsSigned DEF IInv
    <3>2. phaseBar = "starting" /\ password_hash_ = HashOf[loaded] /\ loaded # None
      BY <2>1, View, FileAssumption DEF Starting, HashIsKept
    <3>3. phaseBar' = "enforcing" /\ keyBar' = key_ /\ demandBar' = password_hash_
      BY <2>1, <2>2, ViewAfter DEF Enforcing
    <3> QED
      BY <2>1, <3>1, <3>2, <3>3 DEF A!Next, A!Enforce, A!EnforceSigned, signer
  <2>3. CASE pc' = "key"
    BY <2>1, <2>3, GoingOnIsQuiet
  <2> QED
    BY <1>7, <2>2, <2>3 DEF ReadSignature
<1>8. CASE SwapUi
  <2>1. CASE pc' = "parser"
    BY <1>8, <2>1, GoingOnIsQuiet DEF SwapUi
  <2>2. CASE pc' # "parser"
    BY <1>8, <2>2, <1>e DEF SwapUi
  <2> QED
    BY <2>1, <2>2
<1>9. CASE Trace
  BY <1>9, <1>l DEF Trace, Leave
<1> QED
  BY <1>1, <1>2, <1>4, <1>5, <1>6, <1>7, <1>8, <1>9 DEF GravelBox

\* The signer approves what it signs; nobody else but GravelBox does anything.
LEMMA OthersAreStart ==
  ASSUME IInv, Others
  PROVE  A!Next \/ Quietly
<1>1. UNCHANGED <<no_signature, phaseBar, loaded, keyBar, demandBar>>
  BY DEF Others, gravelVars, options, config, phaseBar, keyBar, demandBar, Enforcing
<1>2. CASE signed' = signed
  BY <1>1, <1>2 DEF Quietly
<1>3. CASE SignerWrite /\ Signs(sconfig)
  <2>1. <<skey, sconfig>> \in Key \X Content
    BY <1>3 DEF SignerWrite, IInv, SignerHasBoth
  <2>2. signed' = signed \cup {<<skey, sconfig>>}
    BY <1>3 DEF Signs
  <2> QED
    BY <1>1, <2>1, <2>2 DEF A!Next, A!Approve
<1> QED
  BY <1>2, <1>3
     DEF Others, Signer, SignerStart, SignerKey, SignerOpen, SignerWrite, SignerKilled,
         EditConfig, RestoreSignature, ReplaceSignature, signer

\* However the files are edited, signed, replaced and removed meanwhile, GravelBox
\* goes on only with the rules that it read once and that were signed, by then, under
\* the typed key; their password is not lost on the way, and rules that nobody had to
\* sign demand none.
THEOREM RefinesSignedStartHolds == Spec => RefinesSignedStart
<1>1. Init => A!Init
  <2> SUFFICES ASSUME Init PROVE A!Init
    OBVIOUS
  <2>1. phaseBar = "starting" /\ keyBar = None /\ demandBar = None
    BY View DEF Init, Starting
  <2> QED
    BY <2>1 DEF Init, SigningInit, A!Init
<1>2. IInv /\ HashIsKept /\ [Next]_vars => [A!Next]_A!vars
  <2> SUFFICES ASSUME IInv, HashIsKept, [Next]_vars
               PROVE  [A!Next]_A!vars
    OBVIOUS
  <2>1. A!Next \/ Quietly
    <3>1. CASE UNCHANGED vars
      BY <3>1 DEF vars, gravelVars, signer, options, config, Quietly, phaseBar, keyBar,
         demandBar, Enforcing
    <3> QED
      BY <3>1, GravelBoxIsStart, OthersAreStart DEF Next
  <2> QED
    BY <2>1 DEF Quietly, A!vars
<1> QED
  BY <1>1, <1>2, Invariance, InitHashIsKept, NextHashIsKept, PTL
     DEF Spec, RefinesSignedStart, A!Spec
=============================================================================
