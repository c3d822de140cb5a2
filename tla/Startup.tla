------------------------------ MODULE Startup ------------------------------
(***************************************************************************)
(* GravelBox from main() to the start of the tracing loop: main() in       *)
(* src/main.cpp, run() in src/modules.cpp, and the configuration object    *)
(* FileConfig in src/config that both the start and the tracing use.       *)
(*                                                                         *)
(* The configuration is read once.  Its signature file is read each time   *)
(* the user has typed a key, in two steps: the length, then the bytes.     *)
(* The files belong to module Signing: the signer and the user's editor    *)
(* run at the same time.                                                   *)
(***************************************************************************)
EXTENDS Signing

CONSTANTS
  Broken,   \* contents that FileConfig() rejects
  HashOf    \* the password hash that a content has, or None

Hashes == [key : Key, data : Password]

ASSUME BrokenAssumption == Broken \subseteq Content
ASSUME HashOfAssumption == HashOf \in [Content -> Hashes \cup {None}]

VARIABLES
  pc,             \* where GravelBox is
  no_signature,   \* the option of that name
  with_pinentry,  \* is the option --pinentry given?
  loaded,         \* the content that the rules in action_groups_ come from
  config_,        \* the text kept until it is verified
  key_,           \* the last key the user typed
  password_hash_,
  ui,             \* the PinentryUI objects of run(), in order of creation
  exit            \* how GravelBox ended

options == <<no_signature, with_pinentry>>
config == <<loaded, config_, key_, password_hash_>>
gravelVars == <<pc, options, config, ui, exit>>
vars == <<files, signer, gravelVars>>

Starting == {"main", "load", "ui", "key", "verify", "read", "second", "swap", "parser"}

\* A PinentryUI whose constructor throws has no destructor call: the process it
\* has forked is never waited for.
UiStates == {"none", "up", "reaped", "leaked"}

TypeOK ==
  /\ SigningTypeOK
  /\ pc \in Starting \cup {"skip", "tracing", "ended"}
  /\ no_signature \in BOOLEAN /\ with_pinentry \in BOOLEAN
  /\ loaded \in Content \cup {None} /\ config_ \in Content \cup {None}
  /\ key_ \in Key \cup {None} /\ password_hash_ \in Hashes \cup {None}
  /\ ui \in [{1, 2} -> UiStates]
  /\ exit \in {"none", "success", "failure", "target", "aborted"}

Init ==
  /\ SigningInit
  /\ pc = "main"
  /\ no_signature \in BOOLEAN /\ with_pinentry \in BOOLEAN
  /\ loaded = None /\ config_ = None /\ key_ = None /\ password_hash_ = None
  /\ ui = [i \in {1, 2} |-> "none"]
  /\ exit = "none"

-----------------------------------------------------------------------------
\* run() returns or throws, which destroys the PinentryUI that is left.  Its
\* destructor says BYE and reaps the process, or brings GravelBox down when
\* pinentry does not play along.
LeaveWith(uis, how) ==
  /\ pc' = "ended"
  /\ \/ exit' = how /\ ui' = [i \in {1, 2} |-> IF uis[i] = "up" THEN "reaped" ELSE uis[i]]
     \/ exit' = "aborted" /\ ui' = uis /\ \E i \in {1, 2} : uis[i] = "up"
  /\ UNCHANGED <<files, signer, options, config>>

Leave(how) == LeaveWith(ui, how)

Stays == UNCHANGED <<files, signer, options, exit>>

\* Wrong options, --help, no target: GravelBox ends before run().
Main ==
  /\ pc = "main"
  /\ \/ Leave("failure") \/ Leave("success")
     \/ pc' = "load" /\ Stays /\ UNCHANGED <<config, ui>>

\* FileConfig(): read the file, parse what was read.
LoadConfig ==
  /\ pc = "load"
  /\ \/ configFile \in Broken \cup {NoFile} /\ Leave("failure")
     \/ /\ configFile \in Content \ Broken
        /\ loaded' = configFile /\ config_' = configFile
        /\ password_hash_' = HashOf[configFile]
        /\ pc' = "ui" /\ Stays /\ UNCHANGED <<key_, ui>>

\* The i-th PinentryUI is constructed, or its constructor throws before or
\* after fork().
Construct(i, next) ==
  \/ /\ ui' = [ui EXCEPT ![i] = "up"] /\ pc' = next
     /\ Stays /\ UNCHANGED config
  \/ \E left \in {"none", "leaked"} : LeaveWith([ui EXCEPT ![i] = left], "failure")

\* The first PinentryUI is the one of --pinentry, or one to ask for the key.
FirstUi ==
  /\ pc = "ui"
  /\ IF with_pinentry \/ ~no_signature
     THEN Construct(1, IF no_signature THEN "skip" ELSE "key")
     ELSE pc' = "skip" /\ Stays /\ UNCHANGED <<config, ui>>

\* Slip: the password stays in the configuration.
SkipSignatureKeepsPassword ==
  /\ pc = "skip"
  /\ config_' = None
  /\ pc' = "second" /\ Stays /\ UNCHANGED <<loaded, key_, password_hash_, ui>>

\* dismiss_signature() and remove_password().
SkipSignature ==
  /\ pc = "skip"
  /\ config_' = None /\ password_hash_' = None
  /\ pc' = "second" /\ Stays /\ UNCHANGED <<loaded, key_, ui>>

\* Slip: a dialog that was cancelled is taken for one that was answered.
EnterKeyIgnoresCancel ==
  /\ pc = "key"
  /\ \E k \in Key \cup {"cancelled"} : key_' = k
  /\ pc' = "verify" /\ Stays /\ UNCHANGED <<loaded, config_, password_hash_, ui>>

\* The user types a key, or cancels, or the dialog fails.
EnterKey ==
  /\ pc = "key"
  /\ \/ /\ \E k \in Key : key_' = k
        /\ pc' = "verify" /\ Stays /\ UNCHANGED <<loaded, config_, password_hash_, ui>>
     \/ Leave("failure")

\* verify_signature() opens the file and looks at its length.
OpenSignature ==
  /\ pc = "verify"
  /\ \/ sigFile \in {NoFile, Truncated} /\ Leave("failure")
     \/ /\ sigFile \notin {NoFile, Truncated}
        /\ pc' = "read" /\ Stays /\ UNCHANGED <<config, ui>>

\* Slip: what is verified is the file, as it is now.
ReadSignatureOfFile ==
  /\ pc = "read"
  /\ \/ configFile # NoFile /\ sigFile = HMAC(key_, configFile)
        /\ config_' = None /\ pc' = "second"
     \/ ~(configFile # NoFile /\ sigFile = HMAC(key_, configFile))
        /\ pc' = "key" /\ UNCHANGED config_
  /\ Stays /\ UNCHANGED <<loaded, key_, password_hash_, ui>>

\* Slip: the text is given up after the first comparison.
ReadSignatureClears ==
  /\ pc = "read"
  /\ pc' = IF sigFile = HMAC(key_, config_) THEN "second" ELSE "key"
  /\ config_' = None
  /\ Stays /\ UNCHANGED <<loaded, key_, password_hash_, ui>>

\* Slip: the password is removed on this way too.
ReadSignatureDropsPassword ==
  /\ pc = "read"
  /\ \/ sigFile = HMAC(key_, config_) /\ config_' = None /\ password_hash_' = None /\ pc' = "second"
     \/ sigFile # HMAC(key_, config_) /\ pc' = "key" /\ UNCHANGED <<config_, password_hash_>>
  /\ Stays /\ UNCHANGED <<loaded, key_, ui>>

\* Then it reads the bytes, which may have been written or truncated meanwhile,
\* and compares them; when they differ the user is asked again.
ReadSignature ==
  /\ pc = "read"
  /\ \/ sigFile = HMAC(key_, config_) /\ config_' = None /\ pc' = "second"
     \/ sigFile # HMAC(key_, config_) /\ pc' = "key" /\ UNCHANGED config_
  /\ Stays /\ UNCHANGED <<loaded, key_, password_hash_, ui>>

\* Without --pinentry, the configured pinentry takes over.
SecondUi ==
  /\ pc = "second"
  /\ IF with_pinentry THEN pc' = "parser" /\ Stays /\ UNCHANGED <<config, ui>>
     ELSE Construct(2, "swap")

\* Slip: the first object is released, not destroyed.
SwapUiReleases ==
  /\ pc = "swap"
  /\ pc' = "parser" /\ Stays /\ UNCHANGED <<config, ui>>

\* The assignment to ui destroys the first one, if there is one.
SwapUi ==
  /\ pc = "swap"
  /\ \/ /\ ui' = [ui EXCEPT ![1] = IF @ = "up" THEN "reaped" ELSE @]
        /\ pc' = "parser" /\ Stays /\ UNCHANGED config
     \/ /\ ui[1] = "up"
        /\ pc' = "ended" /\ exit' = "aborted"
        /\ UNCHANGED <<files, signer, options, config, ui>>

\* Parser() reads the system call definitions.
LoadParser ==
  /\ pc = "parser"
  /\ \/ pc' = "tracing" /\ Stays /\ UNCHANGED <<config, ui>>
     \/ Leave("failure")

\* Tracer::run(): module Tracer.
Trace ==
  /\ pc = "tracing"
  /\ \E how \in {"target", "failure"} : Leave(how)

GravelBox ==
  \/ Main \/ LoadConfig \/ FirstUi \/ SkipSignature \/ EnterKey
  \/ OpenSignature \/ ReadSignature \/ SecondUi \/ SwapUi \/ LoadParser \/ Trace

\* A signature file that is removed or replaced while it is read can still be read:
\* that is the same as doing it after the read.
Others ==
  /\ Signer \/ EditConfig \/ RestoreSignature \/ (pc # "read" /\ ReplaceSignature)
  /\ UNCHANGED gravelVars

Next == GravelBox \/ Others

Spec == Init /\ [][Next]_vars

-----------------------------------------------------------------------------
(***************************************************************************)
(* Properties.                                                             *)
(***************************************************************************)
\* The rules that are enforced are those that were signed, with the very key
\* that the user has typed, whatever has become of the files meanwhile.
EnforcedIsSigned ==
  ~no_signature /\ pc \in {"second", "swap", "parser", "tracing"}
    => <<key_, loaded>> \in signed

\* When a password is asked for, it can be checked: the hash is the one of the
\* signed configuration, and key_ is the key that signed it.
PasswordIsCheckable ==
  pc = "tracing" /\ password_hash_ # None
    => password_hash_ = HashOf[loaded] /\ <<key_, loaded>> \in signed

\* "Incorrect key, or the configuration has been changed": a key is refused only
\* if the signature was made with another key or of another text, or is just
\* being written.
RefusalHasReason ==
  [][pc = "read" /\ pc' = "key"
       => \/ sigFile = Truncated
          \/ sigFile.key # key_
          \/ sigFile.data # loaded]_vars

\* The tracer gets one living pinentry, and none is left when GravelBox ends by
\* itself, except one whose constructor failed.
UisAccountedFor ==
  /\ pc = "tracing" => {i \in {1, 2} : ui[i] = "up"} = {IF with_pinentry THEN 1 ELSE 2}
  /\ pc = "ended" /\ exit # "aborted" => \A i \in {1, 2} : ui[i] # "up"

-----------------------------------------------------------------------------
(***************************************************************************)
(* The inductive invariant behind EnforcedIsSigned and PasswordIsCheckable *)
(* (StartupProofs).                                                        *)
(***************************************************************************)
\* Every signature on the disk was made by the signer.
SignatureIsMade ==
  sigFile \in {NoFile, Truncated} \cup {HMAC(p[1], p[2]) : p \in signed}

\* The signer has what it signs before it signs.
SignerHasBoth ==
  /\ spc \in {"ask", "open", "write"} => sconfig \in Content
  /\ spc \in {"open", "write"} => skey \in Key

\* Until it is verified, the text is the one that the rules were parsed from.
TextIsLoaded ==
  pc \in {"ui", "skip", "key", "verify", "read"} => loaded \in Content /\ config_ = loaded

\* The option decides between the two ways to start.
OptionObeyed ==
  /\ pc = "skip" => no_signature
  /\ pc \in {"key", "verify", "read"} => ~no_signature
  /\ pc \in {"verify", "read"} => key_ \in Key

\* The password hash is that of the loaded configuration, or is gone.
HashIsLoaded ==
  /\ password_hash_ # None => password_hash_ = HashOf[loaded]
  /\ no_signature /\ pc \in {"second", "swap", "parser", "tracing"} => password_hash_ = None

IInv ==
  /\ TypeOK
  /\ SignatureIsMade
  /\ SignerHasBoth
  /\ TextIsLoaded
  /\ OptionObeyed
  /\ HashIsLoaded
  /\ EnforcedIsSigned
=============================================================================
