------------------------------ MODULE Signing ------------------------------
(***************************************************************************)
(* The configuration file, its signature file, and the program that signs  *)
(* (main() of src/sign.cpp).  The signer reads the configuration, asks for *)
(* the key, which may take long, and then writes the signature; nothing    *)
(* locks either file, so the user may edit both meanwhile.                 *)
(*                                                                         *)
(* HMAC-SHA-512 is a free constructor: two MACs are equal only when key    *)
(* and data are.                                                           *)
(***************************************************************************)
EXTENDS Naturals, FiniteSets

CONSTANTS
  Content,    \* what the configuration file may contain
  Key,        \* signing keys that people type
  Password,   \* user decision passwords
  NoFile,     \* the file does not exist
  Truncated,  \* a signature file that is not 64 bytes long
  None,       \* no content, no key, no MAC
  MaxSigned   \* bound: different signatures that are ever made

ASSUME FileAssumption ==
  /\ NoFile \notin Content \cup [key : Key, data : Content]
  /\ Truncated \notin [key : Key, data : Content] \cup {NoFile}
  /\ None \notin Content \cup Key \cup [key : Key, data : Password]
ASSUME MaxSignedAssumption == MaxSigned \in Nat

VARIABLES
  configFile,  \* content of the configuration file
  sigFile,     \* content of the signature file
  spc,         \* where the signer is
  sconfig,     \* the signer's copy of the configuration
  skey,        \* the key it was given
  attached,    \* does its output stream lead to the signature file?
  outcome,     \* how its last execution ended
  signed       \* history: the pairs of key and content that were signed

files == <<configFile, sigFile>>
signer == <<spc, sconfig, skey, attached, outcome, signed>>

HMAC(key, data) == [key |-> key, data |-> data]

Signatures == [key : Key, data : Content]

SigningTypeOK ==
  /\ configFile \in Content \cup {NoFile}
  /\ sigFile \in Signatures \cup {NoFile, Truncated}
  /\ spc \in {"idle", "ask", "open", "write"}
  /\ sconfig \in Content \cup {None} /\ skey \in Key \cup {None}
  /\ attached \in BOOLEAN
  /\ outcome \in {"none", "success", "failure"}
  /\ signed \subseteq Key \X Content

SigningInit ==
  /\ configFile \in Content \cup {NoFile}
  /\ sigFile = NoFile
  /\ spc = "idle" /\ sconfig = None /\ skey = None /\ attached = FALSE
  /\ outcome = "none"
  /\ signed = {}

-----------------------------------------------------------------------------
(***************************************************************************)
(* The signer.                                                             *)
(***************************************************************************)
Finish(how) ==
  spc' = "idle" /\ outcome' = how /\ sconfig' = None /\ skey' = None /\ attached' = FALSE

\* It reads the file without looking at what is in it.
SignerStart ==
  /\ spc = "idle"
  /\ \/ configFile = NoFile /\ Finish("failure")
     \/ /\ configFile # NoFile
        /\ spc' = "ask" /\ sconfig' = configFile /\ outcome' = "none"
        /\ UNCHANGED <<skey, attached>>
  /\ UNCHANGED <<files, signed>>

\* The user types the key, or cancels, or the dialog fails.
SignerKey ==
  /\ spc = "ask"
  /\ \/ /\ \E k \in Key : skey' = k
        /\ spc' = "open" /\ UNCHANGED <<sconfig, attached, outcome>>
     \/ Finish("failure")
  /\ UNCHANGED <<files, signed>>

\* Opening the signature file for output truncates it.
SignerOpen ==
  /\ spc = "open"
  /\ \/ /\ sigFile' = Truncated /\ spc' = "write" /\ attached' = TRUE
        /\ UNCHANGED <<sconfig, skey, outcome>>
     \/ Finish("failure") /\ UNCHANGED sigFile
  /\ UNCHANGED <<configFile, signed>>

\* The signature reaches the file.
Signs(content) ==
  /\ sigFile' = HMAC(skey, content)
  /\ signed' = signed \cup {<<skey, content>>}
  /\ Cardinality(signed') <= MaxSigned

\* write() fills the stream's buffer, and success is reported.  The bytes leave
\* when the stream is destroyed: for the file, unless somebody has put another in
\* its place or none.  Nobody learns of it when the disk does not take them.
SignerWrite ==
  /\ spc = "write"
  /\ \/ attached /\ Signs(sconfig)
     \/ UNCHANGED <<sigFile, signed>>
  /\ Finish("success")
  /\ UNCHANGED configFile

\* The signer is killed.
SignerKilled ==
  /\ spc # "idle"
  /\ Finish("none")
  /\ UNCHANGED <<files, signed>>

Signer == SignerStart \/ SignerKey \/ SignerOpen \/ SignerWrite \/ SignerKilled

-----------------------------------------------------------------------------
(***************************************************************************)
(* The user edits the files: another configuration, an older signature.    *)
(***************************************************************************)
EditConfig ==
  /\ \E c \in Content \cup {NoFile} : configFile' = c
  /\ UNCHANGED <<sigFile, signer>>

\* Written over the file that is there.
RestoreSignature ==
  /\ \E p \in signed : sigFile' = HMAC(p[1], p[2])
  /\ UNCHANGED <<configFile, signer>>

\* Moved into its place, or removed: the signer's stream leads nowhere from now on.
ReplaceSignature ==
  /\ sigFile' \in {HMAC(p[1], p[2]) : p \in signed} \cup {NoFile}
  /\ attached' = FALSE
  /\ UNCHANGED <<configFile, spc, sconfig, skey, outcome, signed>>

-----------------------------------------------------------------------------
\* What sign.cpp prints, that the configuration is signed successfully: the file then
\* holds the signature of what the signer read, under the key that it was given.
SuccessMeansSigned ==
  [][outcome # "success" /\ outcome' = "success"
       => sigFile' = HMAC(skey, sconfig)]_<<files, signer>>
=============================================================================
