---------------------------- MODULE SignedStart ----------------------------
(***************************************************************************)
(* What the start of GravelBox promises to whoever signs configurations,   *)
(* without files, dialogs or pinentry: the rules are read once; they are   *)
(* enforced only if they have been approved under the key that is typed,   *)
(* or approval is waived; the password of approved rules is demanded, and  *)
(* that of others never; and nothing of it changes while they are          *)
(* enforced.  Startup implements this specification (StartupRefinement).   *)
(***************************************************************************)
CONSTANTS
  Content,  \* rules, with the password that they set
  Key,      \* signing keys
  HashOf,   \* the password that rules set, or None
  None      \* no rules, no key, no password

VARIABLES
  waived,    \* is no approval asked for?
  approved,  \* the pairs of key and rules that have been signed
  phase,     \* starting, enforcing or over
  rules,     \* the rules that were read
  key,       \* the key that approves what is enforced
  demand     \* the password that is demanded of the user

vars == <<waived, approved, phase, rules, key, demand>>

Init ==
  /\ waived \in BOOLEAN /\ approved = {}
  /\ phase = "starting" /\ rules = None /\ key = None /\ demand = None

\* Somebody signs something, at any time.
Approve ==
  /\ \E p \in Key \X Content : approved' = approved \cup {p}
  /\ UNCHANGED <<waived, phase, rules, key, demand>>

Read ==
  /\ phase = "starting" /\ rules = None
  /\ rules' \in Content
  /\ UNCHANGED <<waived, approved, phase, key, demand>>

EnforceUnsigned ==
  /\ waived
  /\ key' = None /\ demand' = None

EnforceSigned ==
  /\ ~waived
  /\ key' \in Key /\ <<key', rules>> \in approved /\ demand' = HashOf[rules]

Enforce ==
  /\ phase = "starting" /\ rules # None
  /\ EnforceUnsigned \/ EnforceSigned
  /\ phase' = "enforcing"
  /\ UNCHANGED <<waived, approved, rules>>

End ==
  /\ phase # "over" /\ phase' = "over"
  /\ key' = None /\ demand' = None
  /\ UNCHANGED <<waived, approved, rules>>

Next == Approve \/ Read \/ Enforce \/ End

Spec == Init /\ [][Next]_vars
=============================================================================
