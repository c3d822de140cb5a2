------------------------- MODULE StartupRefinement -------------------------
(***************************************************************************)
(* Startup implements SignedStart: the refinement mapping.  GravelBox      *)
(* enforces from the moment at which run() is past the signature.          *)
(***************************************************************************)
EXTENDS Startup

Enforcing == pc \in {"second", "swap", "parser", "tracing"}

phaseBar ==
  CASE Enforcing                    -> "enforcing"
    [] pc = "ended"                 -> "over"
    [] ~Enforcing /\ pc # "ended"  -> "starting"

keyBar == IF Enforcing /\ ~no_signature THEN key_ ELSE None
demandBar == IF Enforcing THEN password_hash_ ELSE None

A == INSTANCE SignedStart WITH
       waived <- no_signature, approved <- signed, phase <- phaseBar, rules <- loaded,
       key <- keyBar, demand <- demandBar

\* However the files are edited, signed, replaced and removed meanwhile, GravelBox
\* goes on only with the rules that it read once and that were signed, by then, under
\* the typed key; their password is not lost on the way, and rules that nobody had to
\* sign demand none.
RefinesSignedStart == A!Spec

-----------------------------------------------------------------------------
\* What the proof needs besides IInv: the hash stays with the text until the text is
\* verified or given up, and what was verified keeps it.
HashIsKept ==
  /\ pc \in {"main", "load"} => loaded = None
  /\ pc \in {"ui", "skip", "key", "verify", "read"} => password_hash_ = HashOf[loaded]
=============================================================================
