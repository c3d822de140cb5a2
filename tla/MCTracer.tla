------------------------------ MODULE MCTracer ------------------------------
(***************************************************************************)
(* Instances of Tracer for model checking.  A system call is named for the *)
(* decision the configuration makes about it, or for its effect.           *)
(***************************************************************************)
EXTENDS TracerRefinement, TLC

MCEffect == [s \in Syscall |-> IF s \in Effects THEN s ELSE "plain"]

MCPolicy ==
  [s \in Syscall |-> CASE s = "unlink" -> "DENY"
                       [] s \in {"open", "connect"} -> "ASK"
                       [] OTHER -> "ALLOW"]

MCReadsMemory == Syscall \cap {"open", "exec"}

\* Everything but the root is interchangeable.
Symmetry == Permutations(Task \ {Root})
=============================================================================
