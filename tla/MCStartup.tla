----------------------------- MODULE MCStartup -----------------------------
(***************************************************************************)
(* Instances of Startup: one configuration with a password hashed under    *)
(* the key k1, one without a password, and one that is not well formed.    *)
(***************************************************************************)
EXTENDS StartupRefinement

CONSTANTS guarded, plain, broken, k1, p1

MCHashOf == [c \in Content |-> IF c = guarded THEN HMAC(k1, p1) ELSE None]
=============================================================================
