----------------------------- MODULE MCPinentry -----------------------------
(***************************************************************************)
(* Instances of Pinentry: a password that pinentry writes as it is, and    *)
(* one that it escapes and spreads over two lines.                         *)
(***************************************************************************)
EXTENDS PinentryRefinement

CONSTANTS plain, long, escaped, rest

MCDataLines == [s \in {plain, long} |-> IF s = plain THEN <<plain>> ELSE <<escaped, rest>>]
=============================================================================
