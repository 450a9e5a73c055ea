-------------------------- MODULE MCSignerSession --------------------------
(***************************************************************************)
(* Two keys and two names: an ambiguous name, a renaming and a departure   *)
(* each fit.                                                               *)
(***************************************************************************)
EXTENDS SignerSession, TLC

CONSTANTS a, b, X, Y

Alike == Permutations({a, b}) \cup Permutations({X, Y})
=============================================================================
