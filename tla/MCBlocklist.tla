----------------------------- MODULE MCBlocklist -----------------------------
(***************************************************************************)
(* Blocklist for TLC: callers are alike, and so are rules.                 *)
(***************************************************************************)
EXTENDS Blocklist, TLC

Symmetry == Permutations(Callers) \cup Permutations(Rules)
=============================================================================
