---------------------------- MODULE Subsequences ----------------------------
(***************************************************************************)
(* A sequence without some of its elements, the rest in their order: what  *)
(* the code builds with a loop that appends what it keeps.                 *)
(***************************************************************************)
EXTENDS Naturals, FiniteSets

\* The elements of s at the places S.
SubSeqAt(s, S) ==
  [k \in 1..Cardinality(S) |->
     s[CHOOSE n \in S : Cardinality({m \in S : m <= n}) = k]]
=============================================================================
