------------------------------ MODULE MCGateway ------------------------------
(***************************************************************************)
(* Gateway for TLC.                                                        *)
(***************************************************************************)
EXTENDS Gateway, TLC

\* Requests are alike.
Alike == Permutations(Requests)

=============================================================================
