------------------------------ MODULE MCBackends ------------------------------
(***************************************************************************)
(* Backends for TLC: two requests, a name beside the directory and two in  *)
(* it, on a backend of each kind, with two calls that fail.                *)
(***************************************************************************)
EXTENDS Backends

\* Requests are alike, and so are the names in the directory.
Alike == Permutations(Requests) \cup Permutations(Kids)

=============================================================================
