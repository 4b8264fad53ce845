----------------------------- MODULE MCCopyJobs -----------------------------
(* Instances of CopyJobs for TLC. *)
EXTENDS CopyJobs, TLC

CONSTANTS a, b, x, y, a1, a2, b1

Copy(s, d) == [src |-> s, dst |-> d]

\* Two blocks in a, one in b; x is taken, the object y is not there.
MCDisks ==
  {[p \in Paths |-> CASE p = a -> <<a1, a2>> [] p = b -> <<b1>>
                      [] p = x -> <<b1>> [] OTHER -> NoFile]}

\* Two files, the first listed twice; one of them alone, with and without the
\* overwrite flag; another source for the same destination; the object that is
\* made by these copied on; a file onto itself.
MCRequests ==
  { [items |-> <<Copy(a, x), Copy(b, y), Copy(a, x)>>, overwrite |-> TRUE],
    [items |-> <<Copy(a, x)>>, overwrite |-> TRUE],
    [items |-> <<Copy(a, y)>>, overwrite |-> FALSE],
    [items |-> <<Copy(b, y)>>, overwrite |-> FALSE],
    [items |-> <<Copy(y, x)>>, overwrite |-> TRUE],
    [items |-> <<Copy(a, a)>>, overwrite |-> TRUE] }

JobSymmetry == Permutations(Jobs)
=============================================================================
