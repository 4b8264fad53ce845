------------------------------ MODULE FileCopy ------------------------------
(***************************************************************************)
(* What a caller may expect of copying one file: the bytes of the source   *)
(* appear in the destination in any order until the call returns; nothing  *)
(* is written after that, and nil is returned only for a whole copy.       *)
(***************************************************************************)

CONSTANT Whole   \* the bytes of the source

VARIABLES
  written,  \* those that are in the destination
  result    \* "none" until the call returns, then "nil" or "error"

Init == written = {} /\ result = "none"

Write ==
  /\ result = "none"
  /\ written \subseteq written' /\ written' \subseteq Whole
  /\ UNCHANGED result

Return ==
  /\ result = "none"
  /\ \/ result' = "nil" /\ written = Whole
     \/ result' = "error"
  /\ UNCHANGED written

Next == Write \/ Return

Spec == Init /\ [][Next]_<<written, result>>
=============================================================================
