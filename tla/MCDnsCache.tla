----------------------------- MODULE MCDnsCache -----------------------------
(***************************************************************************)
(* DnsCache for TLC: callers are alike, and so are accounts.               *)
(***************************************************************************)
EXTENDS DnsCache

\* The zone is listed for one of the accounts, or there is no token at all.
MCConfigs == {[account |-> acc, listed |-> acc # NoAccount] :
                acc \in Accounts \cup {NoAccount}}

Symmetry == Permutations(Callers) \cup Permutations(Accounts)
=============================================================================
