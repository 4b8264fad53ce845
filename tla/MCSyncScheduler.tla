-------------------------- MODULE MCSyncScheduler --------------------------
(* Instances of SyncScheduler for TLC. *)
EXTENDS SyncScheduler, TLC

CONSTANTS ka, kb

On(k)  == [key |-> k, enabled |-> TRUE]
Off(k) == [key |-> k, enabled |-> FALSE]

MCKeys == {ka, kb}

\* A rule is replaced at its index, switched off, dropped, or moves.
MCConfigs == {<<On(ka)>>, <<On(kb), On(ka)>>, <<Off(ka)>>}

\* One enabled schedule for the whole life of the process.
FixedConfigs == {<<On(ka), On(kb)>>}

\* Schedules that are only ever triggered by hand: cron never starts.
ManualConfigs == {<<Off(ka)>>, <<>>}

RunSymmetry == Permutations(Runs)
RunCallerSymmetry == Permutations(Runs) \cup Permutations(Callers)
=============================================================================
