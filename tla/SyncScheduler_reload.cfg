\* Reloads, triggers, ticks and shutdown in any order.
\* The system may really stop: see SyncScheduler_deadlock.cfg.
CONSTANTS
  Runs = {r1, r2, r3}
  Callers = {c1, c2}
  ka = ka
  kb = kb
  RuleKeys <- MCKeys
  Configs <- MCConfigs
  MaxReplaces = 2
  MayShutDown = TRUE
  None = None
SPECIFICATION Spec
SYMMETRY RunCallerSymmetry
INVARIANTS TypeOK CronRunsAreCurrent RunningFlagHasOwner NoOverlapUnlessCrossed ListTellsTruthUnlessCrossed
CHECK_DEADLOCK FALSE
