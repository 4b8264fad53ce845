\* No cron job ever runs: reload and shutdown against manual runs.
CONSTANTS
  Runs = {r1, r2}
  Callers = {c1, c2}
  ka = ka
  kb = kb
  RuleKeys <- MCKeys
  Configs <- ManualConfigs
  MaxReplaces = 2
  MayShutDown = TRUE
  None = None
SPECIFICATION FairSpec
PROPERTIES CallsReturn ScheduleFreed
CHECK_DEADLOCK FALSE
