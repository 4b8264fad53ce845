\* A reload while a cron job is in flight.
CONSTANTS
  Runs = {r1}
  Callers = {c1}
  ka = ka
  kb = kb
  RuleKeys <- MCKeys
  Configs <- FixedConfigs
  MaxReplaces = 2
  MayShutDown = FALSE
  None = None
SPECIFICATION FairSpec
PROPERTY CallsReturn
CHECK_DEADLOCK FALSE
