SPECIFICATION Spec
CONSTANTS
  Torrents = {t1}
  Callers = {c1, c2}
  NoTorrent = none
  Limits = {0, 1, 2}
  MaxRatio = 1
  MaxFailures = 1
INVARIANTS
  StoppedIsMarked
  LimitIsTheSessions
PROPERTIES
  LiftedLimitReleases
  OverLimitIsStopped
