\* Two jobs over shared sources and destinations, one of them an object.  All jobs end.
SPECIFICATION FairSpec
CONSTANTS
  Jobs = {j1, j2}
  a = a
  b = b
  x = x
  y = y
  a1 = a1
  a2 = a2
  b1 = b1
  NoFile = NoFile
  Paths = {a, b, x, y}
  Objects = {y}
  Hole = Hole
  Blocks = {a1, a2, b1, Hole}
  Requests <- MCRequests
  Disks <- MCDisks
INVARIANTS PairExclusive LockHasOwner Accounting
PROPERTIES CopiedFileIsWhole KeepsExistingFiles JobsEnd
CHECK_DEADLOCK FALSE
