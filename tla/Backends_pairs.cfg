CONSTANTS
  Requests = {r1, r2}
  Top = {a}
  Kids = {x, y}
  Folder = d
  Nothing = nothing
  Kinds = {"local", "s3", "smb"}
  PageSize = 1
  MaxFaults = 2
SPECIFICATION Spec
PROPERTIES NothingLost AnswersAreTrue PartialFiles
SYMMETRY Alike
CHECK_DEADLOCK FALSE
