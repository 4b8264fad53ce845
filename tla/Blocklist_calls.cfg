SPECIFICATION Spec
CONSTANTS
  Callers = {c1, c2}
  Rules = {r1, r2}
  Empty = Empty
  Garbled = Garbled
  NoFile = NoFile
  MaxEdits = 1
SYMMETRY Symmetry
INVARIANTS
  TypeOK
  FileIsWhole
  SettledAgree
  OtherSectionsKept
