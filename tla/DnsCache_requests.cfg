\* Two requests and two writes over two accounts, and reloads between them.
SPECIFICATION Spec
CONSTANTS
  Callers = {c1, c2}
  Accounts = {a1, a2}
  NoAccount = none
  Configs <- MCConfigs
  MaxWrites = 2
SYMMETRY Symmetry
INVARIANTS CopyMirrorsZone RemembersConfiguredZone
