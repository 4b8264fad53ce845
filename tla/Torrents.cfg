SPECIFICATION Spec
CONSTANTS
  Requests = {r}
  Watch = w
  Nobody = nobody
  Hashes = {h1, h2}
  NoHash = none
  MaxId = 2
  MaxEvents = 2
INVARIANTS
  EntriesAreTorrents
  LoneCallsAreHonest
  GivesUpOnlyAfterRestart
PROPERTIES
  TableCatchesUp
