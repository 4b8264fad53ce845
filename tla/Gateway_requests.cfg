CONSTANTS
  Requests = {p, q}
  Users = {u}
  Addresses = {home}
  MaxAttempts = 1
  Window = 2
  SessionTime = 2
  MaxClock = 2
  MaxPassword = 2
  MaxSessions = 1
  MaxFile = 2
  MaxFaults = 1
SPECIFICATION Spec
INVARIANTS LimitHolds AccessIsEarned FailedLoginsLeaveNothing ServicesAgree
PROPERTY SessionsStayEnded
SYMMETRY Alike
CHECK_DEADLOCK FALSE
