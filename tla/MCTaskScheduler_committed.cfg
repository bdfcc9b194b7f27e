\* As the late run: clients may use a claim they have ended.
CONSTANTS
  Agents = {a1, a2}
  Tasks = {t1}
  Ghosts = {}
  NULL = NULL
  LeaseTTLs = {0, 2}
  DefaultTTL = 1
  MaxAttempts = 2
  Priorities = {0}
  LateCalls = TRUE
  LockWait = 1
  MaxClock = 3
  MaxToken = 3
SPECIFICATION Spec
INVARIANTS
  CommittedOnce
