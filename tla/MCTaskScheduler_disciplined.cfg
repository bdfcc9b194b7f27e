\* Two tasks that may depend on each other, clients that stop using a claim
\* once they ended it.
CONSTANTS
  Agents = {a1, a2}
  Tasks = {t1, t2}
  Ghosts = {g}
  NULL = NULL
  LeaseTTLs = {3}
  DefaultTTL = 1
  MaxAttempts = 2
  Priorities = {0, 1}
  LateCalls = FALSE
  LockWait = 1
  MaxClock = 2
  MaxToken = 2
SPECIFICATION Spec
SYMMETRY AllSymmetry
INVARIANTS
  CommittedOnce
  DependenciesStayDone
  CurrentTaskIsLive
PROPERTIES
  DeadlineSlipsByLockWait
