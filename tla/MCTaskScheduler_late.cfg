\* One task, two agents, up to three claims; any token ever granted may be
\* presented at any time, and lease_ttl_s may be 0.
CONSTANTS
  Agents = {a1, a2}
  Tasks = {t1}
  Ghosts = {}
  NULL = NULL
  LeaseTTLs = {0, 2}
  DefaultTTL = 1
  MaxAttempts = 2
  Priorities = {0}
  LateCalls = TRUE
  LockWait = 1
  MaxClock = 3
  MaxToken = 3
SPECIFICATION FairSpec
INVARIANTS
  LeaseMatchesStatus
  OpenClaimIsTheHolders
  TokensNeverReused
  AttemptsAreBudgeted
  NoZombieWrite
PROPERTIES
  ImplementsFencedLease
  ExpiredIsRequeued
