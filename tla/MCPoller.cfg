\* A budget that two attempts use up; two retries; two faults.
CONSTANTS
  None = None
  Budget = 3
  MaxRetries = 2
  MaxCost = 2
  MaxDirectives = 3
  MaxSessions = 3
  MaxFaults = 2
SPECIFICATION Spec
INVARIANTS
  BudgetHolds
  Remembers
  FreshStaysApart
\* The directives and the faults are bounded, and a poller over budget waits.
CHECK_DEADLOCK FALSE
