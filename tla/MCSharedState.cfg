\* Two agents that write, post, retract and repeat their calls.
CONSTANTS
  None = None
  Agents = {a1, a2}
  Keys = {m1, m2}
  Contents = {c1}
  IdemKeys = {i1}
  IdemTTL = 1
  LockWait = 1
  MaxEvents = 3
  MaxClock = 2
SYMMETRY Interchangeable
\* Time and events are bounded: the instance comes to an end.
CHECK_DEADLOCK FALSE
SPECIFICATION Spec
INVARIANTS
  OneEffectPerKey
  AnswersAreTrue
  NoLostUpdate
  NewestWriteWins
  ProjectionIsLog
