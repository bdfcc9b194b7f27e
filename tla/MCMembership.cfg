\* One session, two agents, two calls at once.
CONSTANTS
  None = None
  Unsettled = Unsettled
  Sessions = {s1}
  Agents = {a1, a2}
  Names = {n1, n2}
  Header <- SameHeader
  Slots = {c1, c2}
  MaxClock = 1
SYMMETRY Interchangeable
SPECIFICATION Spec
INVARIANTS
  MembershipTypeOK
  ActsAsJoined
  PresenceIsEarned
