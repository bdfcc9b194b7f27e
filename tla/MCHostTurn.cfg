\* A thread that moves between two hosts; one ordinary command and one that
\* both deny-lists match.
CONSTANTS
  None = None
  Hosts = {h1, h2}
  Commands = {ls, rm}
  Builtin = {rm}
  LocalDeny = {rm}
  MemoryBound = 2
  MaxTurns = 2
SYMMETRY Interchangeable
SPECIFICATION Spec
INVARIANTS
  RunsAsDecided
  OneVerdict
  RemembersLastTurn
  MemoryIsWhole
PROPERTIES
  ImplementsWarrant
