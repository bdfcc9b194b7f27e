\* A host with two lanes and a poller serve the same two threads; two
\* priorities.
CONSTANTS
  Hosts = {h}
  Pollers = {p}
  Threads = {s, t}
  Priorities = {0, 1}
  Capacity = 2
  Limit = 2
  MaxDirectives = 2
SPECIFICATION FairSpec
INVARIANTS
  StartedOnce
  LanesAreSerial
  RunningIsAccountedFor
PROPERTIES
  FinalIsFinal
  ImplementsOneShot
  PendingIsTaken
