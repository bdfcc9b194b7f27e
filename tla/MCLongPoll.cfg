\* A reader of a stream another stream's rows are mixed with.
CONSTANTS
  r1 = r1
  x = x
  Readers = {r1}
  Tags = {x, y}
  Follows <- OneReader
  Limit = 1
  ByHead = FALSE
  MaxRows = 4
SPECIFICATION FairSpec
INVARIANTS
  NoLostWakeup
  ReceivedIsPrefix
PROPERTIES
  EveryRowIsReceived
