\* Two tasks that write; one page, whose backfill has room for one event.
CONSTANTS
  Writers = {w1, w2}
  Pages = {p1}
  BatchSize = 2
  MaxRows = 2
  BackfillLimit = 1
SPECIFICATION FairSpec
INVARIANTS
  WritesAreSerial
  NothingFallsBetween
PROPERTIES
  ImplementsLongPoll
  AnnouncementsEnd
