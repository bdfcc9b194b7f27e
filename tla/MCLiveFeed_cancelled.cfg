\* A task is cancelled while it awaits BEGIN IMMEDIATE.
CONSTANTS
  Writers = {w1, w2}
  Pages = {p1}
  BatchSize = 1
  MaxRows = 1
  BackfillLimit = 1
SPECIFICATION Spec
INVARIANT NextWriterCanBegin
