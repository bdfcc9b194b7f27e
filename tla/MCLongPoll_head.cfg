\* A reader that goes on from the head_seq of each answer; its pages have
\* room for every row.
CONSTANTS
  r1 = r1
  x = x
  Readers = {r1}
  Tags = {x, y}
  Follows <- OneReader
  Limit = 2
  ByHead = TRUE
  MaxRows = 2
SPECIFICATION Spec
INVARIANT ReceivedIsPrefix
