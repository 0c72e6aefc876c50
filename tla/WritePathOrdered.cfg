\* Callbacks of a running pass or close do not write or close.
SPECIFICATION Spec
CONSTANTS
  MaxWrites = 3
  MaxMarks = 1
  MaxDepth = 3
  Sizes <- MCSizes
  Low = 1
  High = 2
  Allowed <- TopLevel
  CloseMark = CloseMark
INVARIANTS
  NoWriteForgotten
  BytesAccountedFor
  InterestWhilePending
  NoGap
  WritableWhenDrained
PROPERTIES
  QueueAnswered
\* All writes made and the channel closed: the loop blocks in select().
CHECK_DEADLOCK FALSE
