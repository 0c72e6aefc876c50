\* A listener closes the channel from inside a send pass.
SPECIFICATION Spec
CONSTANTS
  MaxWrites = 3
  MaxMarks = 1
  MaxDepth = 4
  Sizes <- MCSizes
  Low = 1
  High = 2
  Allowed <- ForcingListener
  CloseMark = CloseMark
INVARIANTS
  LoopSurvives
\* All writes made and the channel closed: the loop blocks in select().
CHECK_DEADLOCK FALSE
