\* The application writes after the close.
SPECIFICATION Spec
CONSTANTS
  MaxWrites = 2
  MaxMarks = 1
  MaxDepth = 3
  Sizes <- MCSizes
  Low = 1
  High = 2
  Allowed <- WriteAfterClose
  CloseMark = CloseMark
INVARIANTS
  ClosedAnswersWrites
\* All writes made and the channel closed: the loop blocks in select().
CHECK_DEADLOCK FALSE
