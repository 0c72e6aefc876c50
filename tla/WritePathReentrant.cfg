\* Every callback may write and close.
SPECIFICATION Spec
CONSTANTS
  MaxWrites = 3
  MaxMarks = 1
  MaxDepth = 4
  Sizes <- MCSizes
  Low = 1
  High = 2
  Allowed <- Everywhere
  CloseMark = CloseMark
INVARIANTS
  OkMeansSent
PROPERTIES
  NoOvertaking
  CloseInTurn
  CloseGoesThrough
\* All writes made and the channel closed: the loop blocks in select().
CHECK_DEADLOCK FALSE
