\* A listener writes from inside a send pass.
SPECIFICATION Spec
CONSTANTS
  MaxWrites = 3
  MaxMarks = 1
  MaxDepth = 4
  Sizes <- MCSizes
  Low = 1
  High = 2
  Allowed <- WritingListener
  CloseMark = CloseMark
INVARIANTS
  TypeOK
  WritableWhenDrained
\* All writes made and the channel closed: the loop blocks in select().
CHECK_DEADLOCK FALSE
