\* Bytes arrive between the last round's recv and its look: the count is passed.
SPECIFICATION Spec
CONSTANTS
  Rounds = 3
  Initial = 2
  Min = 1
  Max = 4
  Records = {0}
  MaxBytes = 12
INVARIANT
  RoundsAreLimited
CHECK_DEADLOCK FALSE
