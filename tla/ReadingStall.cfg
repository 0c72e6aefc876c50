\* A TLS record is read in part and the rest waits for the next record.
SPECIFICATION Spec
CONSTANTS
  Rounds = 3
  Initial = 2
  Min = 1
  Max = 4
  Records = {6}
  MaxBytes = 12
PROPERTY
  ArrivedIsDelivered
CHECK_DEADLOCK FALSE
