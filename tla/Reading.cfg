\* A plain socket and one with TLS, buffers of 1 to 4 bytes, three rounds.
SPECIFICATION Spec
CONSTANTS
  Rounds = 3
  Initial = 2
  Min = 1
  Max = 4
  Records = {0, 6}
  MaxBytes = 12
INVARIANTS
  TypeOK
  ClosedAfterAll
PROPERTIES
  EndIsSeen
  ArrivedIsRead
CHECK_DEADLOCK FALSE
