\* A burst larger than what the sockets and the echo server hold.
SPECIFICATION Spec
CONSTANTS
  N = 1
  Messages = 3
  Size = 1
  Window = 2
  Cases <- AllCases
  MaxFaults = 0
INVARIANT BurstGoesOn
CHECK_DEADLOCK FALSE
