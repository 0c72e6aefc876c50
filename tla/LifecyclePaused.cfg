\* A channel that reads nothing and writes nothing is closed.
SPECIFICATION Spec
CONSTANTS
  a = a
  b = b
  c = c
  Channels <- Pair
  Fds <- OneDescriptor
  NoFd <- Minus
  Secure <- Nobody
  Outcomes <- Connecting
  Allowed <- Pauses
  MaxDepth = 2
INVARIANTS
  ClosedIsTold
\* All channels closed: nothing is left to do.
CHECK_DEADLOCK FALSE
