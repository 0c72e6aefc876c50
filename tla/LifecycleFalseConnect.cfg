\* The first call of connect may fail at once.
SPECIFICATION Spec
CONSTANTS
  a = a
  b = b
  c = c
  Channels <- Pair
  Fds <- OneDescriptor
  NoFd <- Minus
  Secure <- Nobody
  Outcomes <- AtOnce
  Allowed <- Connects
  MaxDepth = 2
PROPERTIES
  ActiveIsConnected
\* All channels closed: nothing is left to do.
CHECK_DEADLOCK FALSE
