\* A channel is closed twice; its descriptor is reused in between.
SPECIFICATION Spec
CONSTANTS
  a = a
  b = b
  c = c
  Channels <- Pair
  Fds <- OneDescriptor
  NoFd <- Minus
  Secure <- Nobody
  Outcomes <- Connecting
  Allowed <- ClosesTwice
  MaxDepth = 2
INVARIANTS
  CallbackOrder
\* All channels closed: nothing is left to do.
CHECK_DEADLOCK FALSE
