\* A channel is closed and replaced by the handler of another, with an event of its own
\* still in the batch.
SPECIFICATION Spec
CONSTANTS
  a = a
  b = b
  c = c
  Channels <- Three
  Fds <- Descriptors
  NoFd <- Minus
  Secure <- Nobody
  Outcomes <- Connecting
  Allowed <- Replaces
  MaxDepth = 2
PROPERTIES
  ActiveIsConnected
\* All channels closed: nothing is left to do.
CHECK_DEADLOCK FALSE
