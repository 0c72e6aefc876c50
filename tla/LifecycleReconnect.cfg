\* A handler connects anew in channel_unregistered.
SPECIFICATION Spec
CONSTANTS
  a = a
  b = b
  c = c
  Channels <- Pair
  Fds <- OneDescriptor
  NoFd <- Minus
  Secure <- Nobody
  Outcomes <- Connecting
  Allowed <- Reconnects
  MaxDepth = 2
PROPERTIES
  ConnectAnswered
\* All channels closed: nothing is left to do.
CHECK_DEADLOCK FALSE
