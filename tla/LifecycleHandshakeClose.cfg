\* A handler closes the channel when the handshake is complete.
SPECIFICATION Spec
CONSTANTS
  a = a
  b = b
  c = c
  Channels <- Pair
  Fds <- Descriptors
  NoFd <- Minus
  Secure <- OneSecure
  Outcomes <- Connecting
  Allowed <- HandshakeCloses
  MaxDepth = 1
PROPERTIES
  ActiveIsConnected
\* All channels closed: nothing is left to do.
CHECK_DEADLOCK FALSE
