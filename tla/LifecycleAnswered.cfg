\* Two channels, one with TLS, on two descriptors; user code only closes them.
SPECIFICATION Spec
CONSTANTS
  a = a
  b = b
  c = c
  Channels <- Pair
  Fds <- Descriptors
  NoFd <- Minus
  Secure <- OneSecure
  Outcomes <- Connecting
  Allowed <- Closes
  MaxDepth = 1
PROPERTIES
  ConnectAnswered
\* All channels closed: nothing is left to do.
CHECK_DEADLOCK FALSE
