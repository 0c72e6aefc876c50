\* Two connects run into their deadline; the listener of one connects anew; the
\* network answers nothing.
SPECIFICATION SilentSpec
CONSTANTS
  a = a
  b = b
  c = c
  Channels <- Three
  Fds <- Descriptors
  NoFd <- Minus
  Secure <- Nobody
  Outcomes <- Connecting
  Allowed <- Retries
  MaxDepth = 2
PROPERTIES
  ConnectAnswered
\* All channels closed: nothing is left to do.
CHECK_DEADLOCK FALSE
