\* Two channels, one with TLS, on two descriptors; a connect may begin in any way.
SPECIFICATION Spec
CONSTANTS
  a = a
  b = b
  c = c
  Channels <- Pair
  Fds <- Descriptors
  NoFd <- Minus
  Secure <- OneSecure
  Outcomes <- AnyOutcome
  Allowed <- Disciplined
  MaxDepth = 1
INVARIANTS
  CallbackOrder
  ViewsAgree
PROPERTIES
  ActiveIsOpen
\* All channels closed: nothing is left to do.
CHECK_DEADLOCK FALSE
