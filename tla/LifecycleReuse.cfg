\* Three channels, none with TLS, take turns on two descriptors.
SPECIFICATION Spec
CONSTANTS
  a = a
  b = b
  c = c
  Channels <- Three
  Fds <- Descriptors
  NoFd <- Minus
  Secure <- Nobody
  Outcomes <- Connecting
  Allowed <- Closes
  MaxDepth = 1
SYMMETRY Symmetry
INVARIANTS
  TypeOK
  CallbackOrder
  ViewsAgree
PROPERTIES
  ActiveIsConnected
\* All channels closed: nothing is left to do.
CHECK_DEADLOCK FALSE
