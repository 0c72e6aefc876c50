\* A graceful close of a server nobody has connected to yet: sync never returns.
SPECIFICATION Spec
CONSTANTS
  c1 = c1
  c2 = c2
  c3 = c3
  p = p
  l1 = l1
  l2 = l2
  None = None
  Conns <- ThreeConns
  Parent = p
  Children <- TwoChildren
  Secure = TRUE
PROPERTY
  CloseReturns
CHECK_DEADLOCK FALSE
