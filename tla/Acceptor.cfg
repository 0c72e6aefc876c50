\* Three clients, two child loops, TLS; closed by force, gracefully or not at
\* all, and the groups left in either order.
SPECIFICATION Spec
CONSTANTS
  c1 = c1
  c2 = c2
  c3 = c3
  p = p
  l1 = l1
  l2 = l2
  None = None
  Conns <- ThreeConns
  Parent = p
  Children <- TwoChildren
  Secure = TRUE
INVARIANTS
  TypeOK
  OneHolder
  NothingOutlivesItsGroup
PROPERTIES
  ConnectionServed
  ForcedCloseReturns
CHECK_DEADLOCK FALSE
