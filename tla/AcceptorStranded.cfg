\* A child loop is stopped with an accepted connection in its queue.
SPECIFICATION Spec
CONSTANTS
  c1 = c1
  c2 = c2
  c3 = c3
  p = p
  l1 = l1
  l2 = l2
  None = None
  Conns <- ThreeConns
  Parent = p
  Children <- TwoChildren
  Secure = TRUE
INVARIANT
  NoneStranded
CHECK_DEADLOCK FALSE
