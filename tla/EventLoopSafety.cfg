\* Three threads race to start, feed and stop the loop: two is the least for
\* every check-then-act, the third sees what both leave behind.
SPECIFICATION Spec
CONSTANTS
  Callers = {c1, c2, c3}
  Tasks = {t1, t2}
  Channels = {k1}
  None = None
SYMMETRY Symmetry
INVARIANTS
  TypeOK
  NoLostWakeup
  PollingIsSafe
  ForeignCleanupFindsNoChannels
  ResourcesReleased
  StartedOnce
PROPERTIES
  ExecutorSafety
