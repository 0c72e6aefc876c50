\* Two threads and two tasks, no symmetry: liveness and the refinement.
SPECIFICATION Spec
CONSTANTS
  Callers = {c1, c2}
  Tasks = {t1, t2}
  Channels = {}
  None = None
PROPERTIES
  CallsReturn
  StopTakesEffect
  ImplementsExecutor
