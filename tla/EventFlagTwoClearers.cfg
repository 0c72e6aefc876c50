\* Two threads set and clear.
\* The system really stops: clear() blocks on a byte that another clear() took,
\* and wait() on one that nobody is left to write.
CHECK_DEADLOCK FALSE
SPECIFICATION Spec
CONSTANTS
  s1 = s1
  s2 = s2
  w1 = w1
  w2 = w2
  Setters <- TwoControllers
  Clearers <- TwoControllers
  Waiters <- OneWaiter
  MaxBytes = 2
PROPERTIES
  RaisedFlagAwakens
