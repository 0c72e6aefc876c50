\* Two threads set and clear.
SPECIFICATION Spec
CONSTANTS
  s1 = s1
  s2 = s2
  w1 = w1
  w2 = w2
  Setters <- TwoControllers
  Clearers <- TwoControllers
  Waiters <- OneWaiter
  MaxBytes = 2
INVARIANTS
  ClearedFlagBlocks
