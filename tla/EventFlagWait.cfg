\* One thread sets and clears, one waits.
SPECIFICATION Spec
CONSTANTS
  s1 = s1
  s2 = s2
  w1 = w1
  w2 = w2
  Setters <- FirstController
  Clearers <- FirstController
  Waiters <- OneWaiter
  MaxBytes = 2
INVARIANTS
  WaitReturnsTrue
