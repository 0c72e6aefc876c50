\* One thread sets, another clears at once, one waits.
SPECIFICATION Spec
CONSTANTS
  s1 = s1
  s2 = s2
  w1 = w1
  w2 = w2
  Setters <- FirstController
  Clearers <- OtherController
  Waiters <- OneWaiter
  MaxBytes = 2
PROPERTIES
  SetAwakensWaiters
