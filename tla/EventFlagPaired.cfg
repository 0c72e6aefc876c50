\* One thread sets, another clears, two wait.
SPECIFICATION Spec
CONSTANTS
  s1 = s1
  s2 = s2
  w1 = w1
  w2 = w2
  Setters <- FirstController
  Clearers <- OtherController
  Waiters <- TwoWaiters
  MaxBytes = 2
INVARIANT PipeShowsFlag
PROPERTY RaisedFlagAwakens
