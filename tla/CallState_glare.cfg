\* Two users call each other at the same time.
SPECIFICATION Spec
CONSTANTS
  a = a  b = b  d = d  w1 = w1  w2 = w2  x = x  y = y
  User = {a, b}
  Sweeper = {w1}
  Call = {x, y}
  NoCall = none
  RingTTL = 2
  EndedLingerTTL = 3
  ClaimVisibilityTTL = 1
  MaxCallDuration = 2
  MaxMishaps = 0
  MaxConnects = 0
  MaxSignals = 1
  CallerOf <- Callers  CalleeOf <- Callees
INVARIANT RingsAlone
CHECK_DEADLOCK FALSE
