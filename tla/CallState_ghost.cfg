\* Two callers and a callee that connects while it is being called.
SPECIFICATION Spec
CONSTANTS
  a = a  b = b  d = d  w1 = w1  w2 = w2  x = x  y = y
  User = {a, b, d}
  Sweeper = {w1}
  Call = {x, y}
  NoCall = none
  RingTTL = 2
  EndedLingerTTL = 3
  ClaimVisibilityTTL = 1
  MaxCallDuration = 3
  MaxMishaps = 0
  MaxConnects = 1
  MaxSignals = 2
  CallerOf <- Callers  CalleeOf <- Callees
INVARIANT RingsAlone
CHECK_DEADLOCK FALSE
