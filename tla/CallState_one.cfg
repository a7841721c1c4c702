\* One call, one mishap, one reconnection; a tick is 30 s.
SPECIFICATION Spec
CONSTANTS
  a = a  b = b  d = d  w1 = w1  w2 = w2  x = x  y = y
  User = {a, b}
  Sweeper = {w1}
  Call = {x}
  NoCall = none
  RingTTL = 2
  EndedLingerTTL = 3
  ClaimVisibilityTTL = 1
  MaxCallDuration = 3
  MaxMishaps = 1
  MaxConnects = 1
  MaxSignals = 2
  CallerOf <- Callers  CalleeOf <- Callees
INVARIANTS TypeOK InviteReaches ActiveIsIndexed DriftEndsNoCall
PROPERTY ImplementsCallLifecycle
CHECK_DEADLOCK FALSE
