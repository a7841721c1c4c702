\* Two sweepers that may claim the same call, one mishap.
SPECIFICATION FairSpec
CONSTANTS
  a = a  b = b  d = d  w1 = w1  w2 = w2  x = x  y = y
  User = {a, b}
  Sweeper = {w1, w2}
  Call = {x}
  NoCall = none
  RingTTL = 2
  EndedLingerTTL = 3
  ClaimVisibilityTTL = 1
  MaxCallDuration = 2
  MaxMishaps = 1
  MaxConnects = 0
  MaxSignals = 1
  CallerOf <- Callers  CalleeOf <- Callees
PROPERTIES IndexHeals EveryCallRecorded ImplementsCallLifecycle
CHECK_DEADLOCK FALSE
