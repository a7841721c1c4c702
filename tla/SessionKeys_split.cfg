\* Two instances and one session key that has no session yet.
SPECIFICATION SkSpec
CONSTANTS
  Resolver = {r1, r2}
  Key = {k1}
  MaxSessionID = 3
  MaxAttempts = 2
INVARIANT OneSessionPerKey
CHECK_DEADLOCK FALSE
