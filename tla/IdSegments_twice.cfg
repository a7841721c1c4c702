\* One process that is stopped gracefully: it serves on after it has saved.
SPECIFICATION IdSpec
CONSTANTS
  Idgen = {p1}
  MinID = 1
  MaxID = 4
  Step = 2
  MaxTries = 2
  MaxCount = 2
  MaxSaves = 1
INVARIANT NoIdTwice
CHECK_DEADLOCK FALSE
