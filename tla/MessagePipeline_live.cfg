\* Two sessions, one with a poison message: everything settles.
SPECIFICATION FairSpec
CONSTANTS
  i1 = i1  i2 = i2  s1 = s1  s2 = s2  m1 = m1  m2 = m2  m3 = m3
  Inst = {i1}
  Session = {s1, s2}
  Msg = {m1, m3}
  SessionOf <- TwoSessions
  Minted = {}
  Poison = {m3}
  MaxDeliver = 2
  QueueCap = 1
  MaxCrashes = 1
  MaxFaults = 1
  MaxTimeouts = 0
  MaxRebuilds = 0
  NodeOf <- Nodes
PROPERTY EveryMessageSettles
CHECK_DEADLOCK FALSE
