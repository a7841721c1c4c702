\* Two instances store one client message twice when AckWait expires on a
\* delivery that is still held.
SPECIFICATION Spec
CONSTANTS
  i1 = i1  i2 = i2  s1 = s1  s2 = s2  m1 = m1  m2 = m2  m3 = m3
  Inst = {i1, i2}
  Session = {s1}
  Msg = {m1}
  SessionOf <- OneSession
  Minted = {}
  Poison = {}
  MaxDeliver = 2
  QueueCap = 2
  MaxCrashes = 0
  MaxFaults = 0
  MaxTimeouts = 1
  MaxRebuilds = 0
  NodeOf <- Nodes
INVARIANT OneRowPerClientMessage
CHECK_DEADLOCK FALSE
