\* One instance: at-least-once delivery becomes one row per client message,
\* and rows are stored in the order of their seqs.
SPECIFICATION Spec
CONSTANTS
  i1 = i1  i2 = i2  s1 = s1  s2 = s2  m1 = m1  m2 = m2  m3 = m3
  Inst = {i1}
  Session = {s1}
  Msg = {m1, m2}
  SessionOf <- OneSession
  Minted = {}
  Poison = {}
  MaxDeliver = 2
  QueueCap = 2
  MaxCrashes = 1
  MaxFaults = 1
  MaxTimeouts = 1
  MaxRebuilds = 1
  NodeOf <- Nodes
INVARIANTS TypeOK RowsStoredInOrder
PROPERTY ImplementsExactlyOnce
CHECK_DEADLOCK FALSE
