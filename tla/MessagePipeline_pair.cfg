\* Two instances share the consumer, which may be deleted and re-created:
\* nothing is lost, no seq is repeated, and what is acknowledged stays kept.
SPECIFICATION Spec
CONSTANTS
  i1 = i1  i2 = i2  s1 = s1  s2 = s2  m1 = m1  m2 = m2  m3 = m3
  Inst = {i1, i2}
  Session = {s1}
  Msg = {m1, m2}
  SessionOf <- OneSession
  Minted = {m2}
  Poison = {}
  MaxDeliver = 2
  QueueCap = 1
  MaxCrashes = 1
  MaxFaults = 2
  MaxTimeouts = 0
  MaxRebuilds = 1
  NodeOf <- Nodes
CONSTRAINT TroublesApart
INVARIANTS AckedIsKept NodeSeqsGrow SeqsUnique SummaryShowsRow
PROPERTY ImplementsAtLeastOnce
CHECK_DEADLOCK FALSE
