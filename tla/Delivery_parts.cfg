\* Two gateway nodes and two connections; two instances and two messages.
SPECIFICATION DeliverySpec
CONSTANTS
  n1 = n1  n2 = n2  c1 = c1  c2 = c2  i1 = i1  i2 = i2
  Node = {n1, n2}
  Conn = {c1, c2}
  None = none
  MaxFaults = 1
  MaxStops = 1
  Syncer = {i1, i2}
  MaxMsg = 2
  ChannelCap = 1
  SumFaults = 1
  SumCrashes = 1
INVARIANTS
  DeliveryTypeOK OrphansOnlyByOverlap
  SummaryIsOneMessage ListedIsShown SnapshotAgrees HidesOnlyUnensured
PROPERTIES
  UnroutedOnlyByLateCleanup RoutesConverge
  SummaryNeverGoesBack CursorNeverGoesBack SummaryCatchesUp
CHECK_DEADLOCK FALSE
