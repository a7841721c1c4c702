\* Two instances or handlers in every part.
SPECIFICATION RecordsSpec
CONSTANTS
  h1 = h1  h2 = h2  k1 = k1  k2 = k2  k3 = k3
  u1 = u1  u2 = u2  p1 = p1  p2 = p2  owner = owner
  Idgen = {h1, h2}
  MinID = 1
  MaxID = 4
  Step = 2
  MaxTries = 2
  MaxCount = 2
  MaxSaves = 1
  Resolver = {h1, h2}
  Key = {k1, k2, k3}
  MaxSessionID = 2
  MaxAttempts = 2
  Appender = {h1, h2}
  LogSeq = {1, 2, 3, 4, 5, 6, 7}
  BucketSize = 2
  BucketScanPad = 2
  PageLimit = {1, 2, 3}
  GroupHandler = {h1, h2}
  Owner = owner
  GroupUser = {u1}
  Petition = {p1}
  NoPetition = none
  MaxGroupRequests = 4
  MaxGroupFaults = 1
  FriendHandler = {h1, h2}
  Person = {u1, u2}
  FriendApply = {p1, p2}
  NoApply = none
  MaxFriendRequests = 5
  MaxFriendFaults = 1
SYMMETRY Interchangeable
INVARIANTS
  RecordsTypeOK TwiceOnlyAfterRewind KeysKeptApart SplitOnlyByRace
  RouteIsMembership   AnswerStands
  FriendsAreMutual FriendAnswerStands PageIsExact
CHECK_DEADLOCK FALSE
