CONSTANTS
  Key = {k1, k2}
  Occurrences = occurrences
  Limit = 2
  MaxFrames = 4
  MaxOpenings = 3
  Value = {v1}
  MaxCrashes = 1
  MaxChain = 2
  KvTime = 1
  Retention = 0
  Gone = Gone
  None = None
  s0 = s0
  p0 = p0
  Prefix = {p1, p2}
  TTL = 2
  LIVE_WINDOW = 1
  MAX_SERIES = 2
  MAX_PREFIXES = 2
  RequestsTime = 3
  RequestsSaid = 3
  RequestsTaken = 4
  StatusTime = 1
  StatusSaid = 1
  StatusTaken = 3
  StatusTruth = 3
  StatusReads = 4
  Dir = {d1}
  Unit = {u1, u2}
  Pid = {i1, i2}
  Call = {c1, c2}
  MaxLoops = 2
  NoDir = NoDir
  NoUnit = NoUnit
  NoPid = NoPid
  Off = Off
SPECIFICATION MCSpec
INVARIANTS
  WaitingIsArmed FramesReach StoreIsKept RowShowsNewest
  ChildIsWatched StopStays
PROPERTIES NothingGoesBack
SYMMETRY Interchangeable
CHECK_DEADLOCK FALSE
