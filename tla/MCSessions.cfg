CONSTANTS
  Sid = {s}
  Pid = {i, j}
  Conn = {c, d}
  Sub = {u}
  Retention = 0
  MaxTime = 1
  MaxDocs = 1
  Nothing = Nothing
  RunPid = {p0}
  MaxBirths = 2
  MaxReads = 2
  SECOND = 1
  GRACE = 2
  Torn = Torn
  Listed = Listed
  Unsaid = Unsaid
  MaxHolds = 1
  MaxEntries = 2
  MaxOpens = 2
  MaxRecords = 2
  MaxFiles = 2
  MaxWrites = 1
  None = None
  Off = Off
SPECIFICATION MCSpec
INVARIANTS SessionsAreListed ReadIsNow FoldIsPrefix
PROPERTIES DepartureIsRecorded
CONSTRAINT NotOverlapped
SYMMETRY Interchangeable
CHECK_DEADLOCK FALSE
