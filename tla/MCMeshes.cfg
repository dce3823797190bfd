CONSTANTS
  Small = small
  Large = large
  Conn = {x1, x2, x3}
  Call = {k1}
  MaxCuts = 1
  MaxExits = 1
  Forgetting = TRUE
  Prompt = FALSE
  NoConn = NoConn
  NoEnd = NoEnd
  a = a
  b = b
  Key = {k}
  Value = {v}
  Gone = Gone
  Unheld = Unheld
  RETENTION = 0
  MaxChanges = 2
  MaxBreaks = 2
  MaxVisits = 2
  Home = {h1, h2}
  Proc = {c}
  Doing = {"add", "remove", "adopt", "revert"}
  Mistyped = {"endpoints", "own"}
  None = None
  Broken = Broken
  MaxRuns = 4
  MaxKills = 2
  MaxEdits = 1
  Off = Off
SPECIFICATION MCSpec
INVARIANTS HeldIsProven EndsAgree WaitingHasLink HeldCatchesUp FilesHold
PROPERTIES AppliedStays
SYMMETRY Interchangeable
CHECK_DEADLOCK FALSE
