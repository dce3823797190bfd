CONSTANTS
  Pid = {p, q}
  Req = {r}
  Departs = Departs
  Closing = Closing
  NoPid = NoPid
  MaxRuns = 2
SPECIFICATION Spec
INVARIANTS LandsBeforeRelease
CHECK_DEADLOCK FALSE
