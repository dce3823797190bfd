CONSTANTS
  Pid = {p1, p2, p3}
  NoPid = NoPid
  Rounds = 3
  Leaving = FALSE
  Stale = TRUE
SPECIFICATION Spec
INVARIANT OneInstance
CHECK_DEADLOCK FALSE
