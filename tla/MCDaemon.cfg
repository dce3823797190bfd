CONSTANTS
  Pid = {p1, p2, p3}
  NoPid = NoPid
  Rounds = 2
  Leaving = TRUE
  Stale = TRUE
  Dir = {d1}
  Unit = {u1}
  Call = {c1, c2}
  MaxLoops = 2
  NoDir = NoDir
  NoUnit = NoUnit
  Req = {r}
  Departs = Departs
  Closing = Closing
  MaxRuns = 2
  Proc = {p0, q0}
  Off = Off
SPECIFICATION MCSpec
INVARIANTS RaceExcludes RestartExcludes LateIsNamed
PROPERTIES HomeIsTaken SupervisorServes StopReleases
CHECK_DEADLOCK FALSE
