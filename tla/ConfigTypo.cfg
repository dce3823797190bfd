CONSTANTS
  Proc = {c}
  Home = {h1, h2}
  Doing = {"add", "remove", "adopt", "revert"}
  Mistyped = {"supervised"}
  None = None
  Broken = Broken
  MaxRuns = 4
  MaxKills = 0
  MaxEdits = 1
SPECIFICATION Spec
PROPERTIES AppliedStays
CHECK_DEADLOCK FALSE
