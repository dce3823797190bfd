CONSTANTS
  Inst = {a, b, c}
  Linked = {{a, b}, {b, c}}
  Key = {k}
  Value = {v}
  Gone = Gone
  Unheld = Unheld
  Always = TRUE
  RETENTION = 0
  MaxTime = 0
  MaxChanges = 2
  MaxBreaks = 0
  MaxVisits = 0
SPECIFICATION FairSpec
PROPERTIES RowsSettle
CHECK_DEADLOCK FALSE
