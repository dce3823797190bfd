CONSTANTS
  Inst = {a, b}
  Lasting = {c}
  RecordsTime = 2
  CeremoniesTime = 1
  Family = {f0}
  Life = 2
  Retention = 2
  MaxWrites = 3
  MaxTroubles = 1
  NoRecord = NoRecord
  Page = {p, q}
  Conn = {n}
  REFRESH_TTL = 3
  ACCESS_TTL = 2
  ACCESS_KEEP = 2
  PREVIOUS_GRACE = 1
  MaxValues = 3
  MaxTime = 3
  None = None
  Url = {u}
  Challenge = {k, l}
  Cred = {c}
  Grant = {g}
  Exchange = {x, y}
  Task = {t}
  CODE_ATTEMPTS = 2
  REGISTER_TTL = 1
  CHALLENGE_TTL = 1
  MaxCount = 1
  Removed = Removed
  Off = Off
SPECIFICATION MCSpec
INVARIANTS Converges MarkStands FamilyIsKept ClosedByDeadline PassedOnce SessionsAreBacked
SYMMETRY Interchangeable
CHECK_DEADLOCK FALSE
