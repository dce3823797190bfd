CONSTANTS
  Sid = {s1}
  Conn = {c1, c2}
  SidOf <- OneSession
  Op = {o1, o2}
  MaxHeld = 1
  MaxSends = 2
  MaxCrashes = 0
  MaxAged = 0
  Failing = TRUE
  NoOp = NoOp
  Small = small
  Large = large
  Wire = {x1, x2}
  MaxCuts = 1
  MaxExits = 1
  Forgetting = FALSE
  Prompt = TRUE
  NoConn = NoConn
  NoEnd = NoEnd
  Off = Off
SPECIFICATION MCSpec
INVARIANTS HeldIsDurable
PROPERTIES SendIsAnswered LinkRecovers
CHECK_DEADLOCK FALSE
