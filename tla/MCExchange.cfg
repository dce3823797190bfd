CONSTANTS
  Conn = {c1, c2}
  Topic = {held, read}
  Slow = {read}
  Call = {k1, k2}
  Value = {v1, v2}
  Hears <- AllHear
  NoValue = NoValue
  NoCall = NoCall
  Failing = TRUE
  Sid = {s0}
  Client = {d0}
  SidOf <- OneSession
  Dir = {d0}
  MaxHeld = 1
  MaxSends = 3
  MaxCrashes = 1
  MaxAged = 1
  NoOp = NoOp
  Line <- Lines
  Kind <- KindOf
  Size <- SizeOf
  NoLine = NoLine
  MAX_FRAME_BYTES = 1
  FRAME = 2
  Off = Off
SPECIFICATION MCSpec
INVARIANTS
  RunsWhileWanted StoppedRunsNothing HeldValueReaches
  DeliveredOnceInOrder InboxIsKept DirectIsTrue GreetedFirst
PROPERTIES WireIsLines
SYMMETRY Interchangeable
CHECK_DEADLOCK FALSE
