CONSTANTS
  Small = small
  Large = large
  Conn = {x1, x2, x3}
  Call = {}
  MaxCuts = 1
  MaxExits = 0
  Forgetting = FALSE
  Prompt = TRUE
  NoConn = NoConn
  NoEnd = NoEnd
SPECIFICATION FairSpec
PROPERTIES LinkComesBack
CHECK_DEADLOCK FALSE
