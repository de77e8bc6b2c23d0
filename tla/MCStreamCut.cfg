CONSTANTS
  MaxMsgs = 2
  Lens = {1}
  BufLen = 8
  WireMax = 4
  Keeps = {"burst"}
  MayBreak = FALSE
  Stale = Stale
SPECIFICATION FairSpec
PROPERTIES
  EveryMessageTold
CHECK_DEADLOCK FALSE
