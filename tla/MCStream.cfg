CONSTANTS
  MaxMsgs = 4
  Lens = {0, 1, 4}
  BufLen = 10
  WireMax = 5
  Keeps = {"burst", "header"}
  MayBreak = TRUE
  Stale = Stale
SPECIFICATION FairSpec
INVARIANTS
  TypeOK
  UsesWhatItGot
  BytesInOrder
PROPERTIES
  AppendedIsTold
CHECK_DEADLOCK FALSE
