CONSTANTS
  Modes = {"reopen", "append"}
  FileSum = 2
  FileSize = 0
  BufMax = 2
  MaxLines = 6
  MaxFile = 6
  MaxEnds = 2
  Missing = Missing
SPECIFICATION FairSpec
INVARIANTS
  TargetFree
  NothingVanishes
  LinesInOrder
PROPERTIES
  RemovesOnlyTheSurplus
  ImplementsJournal
  EveryLineKept
CHECK_DEADLOCK FALSE
