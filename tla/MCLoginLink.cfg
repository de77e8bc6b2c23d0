CONSTANTS
  QueueLen = 1
  MaxAccepts = 2
  MaxBreaks = 3
  MaxFails = 1
  NoNetId = NoNetId
  None = None
SPECIFICATION FairSpec
INVARIANTS
  LinkKept
  OneLink
PROPERTIES
  LinkComesBack
