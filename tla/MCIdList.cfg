CONSTANTS
  h1 = h1
  h2 = h2
  Values <- MCValues
  MaxIds = 5
SPECIFICATION IdListSpec
INVARIANTS
  BoundsExact
  FreeWaitsOnce
  WalkMeetsAll
PROPERTIES
  ImplementsIdMap
