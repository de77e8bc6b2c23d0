CONSTANTS
  p1 = p1
  p2 = p2
  c1 = c1
  c2 = c2
  Producers <- MCProducers
  Consumers <- MCConsumers
  MaxPuts = 3
  Size = 2
  SemMax = 2
  Raw = Raw
  Torn = Torn

SPECIFICATION FairSpec

INVARIANTS
  NoTornRead
  NoOverwrite

PROPERTIES
  ImplementsFifo
  EveryElementPopped

CHECK_DEADLOCK FALSE
