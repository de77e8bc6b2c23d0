CONSTANTS
  network = network
  accept = accept
  Producers <- MCProducers
  MaxJobs = 2
  SemMax = 3

SPECIFICATION FairSpec

INVARIANTS
  NoLostWakeup

PROPERTIES
  EveryJobRuns
  ImplementsFifo
