CONSTANTS
  Modules <- MCModules
  Absent = 0
  Queues <- MCQueues
  Expectations <- MCExpectations
  Dependencies <- MCDependencies
  Answers <- MCAnswers

SPECIFICATION FairSpec

INVARIANTS
  StartedAfterDependencies
  AfterExpected
  StoppedBeforeDependencies
  EndsReleased

PROPERTIES
  StartupEnds

CHECK_DEADLOCK FALSE
