CONSTANTS
  World = 2
  LastSequence = 3
  CallEnds <- TwoSegmentsThenOne
  Credits = 1
  SocketDepth = 2
  FaultKinds <- AllFaults
  FaultBudget = 2
SPECIFICATION FairSpec
INVARIANTS
  EngineTypeOK
  AckMeansAbsorbed
  EngineConsistent
PROPERTIES
  NoLifeAfterFailure
  ImplementsCollective
  FailureReachesBroker
  AllCommit
