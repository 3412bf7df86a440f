CONSTANTS
  World = 3
  LastSequence = 1
  CallEnds <- OneCall
  Credits = 1
  SocketDepth = 2
  FaultKinds <- AllFaults
  FaultBudget = 1
SPECIFICATION Spec
CONSTRAINT RankZeroLeavesFirst
INVARIANTS
  SuccessorKeepsUp
  ReduceScatterFailureIsGroupWide
  CreditConservation
PROPERTIES
  ImplementsCollective
