CONSTANTS
  World = 2
  LastSequence = 1
  CallEnds <- OneCall
  Credits = 1
  SocketDepth = 2
  FaultKinds <- LocalOnly
  FaultBudget = 1
SPECIFICATION Spec
INVARIANTS
  RanksObserveSameFailure
