CONSTANTS
  World = 3
  Program <- ReduceBarrierTwice
  Tensors = 2
  Attempts = 2
  FaultBudget = 2
SPECIFICATION FairSpec
INVARIANTS
  
  BarrierSeparates
  CapabilityClosedOnce
PROPERTIES
  EveryRankEnds
CHECK_DEADLOCK FALSE
