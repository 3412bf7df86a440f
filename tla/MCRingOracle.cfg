CONSTANTS
  Worlds <- MCWorlds
  ElementCounts <- MCElementCounts
  SegmentLimit = 5
SPECIFICATION Spec
INVARIANTS
  OracleSumsEveryRankOnce
  NoContributionTwice
  PlannerPeerSymmetry
