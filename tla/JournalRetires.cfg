CONSTANTS Children = {a, b}  MaxCommits = 3  MaxRoots = 3  MaxCheckpoints = 2
          Kills = 0  PowerLosses = 1  Careful = TRUE
SPECIFICATION FairSpec
PROPERTIES EveryTransactionRetires
CHECK_DEADLOCK FALSE
