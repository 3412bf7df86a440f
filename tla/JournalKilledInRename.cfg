CONSTANTS Children = {a}  MaxCommits = 3  MaxRoots = 3  MaxCheckpoints = 3
          Kills = 1  PowerLosses = 1  Careful = TRUE
SPECIFICATION Spec
INVARIANTS CommittedNeverLost
CHECK_DEADLOCK FALSE
