CONSTANTS Children = {a, b}  MaxCommits = 2  MaxRoots = 3  MaxCheckpoints = 2
          Kills = 1  PowerLosses = 1  Careful = FALSE
SPECIFICATION Spec
INVARIANTS TypeOK JournalsAreSound BegunNeverLost NamesAgree
SYMMETRY Symmetry
CHECK_DEADLOCK FALSE
