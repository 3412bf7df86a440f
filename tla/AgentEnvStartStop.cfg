CONSTANTS Commands = {c1, c2}  Pids = {1, 2}
          MaxProcs = 2  Boots = 2  Builds = 2  Kills = 1
SPECIFICATION FairSpec
INVARIANTS ServiceTypeOK OnlyServersSignalled RunningServerIsRecorded
PROPERTIES RecordKeptWhileRunning LockIsReleased
CHECK_DEADLOCK FALSE
