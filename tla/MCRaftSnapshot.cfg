CONSTANTS
  s1 = s1
  Sessions = {s1}
  Logs <- RepeatedCommands
  MaxIndex = 4
  MaxSequence = 2
  MaxBatch = 2
  MaxVote = 0
  MaxStops = 1
  InstallDuringBuild = TRUE
SPECIFICATION RaftSpec
INVARIANT SnapshotCoversPurge
CHECK_DEADLOCK FALSE
