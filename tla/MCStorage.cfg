CONSTANTS
  Entities = {e1, e2}
  CompactEvery = 2
  MaxJournal = 3
  MaxRevision = 3
  MaxTerm = 2
  MaxFailures = 2
  MaxKills = 2
  MaxPowerLosses = 2
  MixedCrashes = FALSE
  s1 = s1
  Sessions = {s1}
  Logs <- RepeatedCommands
  MaxIndex = 4
  MaxSequence = 2
  MaxBatch = 2
  MaxVote = 1
  MaxStops = 2
  InstallDuringBuild = FALSE
SPECIFICATION StorageSpec
SYMMETRY EntitySymmetry
INVARIANTS CrashLosesNothing CompactionFallsDue FlushedSurvives
INVARIANTS SnapshotCoversPurge CommittedReplayable StateIsReplay NodeOpens
PROPERTY ImplementsDurableLog
CHECK_DEADLOCK FALSE
