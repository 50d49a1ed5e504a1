SPECIFICATION FairSpec
CONSTANTS
  Site <- MCSite
  FilesOf <- MCFilesOf
  BatchSize = 2
  Configs <- MCConfigs
  Id <- MCId
  MaxProcs = 2
  MaxCrashes = 1
INVARIANTS CountersMatchResults CancelHolds OwnAnalysis
PROPERTY JobEnds
CHECK_DEADLOCK FALSE
