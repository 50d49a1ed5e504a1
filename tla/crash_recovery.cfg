SPECIFICATION FairSpec
CONSTANTS
  s1 = s1
  s2 = s2
  f1 = f1
  f2 = f2
  f3 = f3
  old = old
  target = target
  Site = {s1}
  File = {f1, f2}
  Label = {old, target}
  NoLabel = NoLabel
  InitLabel <- Before
  Listing <- TwoSites
  Target = target
  DryRuns = {TRUE, FALSE}
  UniqueScope = "type"
  BatchSize = 1
  MaxTries = 2
  Allowed = {"start", "cancel", "rollback"}
  MaxRequests = 2
  MaxCrashes = 2
  MaxFaults = 1
INVARIANTS
  TypeOK
  CompletedMeansProcessed
  CountersMatchLog
  RollbackRestores
  DryRunTouchesNothing
PROPERTIES
  JobSettles
CHECK_DEADLOCK FALSE
