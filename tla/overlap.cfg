SPECIFICATION Spec
CONSTANTS
  s1 = s1
  s2 = s2
  f1 = f1
  f2 = f2
  f3 = f3
  old = old
  target = target
  Site = {s1, s2}
  File = {f1, f2}
  Label = {old, target}
  NoLabel = NoLabel
  InitLabel <- Before
  Listing <- OneSite
  Target = target
  DryRuns = {FALSE}
  UniqueScope = "type"
  BatchSize = 1
  MaxTries = 1
  Allowed = {"start", "pause", "resume", "rollback"}
  MaxRequests = 3
  MaxCrashes = 0
  MaxFaults = 0
INVARIANTS
  SitesListedOnce
  EachFileLoggedOnce
  RollbackRestores
PROPERTIES
  ProgressNeverGoesBack
CHECK_DEADLOCK FALSE
