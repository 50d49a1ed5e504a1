SPECIFICATION FairSpec
CONSTANTS
  s1 = s1
  s2 = s2
  f1 = f1
  f2 = f2
  f3 = f3
  old = old
  target = target
  Site = {s1, s2}
  File = {f1, f2, f3}
  Label = {old, target}
  NoLabel = NoLabel
  InitLabel <- Before
  Listing <- TwoSites
  Target = target
  DryRuns = {FALSE}
  UniqueScope = "type"
  BatchSize = 2
  MaxTries = 2
  Allowed = {"start"}
  MaxRequests = 1
  MaxCrashes = 1
  MaxFaults = 0
PROPERTIES
  RefinesProgress
CHECK_DEADLOCK FALSE
