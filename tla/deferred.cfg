SPECIFICATION FairSpec
CONSTANTS
  NumFiles = 3
  Large = {2}
  BatchSize = 2
  MaxTries = 2
  MaxRuns = 2
  MaxCrashes = 1
  MaxFaults = 1
INVARIANTS
  TypeOK
  NeverOvercounts
  ResultsAreTrue
  CompletedAccountsForAll
PROPERTY EachFileResolves
CHECK_DEADLOCK FALSE
