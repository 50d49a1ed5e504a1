SPECIFICATION FairSpec
CONSTANTS
  Req = {r1, r2}
  MaxQueue = 1
  MaxRetries = 1
  MaxProcs = 2
  MaxFaults = 1
INVARIANT AnswersAreTrue
PROPERTY CommandsSettle
CHECK_DEADLOCK FALSE
