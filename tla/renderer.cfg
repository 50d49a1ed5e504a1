SPECIFICATION FairSpec
CONSTANTS
  x = x
  y = y
  Sittings <- MCSittings
  PolicyName = {"a", "b"}
  NewName = "fresh"
  Entities = {"card"}
  SiteNamed <- MCSiteNamed
  LabelId = {"secret", "public"}
  Publishes <- MCPublishes
  FirstSaved <- MCFirstSaved
  MaxPolicies = 3
  None = None
INVARIANTS CallsKeepTheContract TabsAreSound DetailsShowTheirTab
  AsksBeforeItRemoves RunsDoAsAsked OneRunAtATime
PROPERTY WorkEnds
CHECK_DEADLOCK FALSE
