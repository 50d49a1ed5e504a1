SPECIFICATION Spec
CONSTANTS
  x = x
  y = y
  Sittings <- MCTwoEdits
  PolicyName = {"a", "b"}
  NewName = "fresh"
  Entities = {"card"}
  SiteNamed <- MCSiteNamed
  LabelId = {"secret", "public"}
  Publishes <- MCPublishes
  FirstSaved <- MCFirstSaved
  MaxPolicies = 3
  None = None
INVARIANT EditsStartFromTheirPolicy
CHECK_DEADLOCK FALSE
