SPECIFICATION Spec
CONSTANTS
  Request = {r1, r2}
  Nobody = Nobody
  Limit = 1
  MaxRows = 3
  MaxEdits = 1
INVARIANTS
  TypeOK
  StartedAtMostOnce
  OvershootBounded
CHECK_DEADLOCK FALSE
