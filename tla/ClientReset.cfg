\* The same two jobs; a create may land and its connection be reset.
SPECIFICATION Spec
CONSTANTS
  j1 = j1
  j2 = j2
  Jobs = {j1, j2}
  MaxAttempts = 3
  RetryAfters = {10}
  PageSize = 1
  MaxPages = 2
  MaxItems = 3
  MaxCalls = 3
INVARIANTS
  LandedIsLookedFor
CHECK_DEADLOCK FALSE
