\* Two jobs, three calls in all, of any kind; every answer the server may give at any attempt.
SPECIFICATION FairSpec
CONSTANTS
  j1 = j1
  j2 = j2
  Jobs = {j1, j2}
  MaxAttempts = 3
  RetryAfters = {10}
  PageSize = 1
  MaxPages = 2
  MaxItems = 3
  MaxCalls = 3
INVARIANTS
  TypeOK
  CreatesOnce
  RefusedIsRefused
  ListingComplete
  PatienceEnds
PROPERTIES
  CallsEnd
CHECK_DEADLOCK FALSE
