\* Three deliveries at the same time, two of them of one failure; a day passes; nothing
\* fails.
SPECIFICATION FairSpec
CONSTANTS
  a1 = a1
  a2 = a2
  a3 = a3
  r1 = r1
  b1 = b1
  fpA = fpA
  fpB = fpB
  f1 = f1
  f2 = f2
  NoOne = NoOne
  RunIds = {1, 2, 4}
  Authors = {}
  RunIdCap = 2
  MaxDay = 1
  Fingerprints = {fpA, fpB}
  Deliveries = {a1, a2, b1}
  FpOf <- MCFpOf
  RunOf <- MCRunOf
  Feedbacks = {}
  CoarseClasses <- MCCoarse
  SweepMax = 1
  IndexCap = 2
  MaxInFlight = 3
  MaxDeliveries = 1
  MaxIssues = 3
  MaxEdits = 1
  Faults = {}
INVARIANTS
  TypeOK
  OneOpenAtRest
  IndexKeepsApart
PROPERTIES
  JobsEnd
CHECK_DEADLOCK FALSE
