\* One delivery at a time; a day passes; a write may be refused.
SPECIFICATION Spec
CONSTANTS
  a1 = a1
  a2 = a2
  a3 = a3
  r1 = r1
  b1 = b1
  fpA = fpA
  fpB = fpB
  f1 = f1
  f2 = f2
  NoOne = NoOne
  RunIds = {1, 2}
  Authors = {}
  RunIdCap = 3
  MaxDay = 1
  Fingerprints = {fpA}
  Deliveries = {a1, a2}
  FpOf <- MCFpOf
  RunOf <- MCRunOf
  Feedbacks = {}
  CoarseClasses <- MCCoarse
  SweepMax = 1
  IndexCap = 2
  MaxInFlight = 1
  MaxDeliveries = 1
  MaxIssues = 2
  MaxEdits = 1
  Faults = {"write"}
PROPERTIES
  SweepSparesOwn
CHECK_DEADLOCK FALSE
