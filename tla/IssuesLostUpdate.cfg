\* Three runs of one failure, two at a time; nothing fails.
SPECIFICATION Spec
CONSTANTS
  a1 = a1
  a2 = a2
  a3 = a3
  r1 = r1
  b1 = b1
  fpA = fpA
  fpB = fpB
  f1 = f1
  f2 = f2
  NoOne = NoOne
  RunIds = {1, 2, 3}
  Authors = {}
  RunIdCap = 3
  MaxDay = 0
  Fingerprints = {fpA}
  Deliveries = {a1, a2, a3}
  FpOf <- MCFpOf
  RunOf <- MCRunOf
  Feedbacks = {}
  CoarseClasses <- MCCoarse
  SweepMax = 1
  IndexCap = 2
  MaxInFlight = 2
  MaxDeliveries = 1
  MaxIssues = 3
  MaxEdits = 1
  Faults = {}
INVARIANTS
  ReportedIsRecorded
CHECK_DEADLOCK FALSE
