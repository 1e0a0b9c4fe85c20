\* Two runs of one failure deliver at the same time; every API call may fail, jobs are
\* cancelled and humans edit the issues and the index.
SPECIFICATION Spec
CONSTANTS
  a1 = a1
  a2 = a2
  a3 = a3
  r1 = r1
  b1 = b1
  fpA = fpA
  fpB = fpB
  f1 = f1
  f2 = f2
  NoOne = NoOne
  RunIds = {1, 2}
  Authors = {}
  RunIdCap = 1
  MaxDay = 0
  Fingerprints = {fpA}
  Deliveries = {a1, a2}
  FpOf <- MCFpOf
  RunOf <- MCRunOf
  Feedbacks = {}
  CoarseClasses <- MCCoarse
  SweepMax = 1
  IndexCap = 2
  MaxInFlight = 2
  MaxDeliveries = 1
  MaxIssues = 4
  MaxEdits = 1
  Faults = {"list", "write", "lost", "twice", "late", "crash", "garble", "toggle", "edit"}
INVARIANTS
  RecordsWellFormed
  CreateOnlyUnknown
  DuplicateHasOriginal
CHECK_DEADLOCK FALSE
