\* One job at a time: two runs of one failure, the first run again, and a feedback
\* delivered twice; API calls fail, jobs are cancelled, a day passes.
SPECIFICATION Spec
CONSTANTS
  a1 = a1
  a2 = a2
  a3 = a3
  r1 = r1
  b1 = b1
  fpA = fpA
  fpB = fpB
  f1 = f1
  f2 = f2
  NoOne = NoOne
  RunIds = {1, 2}
  Authors = {f1}
  RunIdCap = 2
  MaxDay = 1
  Fingerprints = {fpA}
  Deliveries = {a1, a2, r1}
  FpOf <- MCFpOf
  RunOf <- MCRunOf
  Feedbacks = {f1}
  CoarseClasses <- MCCoarse
  SweepMax = 1
  IndexCap = 2
  MaxInFlight = 1
  MaxDeliveries = 2
  MaxIssues = 4
  MaxEdits = 1
  Faults = {"list", "write", "lost", "twice", "late", "crash"}
INVARIANTS
  ReportedIsRecorded
  CountsRunsOnce
PROPERTIES
  RecurrenceIsOpen
  ResolutionSticks
  ImplementsTracker
CHECK_DEADLOCK FALSE
