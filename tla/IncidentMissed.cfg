\* Two runs of one outage; a create may land although it is answered with a 5xx.
SPECIFICATION Spec
CONSTANTS
  p1 = p1
  p2 = p2
  p3 = p3
  widespread = widespread
  Runs = {p1, p2}
  Kinds = {widespread}
  KindOf <- MCKindOf
  Channels = {"chat"}
  Enabled = TRUE
  Window = 1
  Skew = 1
  JobMax = 1
  SupersedeMax = 1
  MaxClock = 2
  MaxIncidents = 3
  Faults = {"twice"}
SYMMETRY Alike
INVARIANTS
  BurstIsTold
CHECK_DEADLOCK FALSE
