\* Three runs of one outage over three ticks; every call and every send may fail, jobs are
\* cancelled, a human may close an incident.
SPECIFICATION Spec
CONSTANTS
  p1 = p1
  p2 = p2
  p3 = p3
  widespread = widespread
  Runs = {p1, p2, p3}
  Kinds = {widespread}
  KindOf <- MCKindOf
  Channels = {"chat"}
  Enabled = TRUE
  Window = 1
  Skew = 1
  JobMax = 1
  SupersedeMax = 1
  MaxClock = 2
  MaxIncidents = 3
  Faults = {"list", "write", "lost", "twice", "send", "late", "crash", "human"}
SYMMETRY Alike
INVARIANTS
  TypeOK
  OneMessage
  SilentIsTold
  OneStaysOpen
CHECK_DEADLOCK FALSE
