\* Two deliveries of every case, in any order and overlap, with every failure of
\* a listing, a write or a send, a lost answer, the end of the budget and a
\* cancellation.  What is a tick apart is outside the quiet window.  Deliveries end, so the system stops: no deadlock check.
SPECIFICATION Spec
CONSTANTS
  d1 = d1
  d2 = d2
  fpA = fpA
  fpA2 = fpA2
  fpB = fpB
  Jobs = {d1, d2}
  Runs = {1, 2, 3, 4, 5, 6, 7, 8}
  NoRun = 0
  Fingerprints = {fpA, fpA2, fpB}
  CoarseOf <- MCCoarseOf
  Cases <- MCCases
  On = {"comment_on_pr", "comment_on_commit", "create_issues"}
  Window = 0
  JobMax = 1
  MaxClock = 1
  MaxComments = 3
  Faults = {"list", "write", "lost", "twice", "send", "late", "crash"}
INVARIANTS
  TypeOK
  OneComment
  DeliveredIsThere
  ErrorIsHonest
  NotifiedOnce
  QuietHasCause
SYMMETRY Alike
CHECK_DEADLOCK FALSE
