CONSTANTS
  Proc = {p1, p2, p3, p4}
  MaxKill = 2
  WindowIntr = TRUE
SPECIFICATION FairSpec
INVARIANT Exclusion
INVARIANT SleepersHaveReason
PROPERTY WriterPreference
PROPERTY WriterProgress
CHECK_DEADLOCK FALSE
