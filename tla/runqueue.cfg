CONSTANTS
  NPROC = 4
  NPRIO = 3
  AGING_TICKS = 2
SPECIFICATION Spec
INVARIANT CacheExact
INVARIANT OldestFirst
PROPERTY Implements
CHECK_DEADLOCK FALSE
