CONSTANTS
  Proc = {p1, p2, c1, c2}
  Producer = {p1, p2}
  Consumer = {c1, c2}
  EMPTY = e
  FULL = f
  MUTEX = m
  Sem = {e, f, m}
  InitVal = {0}
  MaxValue = 8
  MaxKill = 1
  Reinit = FALSE
  WindowIntr = TRUE
  NBUF = 2
  Turns = 2
SPECIFICATION PCSpec
INVARIANT MutualExclusion
INVARIANT BufferBound
INVARIANT NoMissedSignal
PROPERTY Completes
CHECK_DEADLOCK FALSE
