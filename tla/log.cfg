CONSTANTS
  Proc = {p1, p2}
  Block = {b1, b2, b3}
  Val = {v0, v1}
  MAXOPBLOCKS = 2
  LOGSIZE = 4
  nlog = 4
  OpBlocks = 1
  MaxCrash = 2
CHECK_DEADLOCK FALSE
SPECIFICATION FairSpec
INVARIANT NoPanic
INVARIANT QuiescentDurable
PROPERTY Implements
PROPERTY BeginWakes
