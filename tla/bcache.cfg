CONSTANTS
  Proc = {p1, p2}
  Buf = {i1, i2}
  Block = {b1, b2, b3}
  Val = {v0, v1}
  NUM = 6
  IDX = 6
  None = None
CHECK_DEADLOCK FALSE
SPECIFICATION Spec
SYMMETRY Perms
VIEW View
INVARIANT DriverExact
INVARIANT CacheConsistent
PROPERTY Implements
