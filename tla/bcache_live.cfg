CONSTANTS
  Proc = {p1, p2}
  Buf = {i1, i2}
  Block = {b1, b2}
  Val = {v0}
  NUM = 5
  IDX = 5
  None = None
CHECK_DEADLOCK FALSE
SPECIFICATION FairSpec
PROPERTY TransferEnds
