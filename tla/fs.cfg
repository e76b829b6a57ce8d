CONSTANTS
  Proc = {p1, p2}
  None = None
  NInode = 4
  NBlock = 4
  NFILE = 1
  NDIRECT = 1
  NINDIRECT = 1
  DPB = 3
  Name = {"a", "b"}
  PathCalls <- MCPathCalls
  Calls = {"read", "write", "close", "fork", "exit"}
  MaxOps = 3
  MaxCrash = 1
SPECIFICATION Spec
SYMMETRY Perms
INVARIANT RefExact
INVARIANT BlocksExact
 
INVARIANT LinksExact
 
INVARIANT LastPutUnlocked
