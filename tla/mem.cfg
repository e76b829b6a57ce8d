CONSTANTS
    NProc = 3
    NFrame = 21
    PTES = 3
    PG = 2
    WORD = 64
    MAXARG = 2
    USERSTACK = 1
    Headers <- MCHeaders
    Increments <- MCIncrements
    Addresses <- MCAddresses
SPECIFICATION Spec
VIEW View
INVARIANT FramesExact
INVARIANT SizeExact
PROPERTY ExecAllOrNothing
