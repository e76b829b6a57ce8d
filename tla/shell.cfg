CONSTANTS
    NProc = 6
    NFILE = 5
    NPipe = 2
    NOFILE = 6
    MAXARGS = 4
    PIPESIZE = 2
    WORD = 4
    BUFSIZE = 3
    MaxHarm = 1
    MaxTokens = 4
    MaxRun = 1
    Lines <- MCLines
    Executed <- MCExecuted
SPECIFICATION Spec
CHECK_DEADLOCK FALSE
INVARIANT ParserExact
INVARIANT PipeEndsExact
INVARIANT PipeSleepers
INVARIANT OutputMeant
PROPERTY LineEnds
