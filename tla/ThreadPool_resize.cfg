SPECIFICATION SpecPool
CONSTANTS
    NMax = 2
    Wrap = 4
    Kinds = {"persistent"}
    Sizes = {}
    Requests = {1, 2}
    NNodes = 1
    NChunks = 1
    CanAbort = FALSE
    MaxGraphs = 3
INVARIANT NoLateWorker
CHECK_DEADLOCK FALSE
