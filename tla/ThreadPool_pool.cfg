SPECIFICATION SpecPool
CONSTANTS
    NMax = 3
    Wrap = 2
    Kinds = {"disposable", "persistent"}
    Sizes = {1, 2, 3}
    Requests = {3, 4}
    NNodes = 2
    NChunks = 8
    CanAbort = TRUE
    MaxGraphs = 2
INVARIANTS PoolTypeOK EachChunkOnce OneNodeAtATime NoLateWorker
PROPERTIES IsRendezvous AllComeAllGo GraphEnds PoolFreed
CHECK_DEADLOCK FALSE
