CONSTANTS
    NDram = 2
    NNvm = 3
    VAs = {v1, v2, v3}
    FaultThread = FaultThread
    Apps = {a1}
    Workers = {w1}
    MaxJobs = 2
    BatchSizes = {1}
    MaxPermits = 1
    MaxUnmaps = 1
    UnmapMode = "any"
    None = None
    WarmDram = 0
    MaxIntervals = 0
SPECIFICATION WarmFairSpec
CHECK_DEADLOCK FALSE
PROPERTIES MunmapReturns RemovedPagesFreed
