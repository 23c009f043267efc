CONSTANTS
    NDram = 2
    NNvm = 5
    VAs = {v1, v2, v3, v4, v5}
    FaultThread = FaultThread
    Apps = {a1}
    Workers = {w1, w2}
    MaxJobs = 2
    BatchSizes = {2}
    MaxPermits = 1
    MaxUnmaps = 0
    UnmapMode = "never"
    None = None
    WarmDram = 2
    MaxIntervals = 1
SPECIFICATION WarmSpec
CHECK_DEADLOCK FALSE
SYMMETRY Symmetry
INVARIANTS RequestsDisjoint NoAliasing
