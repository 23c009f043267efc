CONSTANTS
    NDram = 1
    NNvm = 2
    VAs = {v1, v2, v3}
    FaultThread = FaultThread
    Apps = {a1}
    Workers = {w1}
    MaxJobs = 2
    BatchSizes = {1}
    MaxPermits = 1
    MaxUnmaps = 2
    UnmapMode = "quiescent"
    None = None
SPECIFICATION SafeSpec
CHECK_DEADLOCK FALSE
SYMMETRY Symmetry
INVARIANTS TypeOK FreeListsClean NoAliasing TranslationRight MovesOwnMapping NoAssertFails PolicyTableCurrent
