CONSTANTS
    \* two structs over one DRAM frame
    Structs = {p1, p2}
    NDram = 1
    MaxScore = 2
    AgeBits = 2
    \* one page, released and allocated again; a counter that wraps
    Sampled = {p1}
    CounterBits = 2
    \* gaps on both sides of a page and runs longer than the window
    NUM_NEIGHBOURS = 2
    MaxVa = 7
    \* a second thread while the first loads ARMS; two table growths
    Apps = {"a1", "a2"}
    main = "a1"
    Regions = {r1, r2}
    RegionPages = 2
    MaxGrow = 2
    \* one page to swap out, one to swap in, one free frame
    LruDram = 1
    LruNvm = 2
    ActiveAfter = 0
    \* migrations both ways, any one page removed at any point of them
    NFast = 2
    NSlow = 1
    FASTFREE = 2
    SweepRate = 1
    ThawAfter = 0
    FreeMod = 16
    MaxRemove = 1
    \* two cores, two items a segment, a cleaning while both write
    Cores = {c1, c2}
    Keys = {k1, k2}
    Values = {v1, v2}
    None = None
    Chained = {k2}
    Segments = {1, 2, 3, 4, 5}
    SegSize = 5
    ItemSize = 2
    CleanFreed = 1
    CqSize = 1
    MaxSets = 3
    \* a bucket with two slots and a chain
    TableKeys = {k1, k2, k3, k4}
    TableItems = {i1, i2, i3, i4, i5}
    BUCKET_NITEMS = 2
    NULL = NULL
    \* two segments, two threads
    Allocators = {t1, t2}
    segmaxnum = 2
    \* requests that wrap around the ring at every place
    RingSize = 5
    Header = 2
    MaxRequest = 4
    MaxStream = 16
SYMMETRY Symmetry
SPECIFICATION Spec
CHECK_DEADLOCK FALSE
INVARIANTS MarkEarned CountsRight SmoothedRight InterposeSafe LruSafe ManagerSafe
           ItemsSafe TableIsMap SegmentsOwned BufferIsStream
PROPERTIES IsAtomicMap
