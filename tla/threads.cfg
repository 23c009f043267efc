\* Two lists of four pages; a ring of four slots, NUM_NEIGHBOURS + 2; a queue that
\* grows from 4 to 8 slots and wraps in both sizes; two intervals a second and three
\* quiet seconds to leave recency; two words and two migrations, down and up again;
\* three copy threads with two words each; two benchmark threads with two connections
\* and one request outstanding; two server connections whose answers need two writes
\* and whose buffers are compacted, one of which hangs up.
CONSTANTS
    Lists = {dram_free, nvm_free}
    Entries = {p1, p2, p3, p4}
    NULL = NULL
    Data = {p1, p2, p3, p4}
    capacity = 4
    MaxPush = 12
    MaxChanges = 6
    Threshold = 3
    MaxPeriods = 3
    PerSecond = 2
    AppThreads = {t1, t2}
    PageWords = {1, 2}
    Values = {0, 1}
    Nothing = Nothing
    MaxMigrations = 2
    MAX_COPY_THREADS = 3
    length = 6
    ZERO = ZERO
    threads = 2
    conns = 2
    MaxPending = 1
    keys_num = 2
    MsgLen = 2
    Clients = {c1, c2}
    Header = 1
    ReqLen = 2
    ResLen = 2
    MAX_MSGSIZE = 9
    LenMod = 8
    Window = 4
    SockSpace = 1
    MaxRequests = 2
    Quitters = {c2}
SPECIFICATION Spec
CHECK_DEADLOCK FALSE
INVARIANTS ListRight RingsRight BenchSafe ServerSafe
PROPERTIES AreQueues ModeRight Invisible CopiesRight EveryConnUsed RequestsAnswered
