\* As in threads.cfg.
CONSTANTS
    Lists = {dram_free, nvm_free}
    Entries = {p1, p2, p3, p4}
    NULL = NULL
    Data = {p1, p2, p3, p4}
    capacity = 4
    MaxPush = 12
    MaxChanges = 6
    Threshold = 3
    MaxPeriods = 3
    PerSecond = 2
    AppThreads = {t1, t2}
    PageWords = {1, 2}
    Values = {0, 1}
    Nothing = Nothing
    MaxMigrations = 2
    MAX_COPY_THREADS = 3
    length = 6
    ZERO = ZERO
    threads = 2
    conns = 2
    MaxPending = 1
    keys_num = 2
    MsgLen = 2
    Clients = {c1, c2}
    Header = 1
    ReqLen = 2
    ResLen = 2
    MAX_MSGSIZE = 9
    LenMod = 8
    Window = 4
    SockSpace = 1
    MaxRequests = 2
    Quitters = {c2}
SPECIFICATION Spec
CHECK_DEADLOCK FALSE
INVARIANTS PeriodMatchesMode
