SPECIFICATION PartsSpec
CONSTANTS
    Threads = {t1, t2}
    Fds = {0, 1, 2, 4}
    InitSize = 2
    Uses <- SomeUses
    BadFds = {1}
    MaxAdds = 3
    MaxGen = 2
    Parts <- AllParts
    MaxPieces = 2
    MaxReads = 2
    IntBits = 3
    LongBits = 5
    Memory = 12
    Sizes <- SomeSizes
    Callers = {c1, c2, c3}
    Conns = {a1, a2, a3, a4}
    m_maxRequest = 2
    m_maxAliveTime = 5
    NowMS = 10
    m_baseSize = 2
    GroupBits = 1
    Width = 3
    Ints <- SomeInts
    Words <- SomeWords
    MaxCapacity = 6
    MaxOps = 4
INVARIANTS
    TypeOK
    KernelAgrees
    PendingIsExact
    WaiterOnce
    NoAssertFails
    CancelReaches
    UriPartsRight
    IPv6Exact
    RequestPartsRight
    HeadersRight
    ResponseFramed
    PoolAccounts
    ReadsBack
    PeeksRight
PROPERTIES
    ImplementsByteSeq
CHECK_DEADLOCK FALSE
