SPECIFICATION BlockingSpec
CONSTANTS
    None = None
    Threads = {t1, t2}
    NKeys = 2
    NPages = 3
    MaxClock = 2
    Workloads <- MCWorkloads
    Callers = {t1, t2}
    Depth = 2
    Wave = 2
    Members = 2
    MaxCalls = 3
    Waiters = {t1, t2}
    Wakers = {w1, w2}
    Words = {"a", "b"}
    HashSize = 2
    Hashes <- MCHashes
    Calls <- MCCalls
SYMMETRY Symmetry
INVARIANTS
    ReadsAreCurrent
    StoresKept
    VerdictIsOwn
    CidsConserved
    
    NoLostWake
    
\* Every call, write and store of a bounded run may be over.
CHECK_DEADLOCK FALSE
