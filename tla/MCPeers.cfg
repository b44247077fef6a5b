SPECIFICATION PeersSpec
CONSTANTS
    SeqSpace = 16
    Iss <- MCIss
    MSS = 3
    TxCap = 2
    RxCap = 3
    WScale = 1
    RETRIES = 1
    AckQuota = 1
    OooSegs = 2
    NetCap = 2
    Faults = 2
    Users <- MCUsers
    PhantomEnd = TRUE
    Threads = {t1, t2, t3}
    None = None
INVARIANTS NeverStalls 
PROPERTY ConnectionIsStreams
CHECK_DEADLOCK FALSE
