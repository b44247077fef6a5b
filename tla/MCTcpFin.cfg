SPECIFICATION TcpSpec
CONSTANTS
    SeqSpace = 16
    Iss <- MCIss
    MSS = 3
    TxCap = 2
    RxCap = 3
    WScale = 1
    RETRIES = 1
    AckQuota = 1
    OooSegs = 2
    NetCap = 2
    Faults = 2
    Users <- MCUsers
    PhantomEnd = FALSE
PROPERTY ConnectionIsStreams
CHECK_DEADLOCK FALSE
