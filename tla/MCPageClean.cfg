SPECIFICATION CacheSpec
CONSTANTS
    Threads = {t1, t2}
    NKeys = 2
    NPages = 3
    MaxClock = 2
    Workloads <- MCUnmapping
    None = None
INVARIANT CleanOnDisk
SYMMETRY MCSymmetry
CHECK_DEADLOCK FALSE
