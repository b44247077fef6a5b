SPECIFICATION ProcessorsSpec
CONSTANTS
    None = None
    CPUs = {x1, x2}
    Spaces = {y1, y2}
    Machines <- MCMachines
    MaxChanges = 2
    Readers = {r1, r2}
    CacheUsers = {r1}
    Chunks = {x1, x2}
    Leaves = {y1, y2}
    Pages = {z1, z2}
    MaxSeq = 7
    CpuIds <- MCCpuIds
    Threads = {x1, x2}
    Idle = Idle
SYMMETRY Symmetry
INVARIANTS
    NoStaleTranslation
    RequestAnswered
    LookupAgrees
    
    OneCpuPerStack
    
    NoLostThread
    
    NoLockCycle
