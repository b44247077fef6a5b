SPECIFICATION JournalSpec
CONSTANTS
    Threads = {x1, x2, x3}
    Blocks = {x1, x2, x3}
    Reaper = reaper
    None = None
    MaxOps = 1
    MaxKills = 1
    Geometries <- MCGeometries
    MaxHandles = 3
    MaxCrashes = 2
    MaxErrors = 1
SYMMETRY Symmetry
INVARIANTS
    OneOwner
    LockNotStranded
    NoIdleChain
    
PROPERTIES
    
    
    RetiredReachHome
