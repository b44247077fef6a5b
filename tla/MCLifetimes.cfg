SPECIFICATION LifetimesSpec
CONSTANTS
    None = None
    Cpus = {x1, x2}
    Spaces = {y1, y2, y3}
    PCID_MAX = 2
    CPUs = {y1, y2, y3}
    Threads = {x1, x2}
    Objects = {p, n}
    Nodes = {n}
    Drainer = drainer
    Limit = 2
SYMMETRY Symmetry
INVARIANTS
    NoForeignTranslation
    RawPageAlive
    ReferencePins
    ReleasedOnce
    DrainerGetsOn
