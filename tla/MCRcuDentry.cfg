SPECIFICATION RcuSpec
CONSTANTS
    CPUs = {c1, c2}
    Threads = {t1, t2}
    Objects = {n}
    Nodes = {n}
    Drainer = drainer
    None = None
    Limit = 2
SYMMETRY Symmetry
INVARIANT RawPointerAlive
