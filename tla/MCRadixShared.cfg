SPECIFICATION RadixSpec
CONSTANTS
    Readers = {r1, r2}
    CacheUsers = {r1, r2}
    Chunks = {k1, k2}
    Leaves = {l1, l2}
    Pages = {p1, p2}
    None = None
    MaxSeq = 7
SYMMETRY Symmetry
INVARIANT LookupAgrees
