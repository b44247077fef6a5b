----------------------------- MODULE MCPageCache -----------------------------
(* Instances of PageCache: a file that is read and written, with faults of   *)
(* the disk against readahead and against writers, and one that is mapped.   *)
EXTENDS PageCache, TLC

MCWorkloads ==
    {{"read", "readahead", "write", "reclaim"},
     {"read", "readahead", "reclaim", "readerror", "timeout"},
     {"read", "write", "reclaim", "readerror", "timeout"},
     {"map", "readahead", "sync", "reclaim", "munmap", "writeerror"}}

MCUnmapping == {{"map", "reclaim", "munmap"}}

MCSymmetry == Permutations(Threads)
=============================================================================
