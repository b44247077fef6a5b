----------------------------- MODULE MCRadixLookup -----------------------------
(* Instances of RadixLookup; the lookups that use the remembered leaf are     *)
(* interchangeable among themselves.                                          *)
EXTENDS RadixLookup, TLC

Symmetry == Permutations(CacheUsers) \cup Permutations(Chunks)
            \cup Permutations(Leaves) \cup Permutations(Pages)
=============================================================================
