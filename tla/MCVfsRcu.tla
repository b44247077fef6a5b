------------------------------- MODULE MCVfsRcu -------------------------------
(* Instances of VfsRcu with one page and one directory-entry child. *)
EXTENDS VfsRcu, TLC

Symmetry == Permutations(CPUs) \cup Permutations(Threads)
=============================================================================
