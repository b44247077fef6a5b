----------------------------- MODULE MCLifetimes -----------------------------
(* What is used again after its owner is gone: address-space tags (Pcid),    *)
(* and the pages and nodes behind RCU (VfsRcu).  In a behaviour one of them  *)
(* moves and the other is absent.                                            *)
EXTENDS Pcid, VfsRcu, TLC

VARIABLE subject    \* the module that moves

LifetimesInit ==
    \/ subject = "pcid" /\ PcidInit /\ RcuAbsent
    \/ subject = "rcu" /\ RcuInit /\ PcidAbsent

(* Every address space may have lived and died. *)
PcidRests == subject = "pcid" /\ UNCHANGED <<subject, pcidVars, rcuVars>>

LifetimesNext ==
    \/ subject = "pcid" /\ PcidNext /\ UNCHANGED <<subject, rcuVars>>
    \/ subject = "rcu" /\ RcuNext /\ UNCHANGED <<subject, pcidVars>>
    \/ PcidRests

LifetimesSpec == LifetimesInit /\ [][LifetimesNext]_<<subject, pcidVars, rcuVars>>

(* Sets of different modules may have the same elements: only one is there.  *)
Symmetry == Permutations(CPUs) \cup Permutations(Threads)
==============================================================================
