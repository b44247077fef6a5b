---------------------------- MODULE MCProcessors ----------------------------
(* What the processors share: TLBs (TlbShootdown), the page-cache tree       *)
(* (RadixLookup) and the run queues (SchedCore).  In a behaviour one of them *)
(* moves and the others are absent.  The TLBs are those of five machines: on *)
(* one with PCIDs neither the idle thread nor, next to kernel threads, a     *)
(* caller that does not know the tag is among the callers, the two known     *)
(* windows of the algorithm.                                                 *)
EXTENDS TlbShootdown, RadixLookup, SchedCore, TLC

VARIABLE subject    \* the module that moves

Modern ==
    [pcid |-> TRUE, invpcid |-> TRUE, others |-> {"kthread"},
     callers |-> {"own", "pcid"}, outerLock |-> FALSE]

NoInvpcid ==
    [pcid |-> TRUE, invpcid |-> FALSE, others |-> {},
     callers |-> {"pcid"}, outerLock |-> TRUE]

TagUnknown ==
    [pcid : {TRUE}, invpcid : BOOLEAN, others : {{}},
     callers : {{"foreign"}}, outerLock : {FALSE}]

Legacy ==
    [pcid |-> FALSE, invpcid |-> FALSE, others |-> {"idle", "kthread"},
     callers |-> {"own", "foreign", "masked"}, outerLock |-> FALSE]

MCMachines == {Modern, NoInvpcid, Legacy} \cup TagUnknown

MCCpuIds == {0, 1}

ProcessorsInit ==
    \/ subject = "tlb" /\ TlbInit /\ RadixAbsent /\ SchedAbsent
    \/ subject = "radix" /\ RadixInit /\ TlbAbsent /\ SchedAbsent
    \/ subject = "sched" /\ SchedInit /\ TlbAbsent /\ RadixAbsent

ProcessorsNext ==
    \/ subject = "tlb" /\ TlbNext /\ UNCHANGED <<subject, radixVars, schedVars>>
    \/ subject = "radix" /\ RadixNext /\ UNCHANGED <<subject, tlbVars, schedVars>>
    \/ subject = "sched" /\ SchedNext /\ UNCHANGED <<subject, tlbVars, radixVars>>

ProcessorsSpec ==
    /\ ProcessorsInit
    /\ [][ProcessorsNext]_<<subject, tlbVars, radixVars, schedVars>>

(* Sets of different modules may have the same elements: only one is there.  *)
Symmetry == Permutations(Chunks) \cup Permutations(Leaves) \cup Permutations(Pages)
=============================================================================
