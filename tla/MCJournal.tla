----------------------------- MODULE MCJournal -----------------------------
(* The two sides of the ext3 journal: who may use it (JournalOwner) and what *)
(* the disk holds (JournalCommit).  In a behaviour one of them moves and the *)
(* other stays as it began.  The commit has two journals, one whose groups   *)
(* span two descriptors and one too short for every block at once.           *)
EXTENDS JournalOwner, JournalCommit, TLC

VARIABLE subject    \* the module that moves

MCGeometries ==
    {[tagCap |-> 2, segMax |-> 2, blocks |-> 8],
     [tagCap |-> 1, segMax |-> 3, blocks |-> 6]}

JournalInit ==
    \/ subject = "owner" /\ OwnerInit /\ CommitAbsent
    \/ subject = "commit" /\ CommitInit /\ OwnerAbsent

(* Every writer may be dead, or done with its handles. *)
OwnerRests == subject = "owner" /\ UNCHANGED <<subject, ownerVars, commitVars>>

JournalNext ==
    \/ subject = "owner" /\ OwnerNext /\ UNCHANGED <<subject, commitVars>>
    \/ subject = "commit" /\ CommitNext /\ UNCHANGED <<subject, ownerVars>>
    \/ OwnerRests

JournalSpec == JournalInit /\ [][JournalNext]_<<subject, ownerVars, commitVars>>

(* The writers are interchangeable, and so are the blocks. *)
Symmetry == Permutations(Threads)
=============================================================================
