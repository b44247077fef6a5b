---------------------------- MODULE JournalCommit ----------------------------
(***************************************************************************)
(* The on-disk half of the ext3 journal (kernel/src/fs/ext3/ext3.c): how a *)
(* group of closed handles becomes one journal transaction, and how the    *)
(* next mount brings the file system back after a crash.  JournalOwner     *)
(* models who may run these steps; here one owner at a time is assumed.    *)
(*                                                                         *)
(* Every device write is a step of its own and a crash may fall between    *)
(* any two of them.  A write that completes is durable: the journal issues *)
(* no flush, so a device with a volatile write-back cache is outside this  *)
(* model.  A block's content is the pair <<block it was staged for, number *)
(* of the handle that staged it>>.                                         *)
(***************************************************************************)
EXTENDS Integers, Sequences, FiniteSets, SequencesExt, Null

CONSTANTS
    Blocks,         \* home blocks the file system journals
    Geometries,     \* the journals considered: [tagCap, segMax, blocks]
    MaxHandles,     \* bound: handles that stage anything
    MaxCrashes,     \* bound: power losses
    MaxErrors       \* bound: phases in which a write reports an error

Phases == {"payload", "desc", "record", "publish", "home", "clear", "replay",
           "retire"}

ASSUME JournalCommitConstants ==
    /\ Geometries \subseteq [tagCap : Nat \ {0}, segMax : Nat \ {0}, blocks : Nat]
    /\ \A g \in Geometries : g.blocks >= 4
    /\ MaxHandles \in Nat /\ MaxCrashes \in Nat /\ MaxErrors \in Nat

VARIABLES
    geo,        \* the journal, fixed
    home,       \* disk: content of every home block
    log,        \* disk: journal block -> record
    jsb,        \* disk: journal superblock, [start, seq]
    sequence,   \* trans->sequence
    running,    \* blocks staged by the handle now stopping, in staging order
    closed,     \* blocks of the closed set, in closed order
    image,      \* newest staged image of each block of running and closed
    pc,         \* trans->phase, or the phase of the mount
    todo,       \* blocks of the current batch not yet written
    failed,     \* a write of the current batch reported an error
    plan,       \* replay: the home writes still to do
    handles, crashes,
    committed,  \* history: content of every block as of the last commit point
    errors      \* history: phases that failed ("room": the log was too short)

disk == <<home, log, jsb>>
memory == <<sequence, running, closed, image, todo, failed, plan>>
bounds == <<geo, handles, crashes>>
commitVars == <<disk, memory, pc, bounds, committed, errors>>

TagCap == geo.tagCap          \* ext3_tag_capacity: tags per descriptor block
SegMax == geo.segMax          \* EXT3_JOURNAL_SEG_MAX: descriptors per transaction
JournalBlocks == geo.blocks   \* s_maxlen: the journal, its superblock at 0

Content == (Blocks \cup {"garbage"}) \X (0..MaxHandles)

Record ==
    [type : {"none"}]
        \cup [type : {"data"}, img : Content]
        \cup [type : {"desc"}, seq : Nat, tags : Seq(Blocks)]
        \cup [type : {"commit"}, seq : Nat]

(* The state's types: a home block never holds what is not a block's image,  *)
(* and the closed set holds every block once and fits the descriptors.       *)
CommitTypeOK ==
    /\ geo \in Geometries /\ errors \subseteq Phases \cup {"room"}
    /\ home \in [Blocks -> Content] /\ committed \in [Blocks -> Content]
    /\ log \in [1..(JournalBlocks - 1) -> Record]
    /\ jsb \in [start : {0, 1}, seq : Nat]
    /\ sequence \in Nat
    /\ running \in Seq(Blocks) /\ closed \in Seq(Blocks)
    /\ IsInjective(closed) /\ Len(closed) <= SegMax * TagCap
    /\ image \in [Blocks -> Content]
    /\ pc \in Phases \cup {"idle", "merge", "closed", "down"}
    /\ todo \subseteq Blocks /\ failed \in BOOLEAN
    /\ plan \in Seq(Blocks \X Content)
    /\ handles \in 0..MaxHandles /\ crashes \in 0..MaxCrashes

(* A freshly made file system, mounted: nothing to replay. *)
CommitInit ==
    /\ geo \in Geometries
    /\ home = [b \in Blocks |-> <<b, 0>>] /\ committed = home /\ image = home
    /\ log = [p \in 1..(JournalBlocks - 1) |-> [type |-> "none"]]
    /\ jsb = [start |-> 0, seq |-> 1] /\ sequence = 1
    /\ running = <<>> /\ closed = <<>>
    /\ pc = "idle" /\ todo = {} /\ failed = FALSE /\ plan = <<>>
    /\ handles = 0 /\ crashes = 0 /\ errors = {}

\* No state: only another module of the run moves.
CommitAbsent ==
    /\ geo = None /\ home = None /\ log = None /\ jsb = None
    /\ sequence = None /\ running = None /\ closed = None /\ image = None
    /\ pc = None /\ todo = None /\ failed = None /\ plan = None
    /\ handles = None /\ crashes = None /\ committed = None /\ errors = None

CommitPresent == geo # None

-----------------------------------------------------------------------------
(* Layout of the log: [desc][TagCap payloads][desc][payloads]...[commit].    *)
(* Indices count from 0, as in the code.                                     *)

ext3_desc_pos(index) == 1 + (index \div TagCap) * (TagCap + 1)

ext3_payload_pos(index) == 2 + index + index \div TagCap

CommitPos(n) == ext3_payload_pos(n - 1) + 1

Index(b) == CHOOSE i \in 0..(Len(closed) - 1) : closed[i + 1] = b

Overlay(base, bs) == [b \in Blocks |-> IF b \in bs THEN image[b] ELSE base[b]]

-----------------------------------------------------------------------------
(* Device writes.  A write that reports an error may or may not have reached *)
(* the medium, so old and new content are both possible.                     *)

WriteLog(p, r) == log' = [log EXCEPT ![p] = r]

MayWriteLog(p, r) == WriteLog(p, r) \/ UNCHANGED log

Fails(phase) ==
    Cardinality(errors) < MaxErrors /\ errors' = errors \cup {phase}

(* ext3_commit_done: the closed set is retired whatever the result.  When    *)
(* the commit was the flush at the head of ext3_merge_running, a success     *)
(* returns to the merge and an error discards the running handle too.        *)
ext3_commit_done(rc) ==
    /\ closed' = <<>> /\ todo' = {} /\ failed' = FALSE
    /\ pc' = IF rc = 0 /\ running # <<>> THEN "merge" ELSE "idle"
    /\ running' = IF rc = 0 THEN running ELSE <<>>
    /\ UNCHANGED <<image, plan>>

CommitFails ==
    /\ ext3_commit_done(-1)
    /\ UNCHANGED <<sequence, bounds, committed>>

-----------------------------------------------------------------------------
(* A handle runs and stops.                                                  *)

Staged == {q \in SeqOf(Blocks, Cardinality(Blocks)) : q # <<>> /\ IsInjective(q)}

(* ext3_journal_block for each block of q: every block is staged once and    *)
(* the handle on its own must fit the descriptors and the journal.           *)
ext3_journal_block ==
    /\ pc = "idle" /\ handles < MaxHandles
    /\ handles' = handles + 1
    /\ \E q \in Staged :
         /\ Len(q) <= SegMax * TagCap /\ CommitPos(Len(q)) < JournalBlocks
         /\ running' = q
    /\ pc' = "merge"
    /\ UNCHANGED <<disk, sequence, closed, image, todo, failed, plan, geo, crashes,
                   committed, errors>>

Fits == Len(closed) + Len(running) <= SegMax * TagCap

(* Mutant: a merge replaces the closed set. *)
MergeReplaces ==
    /\ pc = "merge" /\ Fits
    /\ closed' = running
    /\ image' = [b \in Blocks |-> IF b \in ToSet(running) THEN <<b, handles>>
                                  ELSE image[b]]
    /\ running' = <<>>
    /\ pc' = "closed"
    /\ UNCHANGED <<disk, sequence, todo, failed, plan, bounds, committed, errors>>

(* ext3_merge_running: blocks new to the closed set are appended, a block    *)
(* already there takes the newer image in place.                             *)
ext3_merge_running ==
    /\ pc = "merge" /\ Fits
    /\ closed' = closed \o SelectSeq(running, LAMBDA b : b \notin ToSet(closed))
    /\ image' = [b \in Blocks |-> IF b \in ToSet(running) THEN <<b, handles>>
                                  ELSE image[b]]
    /\ running' = <<>>
    /\ pc' = "closed"
    /\ UNCHANGED <<disk, sequence, todo, failed, plan, bounds, committed, errors>>

(* ext3_should_defer: another handle is queued, the group stays open and     *)
(* this handle's stop returns 0.                                             *)
ext3_should_defer ==
    /\ pc = "closed" /\ handles < MaxHandles
    /\ pc' = "idle"
    /\ UNCHANGED <<disk, memory, bounds, committed, errors>>

(* ext3_commit_closed up to its first write.  Entered from a stop that does  *)
(* not defer, from ext3_forward_grant, or to make room for a merge.  A group *)
(* whose commit record lies beyond the journal fails without any I/O.        *)
ext3_commit_closed ==
    /\ closed # <<>>
    /\ pc \in {"closed", "idle"} \/ (pc = "merge" /\ ~Fits)
    /\ \/ /\ CommitPos(Len(closed)) < JournalBlocks
          /\ todo' = ToSet(closed)
          /\ pc' = "payload"
          /\ UNCHANGED <<sequence, running, closed, image, failed, plan>>
          /\ UNCHANGED <<disk, bounds, committed, errors>>
       \/ /\ CommitPos(Len(closed)) >= JournalBlocks
          /\ CommitFails
          /\ errors' = errors \cup {"room"}
          /\ UNCHANGED disk

(* One payload of the batch; the members complete in any order.              *)
PayloadWrite(b) ==
    /\ pc = "payload" /\ b \in todo
    /\ LET p == ext3_payload_pos(Index(b))
           r == [type |-> "data", img |-> image[b]]
       IN \/ WriteLog(p, r) /\ UNCHANGED <<failed, errors>>
          \/ Fails("payload") /\ MayWriteLog(p, r) /\ failed' = TRUE
    /\ todo' = todo \ {b}
    /\ UNCHANGED <<home, jsb, sequence, running, closed, image, plan, pc, bounds,
                   committed>>

(* Mutant: the results of the batch members are not looked at. *)
IgnoreBatchResult ==
    /\ pc = "payload" /\ todo = {}
    /\ pc' = "desc"
    /\ todo' = ToSet(closed)
    /\ UNCHANGED <<disk, sequence, running, closed, image, failed, plan, bounds,
                   committed, errors>>

(* The batch is fully waited for before the next step starts.                *)
PayloadsWritten ==
    /\ pc = "payload" /\ todo = {}
    /\ \/ /\ ~failed
          /\ pc' = "desc"
          /\ todo' = ToSet(closed)
          /\ UNCHANGED <<sequence, running, closed, image, failed, plan>>
          /\ UNCHANGED <<disk, bounds, committed, errors>>
       \/ failed /\ CommitFails /\ UNCHANGED <<disk, errors>>

(* The descriptor of the next segment; todo holds the blocks not yet tagged. *)
DescriptorWrite ==
    /\ pc = "desc" /\ todo # {}
    /\ LET first == Len(closed) - Cardinality(todo)
           tags == SubSeq(closed, first + 1, Min({first + TagCap, Len(closed)}))
           r == [type |-> "desc", seq |-> sequence, tags |-> tags]
           p == ext3_desc_pos(first)
       IN \/ /\ WriteLog(p, r)
             /\ todo' = todo \ ToSet(tags)
             /\ UNCHANGED <<home, jsb, sequence, running, closed, image, failed,
                            plan, pc, bounds, committed, errors>>
          \/ /\ Fails("desc") /\ MayWriteLog(p, r)
             /\ CommitFails
             /\ UNCHANGED <<home, jsb>>

CommitRecordWrite ==
    /\ pc = "desc" /\ todo = {}
    /\ LET p == CommitPos(Len(closed))
           r == [type |-> "commit", seq |-> sequence]
       IN \/ /\ WriteLog(p, r)
             /\ pc' = "publish"
             /\ UNCHANGED <<home, jsb, memory, bounds, committed, errors>>
          \/ /\ Fails("record") /\ MayWriteLog(p, r)
             /\ CommitFails
             /\ UNCHANGED <<home, jsb>>

(* commit-super-publish: s_start goes to disk, with the s_sequence that was  *)
(* reread from disk.  This write is the commit point.                        *)
SuperPublish ==
    /\ pc = "publish"
    /\ \/ /\ jsb' = [jsb EXCEPT !.start = 1]
          /\ committed' = Overlay(committed, ToSet(closed))
          /\ todo' = ToSet(closed) /\ pc' = "home"
          /\ UNCHANGED <<home, log, sequence, running, closed, image, failed,
                         plan, bounds, errors>>
       \/ /\ Fails("publish")
          /\ jsb' = [jsb EXCEPT !.start = 1] \/ UNCHANGED jsb
          /\ CommitFails
          /\ UNCHANGED <<home, log>>

(* metadata-home: one home write of the checkpoint batch.                    *)
HomeWrite(b) ==
    /\ pc = "home" /\ b \in todo
    /\ \/ home' = [home EXCEPT ![b] = image[b]] /\ UNCHANGED <<failed, errors>>
       \/ /\ Fails("home")
          /\ home' = [home EXCEPT ![b] = image[b]] \/ UNCHANGED home
          /\ failed' = TRUE
    /\ todo' = todo \ {b}
    /\ UNCHANGED <<log, jsb, sequence, running, closed, image, plan, pc, bounds,
                   committed>>

(* Mutant: a group whose checkpoint failed keeps its log. *)
ClearSkippedOnError ==
    /\ pc = "home" /\ todo = {}
    /\ IF failed THEN CommitFails /\ UNCHANGED <<disk, errors>>
       ELSE /\ jsb' = [start |-> 0, seq |-> sequence + 1]
            /\ sequence' = sequence + 1
            /\ ext3_commit_done(0)
            /\ UNCHANGED <<home, log, bounds, committed, errors>>

(* commit-super-clear: the log is retired even when a home write failed.     *)
SuperClear ==
    /\ pc = "home" /\ todo = {}
    /\ \/ /\ jsb' = [start |-> 0, seq |-> sequence + 1]
          /\ sequence' = sequence + 1
          /\ ext3_commit_done(IF failed THEN -1 ELSE 0)
          /\ UNCHANGED <<home, log, bounds, committed, errors>>
       \/ /\ Fails("clear")
          /\ jsb' = [start |-> 0, seq |-> sequence + 1] \/ UNCHANGED jsb
          /\ CommitFails
          /\ UNCHANGED <<home, log>>

-----------------------------------------------------------------------------
(* Crash and recovery.                                                       *)

Crash ==
    /\ pc # "down" /\ crashes < MaxCrashes
    /\ crashes' = crashes + 1
    /\ pc' = "down"
    /\ running' = <<>> /\ closed' = <<>> /\ todo' = {} /\ failed' = FALSE
    /\ plan' = <<>>
    /\ UNCHANGED <<disk, sequence, image, geo, handles, committed, errors>>

Header(p, seq) ==
    p < JournalBlocks /\ log[p].type \in {"desc", "commit"} /\ log[p].seq = seq

(* The scan of one transaction from position start: its commit block, or 0.  *)
(* A descriptor counts only if another header of the same transaction        *)
(* follows its payloads (ext3_descriptor_tag_count_for_log).                 *)
ScanTransaction(start, seq) ==
    LET end[p \in 1..JournalBlocks] ==
            IF ~Header(p, seq) THEN 0
            ELSE IF log[p].type = "commit" THEN p
            ELSE LET next == p + 1 + Len(log[p].tags)
                 IN IF Header(next, seq) THEN end[next] ELSE 0
    IN end[start]

(* Where the k-th complete transaction of the log ends, 0 if there is none.  *)
(* Transactions follow one another with consecutive sequence numbers.        *)
EndOf(k) ==
    LET after[j \in 0..JournalBlocks] ==
            IF j = 0 THEN 1
            ELSE LET e == IF after[j - 1] = 0 THEN 0
                          ELSE ScanTransaction(after[j - 1], jsb.seq + j - 1)
                 IN IF e = 0 THEN 0 ELSE e + 1
    IN after[k]

Recovered ==
    CHOOSE k \in 0..JournalBlocks :
        EndOf(k) # 0 /\ (k < JournalBlocks => EndOf(k + 1) = 0)

PayloadAt(p) ==
    IF log[p].type = "data" THEN log[p].img ELSE <<"garbage", 0>>

(* The home writes of the replay of the committed prefix, in order.          *)
ReplayWrites ==
    LET end == EndOf(Recovered)
        from[p \in 1..JournalBlocks] ==
            IF p >= end THEN <<>>
            ELSE IF log[p].type = "commit" THEN from[p + 1]
            ELSE LET tags == log[p].tags
                 IN [i \in 1..Len(tags) |-> <<tags[i], PayloadAt(p + i)>>]
                        \o from[p + 1 + Len(tags)]
    IN from[1]

(* ext3_init_journal up to the replay: a clean journal mounts, a dirty one   *)
(* is scanned, and one with no complete transaction refuses the mount.       *)
ext3_init_journal ==
    /\ pc = "down"
    /\ sequence' = jsb.seq
    /\ \/ jsb.start = 0 /\ pc' = "idle" /\ UNCHANGED plan
       \/ jsb.start # 0 /\ Recovered > 0 /\ pc' = "replay" /\ plan' = ReplayWrites
       \/ jsb.start # 0 /\ Recovered = 0 /\ UNCHANGED <<pc, plan>>
    /\ UNCHANGED <<disk, running, closed, image, todo, failed, bounds, committed,
                   errors>>

(* One home write of ext3_recover_journal; an error refuses the mount, which *)
(* may be tried again.                                                       *)
ext3_recover_journal ==
    /\ pc = "replay" /\ plan # <<>>
    /\ \/ /\ home' = [home EXCEPT ![Head(plan)[1]] = Head(plan)[2]]
          /\ plan' = Tail(plan)
          /\ UNCHANGED <<pc, errors>>
       \/ /\ Fails("replay")
          /\ home' = [home EXCEPT ![Head(plan)[1]] = Head(plan)[2]] \/ UNCHANGED home
          /\ pc' = "down" /\ plan' = <<>>
    /\ UNCHANGED <<log, jsb, sequence, running, closed, image, todo, failed, bounds,
                   committed>>

(* The tail of ext3_init_journal: the replayed log is retired on disk; an    *)
(* error refuses the mount.                                                  *)
RetireRecovered ==
    /\ pc = "replay" /\ plan = <<>>
    /\ sequence' = sequence + 1
    /\ \/ jsb' = [start |-> 0, seq |-> sequence + 1]
          /\ pc' = "idle" /\ UNCHANGED errors
       \/ jsb' = [start |-> 0, seq |-> sequence + 1] /\ pc' = "down" /\ Fails("retire")
       \/ UNCHANGED jsb /\ pc' = "down" /\ Fails("retire")
    /\ UNCHANGED <<home, log, running, closed, image, todo, failed, plan, bounds,
                   committed>>

(* Nothing is left to do: the bounds are used up and the group is written.   *)
Quiescent ==
    /\ pc = "idle" /\ closed = <<>> /\ handles = MaxHandles
    /\ crashes = MaxCrashes
    /\ UNCHANGED commitVars

CommitNext ==
    \/ ext3_journal_block
    \/ ext3_merge_running \/ ext3_should_defer \/ ext3_commit_closed
    \/ \E b \in Blocks : PayloadWrite(b) \/ HomeWrite(b)
    \/ PayloadsWritten \/ DescriptorWrite \/ CommitRecordWrite
    \/ SuperPublish \/ SuperClear
    \/ Crash \/ ext3_init_journal \/ ext3_recover_journal \/ RetireRecovered
    \/ Quiescent

CommitSpec == CommitInit /\ [][CommitNext]_commitVars

-----------------------------------------------------------------------------
(* Properties.                                                               *)

(* What the next mount would make of the disk as it is now.                  *)
RecoveredHome ==
    IF jsb.start = 0 THEN home
    ELSE FoldSeq(LAMBDA w, h : [h EXCEPT ![w[1]] = w[2]], home,
                 Reverse(ReplayWrites))

(* Crash consistency.  Whenever the power fails, between any two writes of a *)
(* commit or of a replay, the next mount recovers exactly the state of the   *)
(* last commit point: every block of every published group, and no block of  *)
(* a group that was not (ext3.c:1166, "a crash from here on is recovered by  *)
(* replaying the images above").  Errors before the commit point and during  *)
(* a replay do no harm; after one at or behind it nothing is promised.       *)
CrashConsistent ==
    CommitPresent /\ errors \cap {"publish", "home", "clear"} = {} =>
        /\ jsb.start # 0 => Recovered > 0
        /\ RecoveredHome = committed

(* While the superblock points at the log, no step overwrites a log block: a *)
(* crash would replay it (ext3.c:1209, "leaving s_start set would make every *)
(* later transaction overwrite the same replay region").  Only a superblock  *)
(* write that failed itself leaves s_start set.                              *)
LogNotReused ==
    [][CommitPresent /\ jsb.start # 0 /\ errors \cap {"publish", "clear"} = {} => UNCHANGED log]_commitVars

(* No handle is dropped silently.  Without an error a block leaves the       *)
(* closed set, while the system runs, only with its newest image at home,    *)
(* although the stop of the handle that staged it deferred and returned 0    *)
(* long ago; and the only path of ext3_commit_closed that reports success    *)
(* leaves every image of the group in its home block, whichever writes       *)
(* failed before, in this group or an earlier one.                           *)
RetiredReachHome ==
    [][/\ CommitPresent /\ pc' # "down" /\ errors' = {}
            => \A b \in ToSet(closed) \ ToSet(closed') : home'[b] = image[b]
       /\ pc = "home" /\ ~failed /\ sequence' # sequence
            => \A b \in ToSet(closed) : home'[b] = image[b]]_commitVars

=============================================================================
