-------------------------------- MODULE VfsRcu --------------------------------
(***************************************************************************)
(* Deferred reclamation for the lockless cache readers                     *)
(* (kernel/src/fs/vfs_rcu.c, the page references of fs/vfs.h and           *)
(* fs/page_cache.c, the node references of fs/vfs.c).                      *)
(*                                                                         *)
(* Objects are page-cache pages or, when they are in Nodes, directory-      *)
(* entry children.  A page lookup runs with interrupts masked; a dentry    *)
(* lookup does not.  The last reference hands an object to a queue; one    *)
(* drainer thread detaches the queue, makes every other CPU acknowledge an *)
(* interrupt, and then frees the batch.  Threads run on CPUs and are       *)
(* switched and migrated whenever their CPU is unmasked.  The sequence     *)
(* counters of the indexes are in RadixLookup: here a load returns an      *)
(* object that is in its index at that moment.                             *)
(***************************************************************************)
EXTENDS Naturals, FiniteSets, Null

CONSTANTS
    CPUs, Threads, Objects,
    Nodes,      \* the objects that are vfs_node_t, looked up unmasked
    Drainer,    \* the vfs_rcu_worker thread
    Limit       \* VFS_RCU_ACCUMULATE_LIMIT

ASSUME VfsRcuConstants ==
    /\ Nodes \subseteq Objects
    /\ Drainer \notin Threads
    /\ None \notin CPUs \cup Threads \cup Objects \cup {Drainer}
    /\ Limit \in Nat
    /\ IsFiniteSet(CPUs) /\ IsFiniteSet(Threads)

VARIABLES
    run,        \* the thread each CPU executes
    pc,         \* where each user thread is
    obj,        \* the object a user thread works on
    indexed,    \* objects installed in the tree or the dentry cache
    refs,       \* reference counts
    evicted,    \* VFS_PAGE_EVICTED
    life,       \* "free", "live", "queued" (head->queued = 1)
    rcu_up,         \* vfs_rcu_up
    queue,      \* vfs_rcu_head .. vfs_rcu_tail
    ack,        \* vfs_rcu_ack[cpu]
    ipi,        \* the vector is pending on the CPU
    on_wait,     \* the drainer's entry is on vfs_rcu_wait
    dstate,     \* the drainer's thread state
    timer,      \* the drainer's wakeup_ticks is set
    dpc, batch, self_id, arming, pending  \* the drainer's position and locals

userVars == <<pc, obj>>
objVars == <<indexed, refs, evicted, life>>
dVars == <<dpc, batch, self_id, arming, pending>>
sleepVars == <<on_wait, dstate, timer>>
ipiVars == <<ack, ipi>>
rcuVars == <<run, userVars, objVars, rcu_up, queue, ipiVars, sleepVars, dVars>>

UserPcs == {"idle", "section", "raw", "locked", "hold", "unlinked",
            "release", "now", "wake", "spin"}
DrainerPcs == {"detach", "add", "recheck", "yield", "sleep", "deadline", "nap",
               "grace", "lock", "arm", "send", "wait", "free"}

RcuInit ==
    /\ run = [c \in CPUs |-> None]
    /\ pc = [t \in Threads |-> "idle"]
    /\ obj = [t \in Threads |-> None]
    /\ indexed = {}
    /\ refs = [p \in Objects |-> 0]
    /\ evicted = [p \in Objects |-> FALSE]
    /\ life = [p \in Objects |-> "free"]
    /\ rcu_up = FALSE
    /\ queue = {}
    /\ ack = [c \in CPUs |-> FALSE]
    /\ ipi = [c \in CPUs |-> FALSE]
    /\ on_wait = FALSE
    /\ dstate = "running"
    /\ timer = FALSE
    /\ dpc = "detach"
    /\ batch = {}
    /\ self_id = None
    /\ arming = {}
    /\ pending = {}

\* No state: only another module of the run moves.
RcuAbsent ==
    /\ run = None /\ pc = None /\ obj = None /\ indexed = None /\ refs = None
    /\ evicted = None /\ life = None /\ rcu_up = None /\ queue = None
    /\ ack = None /\ ipi = None /\ on_wait = None /\ dstate = None
    /\ timer = None /\ dpc = None /\ batch = None /\ self_id = None
    /\ arming = None /\ pending = None

RcuPresent == run # None

-----------------------------------------------------------------------------
(* Threads on CPUs *)

Runs(t, from) == (\E c \in CPUs : run[c] = t) /\ pc[t] = from

\* A read section of the page cache, a contended spinlock and the barrier
\* keep interrupts off.
ReaderMasked(t) == pc[t] = "section" \/ (pc[t] = "raw" /\ obj[t] \notin Nodes)
Masked(c) ==
    \/ run[c] \in Threads /\ (ReaderMasked(run[c]) \/ pc[run[c]] = "spin")
    \/ run[c] = Drainer /\ dpc \in {"add", "recheck", "arm", "send", "wait"}

Runnable(t) == t = Drainer => rcu_up /\ dstate = "running"

\* sched_schedule(): an unmasked CPU gives its thread up and takes another.
Switch(c, t) ==
    /\ ~Masked(c)
    /\ run[c] # t
    /\ t # None => Runnable(t) /\ \A d \in CPUs : run[d] # t
    /\ run' = [run EXCEPT ![c] = t]
    /\ UNCHANGED <<userVars, objVars, rcu_up, queue, ipiVars, sleepVars, dVars>>

-----------------------------------------------------------------------------
(* Lookups *)

Move(t, to, p) ==
    /\ pc' = [pc EXCEPT ![t] = to]
    /\ obj' = [obj EXCEPT ![t] = p]
    /\ UNCHANGED <<run, rcu_up, ipiVars, dVars>>

\* vfs_cache_insert(), vfs_dentry_insert(): a new object with its creator's
\* reference; the dentry cache counts one of its own.
vfs_cache_insert(t, p) ==
    /\ Runs(t, "idle")
    /\ life[p] = "free"
    /\ life' = [life EXCEPT ![p] = "live"]
    /\ refs' = [refs EXCEPT ![p] = IF p \in Nodes THEN 2 ELSE 1]
    /\ evicted' = [evicted EXCEPT ![p] = FALSE]
    /\ indexed' = indexed \cup {p}
    /\ Move(t, "hold", p)
    /\ UNCHANGED <<queue, sleepVars>>

\* With the engine down every lookup takes the lock.
vfs_cache_lookup(t) ==
    /\ Runs(t, "idle")
    /\ Move(t, IF rcu_up THEN "section" ELSE "locked", None)
    /\ UNCHANGED <<objVars, queue, sleepVars>>

\* The tree walk returns a raw pointer ...
LookupLoad(t, p) ==
    /\ Runs(t, "section")
    /\ p \in indexed \ Nodes
    /\ Move(t, "raw", p)
    /\ UNCHANGED <<objVars, queue, sleepVars>>

\* ... or a stable miss, which leaves the section.
LookupMiss(t) ==
    /\ Runs(t, "section")
    /\ Move(t, "idle", None)
    /\ UNCHANGED <<objVars, queue, sleepVars>>

\* The dentry lookup reads entry->child without masking interrupts.
vfs_dentry_lookup_fast(t, p) ==
    /\ Runs(t, "idle") /\ rcu_up
    /\ p \in indexed \cap Nodes
    /\ Move(t, "raw", p)
    /\ UNCHANGED <<objVars, queue, sleepVars>>

\* vfs_page_tryref() and vfs_node_tryref() read the object they were given.
\* A thread that would read a freed one is not followed further: that state
\* is what RawPointerAlive reports.
RefAnyway(p) == TRUE \* mutant
MayRef(p) == IF p \in Nodes THEN refs[p] # 0 ELSE ~evicted[p]

vfs_page_tryref(t) ==
    /\ Runs(t, "raw")
    /\ life[obj[t]] # "free"
    /\ IF MayRef(obj[t])
         THEN /\ refs' = [refs EXCEPT ![obj[t]] = @ + 1]
              /\ Move(t, "hold", obj[t])
         ELSE /\ refs' = refs
              /\ Move(t, "locked", None)
    /\ UNCHANGED <<indexed, evicted, life, queue, sleepVars>>

\* Under pages_lock or the bucket lock an indexed object can be referenced.
vfs_cache_lookup_locked(t) ==
    /\ Runs(t, "locked")
    /\ \/ \E p \in indexed : /\ refs' = [refs EXCEPT ![p] = @ + 1]
                             /\ Move(t, "hold", p)
       \/ refs' = refs /\ Move(t, "idle", None)
    /\ UNCHANGED <<indexed, evicted, life, queue, sleepVars>>

\* vfs_page_put(), vfs_node_unref(): who drops the last reference of an
\* object that left its index releases it.
LastRefAny(p) == refs[p] = 1 \* mutant: the eviction marker is not compared
LastRef(p) == refs[p] = 1 /\ (p \in Nodes \/ evicted[p])

vfs_cache_put(t) ==
    /\ Runs(t, "hold")
    /\ refs' = [refs EXCEPT ![obj[t]] = @ - 1]
    /\ IF LastRef(obj[t]) THEN Move(t, "release", obj[t]) ELSE Move(t, "idle", None)
    /\ UNCHANGED <<indexed, evicted, life, queue, sleepVars>>

\* vfs_cache_invalidate(), vfs_dentry_bucket_invalidate(): out of the index
\* under the lock, then the marker or the cache's reference goes.
vfs_cache_invalidate(t, p) ==
    /\ Runs(t, "idle")
    /\ p \in indexed
    /\ indexed' = indexed \ {p}
    /\ Move(t, "unlinked", p)
    /\ UNCHANGED <<refs, evicted, life, queue, sleepVars>>

vfs_page_evict(t) ==
    /\ Runs(t, "unlinked")
    /\ IF obj[t] \in Nodes
         THEN /\ refs' = [refs EXCEPT ![obj[t]] = @ - 1]
              /\ evicted' = evicted
         ELSE /\ refs' = refs
              /\ evicted' = [evicted EXCEPT ![obj[t]] = TRUE]
    /\ IF refs'[obj[t]] = 0 THEN Move(t, "release", obj[t]) ELSE Move(t, "idle", None)
    /\ UNCHANGED <<indexed, life, queue, sleepVars>>

-----------------------------------------------------------------------------
(* vfs_rcu_defer() and the interrupt *)

\* The claim on head->queued, then the test of the engine.
vfs_rcu_defer(t) ==
    /\ Runs(t, "release")
    /\ IF rcu_up
         THEN /\ life' = [life EXCEPT ![obj[t]] = "queued"]
              /\ queue' = queue \cup {obj[t]}
              /\ Move(t, "wake", None)
         ELSE /\ Move(t, "now", obj[t])
              /\ UNCHANGED <<life, queue>>
    /\ UNCHANGED <<indexed, refs, evicted, sleepVars>>

\* Engine down: reclaimed on the spot.
ReclaimNow(t) ==
    /\ Runs(t, "now")
    /\ life' = [life EXCEPT ![obj[t]] = "free"]
    /\ Move(t, "idle", None)
    /\ UNCHANGED <<indexed, refs, evicted, queue, sleepVars>>

DeferWake(t) ==
    /\ Runs(t, "wake")
    /\ on_wait' = FALSE
    /\ dstate' = IF on_wait THEN "running" ELSE dstate
    /\ timer' = timer
    /\ Move(t, "idle", None)
    /\ UNCHANGED <<objVars, queue>>

\* A contended spinlock: masked, polling, not in a read section.
SpinStart(t) ==
    /\ Runs(t, "idle")
    /\ Move(t, "spin", None)
    /\ UNCHANGED <<objVars, queue, sleepVars>>

SpinEnd(t) ==
    /\ Runs(t, "spin")
    /\ Move(t, "idle", None)
    /\ UNCHANGED <<objVars, queue, sleepVars>>

\* mutant: the poll is also reached from inside a read section
PollAnywhere(c) ==
    /\ run[c] \in Threads /\ Masked(c)
    /\ ack[c]
    /\ ack' = [ack EXCEPT ![c] = FALSE]
    /\ UNCHANGED <<run, userVars, objVars, rcu_up, queue, ipi, sleepVars, dVars>>

vfs_rcu_poll(c) ==
    /\ run[c] \in Threads /\ pc[run[c]] = "spin"
    /\ ack[c]
    /\ ack' = [ack EXCEPT ![c] = FALSE]
    /\ UNCHANGED <<run, userVars, objVars, rcu_up, queue, ipi, sleepVars, dVars>>

vfs_rcu_isr(c) ==
    /\ ipi[c] /\ ~Masked(c)
    /\ ipi' = [ipi EXCEPT ![c] = FALSE]
    /\ ack' = [ack EXCEPT ![c] = FALSE]
    /\ UNCHANGED <<run, userVars, objVars, rcu_up, queue, sleepVars, dVars>>

-----------------------------------------------------------------------------
(* The drainer: vfs_rcu_worker() *)

At(from) == (\E c \in CPUs : run[c] = Drainer) /\ dpc = from

Goto(to) ==
    /\ dpc' = to
    /\ UNCHANGED <<run, userVars, rcu_up>>

\* The thread exists before the flag is published; it is not dispatched here
\* until then, which only delays an empty loop.
vfs_rcu_init ==
    /\ ~rcu_up
    /\ rcu_up' = TRUE
    /\ UNCHANGED <<run, userVars, objVars, queue, ipiVars, sleepVars, dVars>>

vfs_rcu_detach ==
    /\ At("detach")
    /\ batch' = queue
    /\ queue' = {}
    /\ Goto(IF queue = {} THEN "add"
            ELSE IF Cardinality(queue) < Limit THEN "sleep" ELSE "grace")
    /\ UNCHANGED <<objVars, ipiVars, sleepVars, self_id, arming, pending>>

\* Interrupts off: BLOCKED and linked, then the queue is tested again.
BlockAdd ==
    /\ At("add")
    /\ on_wait' = TRUE
    /\ dstate' = "blocked"
    /\ timer' = FALSE
    /\ Goto("recheck")
    /\ UNCHANGED <<objVars, queue, ipiVars, batch, self_id, arming, pending>>

\* mutant: sleeps without testing the queue again
BlockBlindly ==
    /\ At("recheck")
    /\ Goto("yield")
    /\ UNCHANGED <<objVars, queue, ipiVars, sleepVars, batch, self_id, arming, pending>>

BlockRecheck ==
    /\ At("recheck")
    /\ IF queue = {}
         THEN Goto("yield") /\ UNCHANGED <<on_wait, dstate>>
         ELSE Goto("detach") /\ on_wait' = FALSE /\ dstate' = "running"
    /\ UNCHANGED <<objVars, queue, ipiVars, timer, batch, self_id, arming, pending>>

BlockResume ==
    /\ At("yield") /\ dstate = "running"
    /\ on_wait' = FALSE
    /\ Goto("detach")
    /\ UNCHANGED <<objVars, queue, ipiVars, dstate, timer, batch, self_id, arming, pending>>

\* The accumulation window: the state is stored before the deadline.
SleepState ==
    /\ At("sleep")
    /\ dstate' = "sleeping"
    /\ Goto("deadline")
    /\ UNCHANGED <<objVars, queue, ipiVars, on_wait, timer, batch, self_id, arming, pending>>

SleepDeadline ==
    /\ At("deadline")
    /\ timer' = TRUE
    /\ Goto("nap")
    /\ UNCHANGED <<objVars, queue, ipiVars, on_wait, dstate, batch, self_id, arming, pending>>

\* sched_deadline_expire_locked() finds only a thread with wakeup_ticks set.
DeadlineExpires ==
    /\ timer /\ dpc = "nap"
    /\ timer' = FALSE
    /\ dstate' = "running"
    /\ UNCHANGED <<run, userVars, objVars, rcu_up, queue, ipiVars, on_wait, dVars>>

\* After the nap what was queued meanwhile joins the batch.
SleepResume ==
    /\ At("nap") /\ dstate = "running"
    /\ batch' = batch \cup queue
    /\ queue' = {}
    /\ Goto("grace")
    /\ UNCHANGED <<objVars, ipiVars, sleepVars, self_id, arming, pending>>

\* vfs_rcu_grace_period(): the CPU is read before the barrier lock masks.
vfs_rcu_grace_period ==
    /\ At("grace")
    /\ IF Cardinality(CPUs) <= 1
         THEN Goto("free") /\ self_id' = self_id
         ELSE Goto("lock") /\ self_id' \in {c \in CPUs : run[c] = Drainer}
    /\ UNCHANGED <<objVars, queue, ipiVars, sleepVars, batch, arming, pending>>

BarrierLock ==
    /\ At("lock")
    /\ arming' = CPUs \ {self_id}
    /\ pending' = {}
    /\ Goto("arm")
    /\ UNCHANGED <<objVars, queue, ipiVars, sleepVars, batch, self_id>>

Arm(c) ==
    /\ At("arm") /\ c \in arming
    /\ ack' = [ack EXCEPT ![c] = TRUE]
    /\ pending' = pending \cup {c}
    /\ arming' = IF arming = {c} THEN pending' ELSE arming \ {c}
    /\ Goto(IF arming = {c} THEN "send" ELSE "arm")
    /\ UNCHANGED <<objVars, queue, ipi, sleepVars, batch, self_id>>

Send(c) ==
    /\ At("send") /\ c \in arming
    /\ ipi' = [ipi EXCEPT ![c] = TRUE]
    /\ arming' = arming \ {c}
    /\ Goto(IF arming = {c} THEN "wait" ELSE "send")
    /\ UNCHANGED <<objVars, queue, ack, sleepVars, batch, self_id, pending>>

\* A pass of the wait loop.  It polls for TLB shootdowns only.
vfs_rcu_wait_acks ==
    /\ At("wait")
    /\ \E c \in pending : ~ack[c]
    /\ pending' = {c \in pending : ack[c]}
    /\ Goto(IF pending' = {} THEN "free" ELSE "wait")
    /\ UNCHANGED <<objVars, queue, ipiVars, sleepVars, batch, self_id, arming>>

vfs_rcu_reclaim(p) ==
    /\ At("free") /\ p \in batch
    /\ life' = [life EXCEPT ![p] = "free"]
    /\ batch' = batch \ {p}
    /\ Goto(IF batch = {p} THEN "detach" ELSE "free")
    /\ UNCHANGED <<indexed, refs, evicted, queue, ipiVars, sleepVars, self_id, arming, pending>>

-----------------------------------------------------------------------------
\* What a thread that started an operation goes on to do.
UserStep(t) ==
    \/ \E p \in Objects : LookupLoad(t, p)
    \/ LookupMiss(t) \/ vfs_page_tryref(t) \/ vfs_cache_lookup_locked(t)
    \/ vfs_cache_put(t) \/ vfs_page_evict(t) \/ vfs_rcu_defer(t)
    \/ ReclaimNow(t) \/ DeferWake(t) \/ SpinEnd(t)

\* What it may start.
UserStart(t) ==
    \/ \E p \in Objects : \/ vfs_cache_insert(t, p) \/ vfs_cache_invalidate(t, p)
                          \/ vfs_dentry_lookup_fast(t, p)
    \/ vfs_cache_lookup(t) \/ SpinStart(t)

DrainerStep ==
    \/ vfs_rcu_detach \/ BlockAdd \/ BlockRecheck \/ BlockResume
    \/ SleepState \/ SleepDeadline \/ SleepResume
    \/ vfs_rcu_grace_period \/ BarrierLock \/ vfs_rcu_wait_acks
    \/ \E c \in CPUs : Arm(c) \/ Send(c)
    \/ \E p \in Objects : vfs_rcu_reclaim(p)

RcuNext ==
    \/ \E t \in Threads : UserStart(t) \/ UserStep(t)
    \/ DrainerStep \/ DeadlineExpires \/ vfs_rcu_init
    \/ \E c \in CPUs : vfs_rcu_poll(c) \/ vfs_rcu_isr(c)
    \/ \E c \in CPUs, t \in Threads \cup {Drainer, None} : Switch(c, t)

RcuSpec == RcuInit /\ [][RcuNext]_rcuVars

-----------------------------------------------------------------------------
\* The state's types; no reference count goes below zero.
RcuTypeOK ==
    /\ run \in [CPUs -> Threads \cup {Drainer, None}]
    /\ pc \in [Threads -> UserPcs]
    /\ obj \in [Threads -> Objects \cup {None}]
    /\ indexed \subseteq Objects
    /\ refs \in [Objects -> Nat]
    /\ evicted \in [Objects -> BOOLEAN]
    /\ life \in [Objects -> {"free", "live", "queued"}]
    /\ rcu_up \in BOOLEAN
    /\ queue \subseteq Objects
    /\ ack \in [CPUs -> BOOLEAN] /\ ipi \in [CPUs -> BOOLEAN]
    /\ on_wait \in BOOLEAN /\ timer \in BOOLEAN
    /\ dstate \in {"running", "blocked", "sleeping"}
    /\ dpc \in DrainerPcs
    /\ batch \subseteq Objects
    /\ self_id \in CPUs \cup {None}
    /\ arming \subseteq CPUs /\ pending \subseteq CPUs

(***************************************************************************)
(* "Lockless reads run inside an IRQ-off region" (vfs_rcu.h): while a      *)
(* lookup holds a raw pointer, between the walk of the index and the       *)
(* reference it takes, the object has not been freed.                      *)
(***************************************************************************)
RawPointerAlive ==
    \A t \in Threads : pc[t] = "raw" => life[obj[t]] # "free"

(***************************************************************************)
(* The same for the page cache, whose lookups do mask interrupts: whichever *)
(* CPU the drainer started on and wherever it was moved to, no grace       *)
(* period ends while a lookup that began before it is under way.           *)
(***************************************************************************)
RawPageAlive ==
    RcuPresent =>
      \A t \in Threads : pc[t] = "raw" /\ obj[t] \notin Nodes => life[obj[t]] # "free"

(***************************************************************************)
(* References pin: what an index holds, or a caller of vfs_cache_lookup()  *)
(* still holds, was never handed to vfs_rcu_defer().                       *)
(***************************************************************************)
ReferencePins ==
    RcuPresent =>
      /\ \A p \in indexed : life[p] = "live"
      /\ \A t \in Threads : pc[t] \in {"hold", "unlinked"} => life[obj[t]] = "live"

(***************************************************************************)
(* "A page is freed exactly once" (vfs.h): of the racing put and evict one *)
(* alone releases, and only an object that is still live.                  *)
(***************************************************************************)
ReleasedOnce ==
    RcuPresent =>
      \A t \in Threads : pc[t] \in {"release", "now"} =>
          /\ life[obj[t]] = "live"
          /\ \A u \in Threads \ {t} : pc[u] \in {"release", "now"} => obj[u] # obj[t]

(***************************************************************************)
(* Whatever was queued will be freed: the drainer does not sleep on a      *)
(* queue whose wake is over (vfs_rcu_worker() re-tests it after linking),  *)
(* and each CPU that has not answered has the interrupt pending.  Where    *)
(* that is the drainer's own CPU, which it read before it masked           *)
(* interrupts and was then moved to, it cannot be taken.                   *)
(***************************************************************************)
DrainerGetsOn ==
    RcuPresent =>
      /\ dpc = "yield" /\ dstate = "blocked" /\ queue # {} => \E t \in Threads : pc[t] = "wake"
      /\ dpc = "wait" => \A c \in pending : ack[c] => ipi[c]

-----------------------------------------------------------------------------
(* The strengthening *)

\* Who a reference count stands for: the threads that hold the object and,
\* for a node, the dentry cache until vfs_dentry_bucket_invalidate() is done.
Unlinking(p) == \E t \in Threads : pc[t] = "unlinked" /\ obj[t] = p
CacheRef(p) == IF p \in Nodes /\ (p \in indexed \/ Unlinking(p)) THEN {None} ELSE {}
Holders(p) == {t \in Threads : pc[t] = "hold" /\ obj[t] = p} \cup CacheRef(p)

Leaving(t) == pc[t] \in {"unlinked", "release", "now"}

\* One thread at a time takes an object out, and it releases the object only
\* when nobody is counted and nobody can be counted again.
Leaves(t) ==
    /\ life[obj[t]] = "live" /\ obj[t] \notin indexed
    /\ \A u \in Threads \ {t} : Leaving(u) => obj[u] # obj[t]
    /\ pc[t] = "unlinked" /\ obj[t] \notin Nodes => ~evicted[obj[t]]
    /\ pc[t] # "unlinked" => refs[obj[t]] = 0 /\ (obj[t] \in Nodes \/ evicted[obj[t]])

CountInv ==
    /\ \A t \in Threads : pc[t] = "raw" \/ pc[t] = "hold" \/ Leaving(t) => obj[t] \in Objects
    /\ \A p \in Objects : refs[p] = Cardinality(Holders(p))
    /\ \A p \in Objects : life[p] # "live" => refs[p] = 0
    /\ \A p \in Objects \ Nodes : life[p] = "queued" => evicted[p]
    /\ \A p \in indexed : life[p] = "live" /\ (p \in Nodes \/ ~evicted[p])
    /\ \A t \in Threads : Leaving(t) => Leaves(t)

\* What is queued is in the queue or in the batch of a grace period.
BatchInv ==
    /\ \A p \in Objects : life[p] = "queued" <=> p \in queue \cup batch
    /\ queue \cap batch = {}
    /\ dpc \in {"detach", "add", "recheck", "yield"} => batch = {}

\* The grace period under way still waits for what CPU c runs.
Awaited(c) ==
    /\ dpc = "lock" => c # self_id
    /\ dpc = "arm" => c # self_id /\ (c \in arming \/ (c \in pending /\ ack[c]))
    /\ dpc \in {"send", "wait"} => c \in pending /\ ack[c]
    /\ dpc # "free"

\* A page lookup stays on its CPU, and a batch it looks into waits for it.
GraceInv ==
    /\ \A t \in Threads : pc[t] \in {"section", "raw"} => rcu_up
    /\ \A t \in Threads : ReaderMasked(t) => \E c \in CPUs : run[c] = t
    /\ \A t, u \in Threads : pc[t] = "now" /\ pc[u] = "raw" => obj[u] # obj[t]
    /\ \A c \in CPUs, t \in Threads :
         run[c] = t /\ pc[t] = "raw" /\ obj[t] \in batch \ Nodes => Awaited(c)

\* A blocked drainer can be woken, and is when the queue is not empty.
DrainerInv ==
    /\ dpc \in {"recheck", "yield"} /\ dstate = "blocked" => on_wait
    /\ dpc = "yield" /\ dstate = "blocked" /\ queue # {} => \E t \in Threads : pc[t] = "wake"
    /\ dpc \in {"send", "wait"} => \A c \in pending \ arming : ack[c] => ipi[c]
    /\ dpc = "wait" => arming = {}

\* A page under a lookup is not freed.
RawInv ==
    \A t \in Threads : pc[t] = "raw" /\ obj[t] \notin Nodes => life[obj[t]] # "free"

RcuInv == RcuTypeOK /\ CountInv /\ BatchInv /\ GraceInv /\ DrainerInv /\ RawInv
=============================================================================
