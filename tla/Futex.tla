-------------------------------- MODULE Futex --------------------------------
(* FUTEX_WAIT, FUTEX_WAKE, FUTEX_REQUEUE, FUTEX_CMP_REQUEUE and FUTEX_WAKE_OP*)
(* of syscalls/sys_futex.c, and the reaper's removal of a dead thread's      *)
(* waiters.                                                                  *)
(*                                                                           *)
(* A waiter lives on the stack of its thread, so it is named by the thread.  *)
(* A bucket's list is a function from its waiters to those ahead of each; its *)
(* waiters counter always is how many they are.  A section under a bucket    *)
(* lock is one step, except the one of futex_wait: the user's store and the  *)
(* lockless test of a waker come between its enqueue and its look at the     *)
(* value.  Values, timeouts and signals are what they decide.                *)
EXTENDS Integers, Sequences, FiniteSets, Null

CONSTANTS
    Waiters,
    Wakers,         \* each makes one call
    Words,          \* what futex_key tells apart
    HashSize,       \* FUTEX_HASH_SIZE
    Hashes,         \* the hash functions to consider
    Calls           \* the calls a waker may make

Buckets == 0..(HashSize - 1)

ASSUME FutexConstants ==
    /\ HashSize \in Nat /\ Hashes \subseteq [Words -> Buckets]
    /\ None \notin Waiters
    /\ \A op \in Calls :
         /\ op.store \in Words
         /\ op.wakes \in Seq([key : Words, n : Nat]) /\ op.wakes # <<>>
         /\ op.move # 0 => ~op.cond /\ Len(op.wakes) > 1

VARIABLES
    hash,       \* futex_hash_key
    val,        \* whether the word has changed since the waiters read it
    list,       \* the waiters of each bucket
    lock,       \* the waiter that is inside futex_wait's section
    waiter,     \* the waiter of each thread: key, whether requeued, bucket
    sleeper,    \* where each thread is, and its scheduler state
    waker,      \* where each waker is
    reap,       \* the reaper: its victim and the next bucket
    freed,      \* threads whose stack is gone
    tally       \* wakes asked for and waiters consumed since the word changed

futexVars == <<hash, val, list, lock, waiter, sleeper, waker, reap, freed, tally>>

Queued(t) == \E b \in Buckets : t \in DOMAIN list[b]

NoWaiter == [key |-> None, moved |-> FALSE, bucket |-> 0]

\* The list l without the waiters in S, and with those of m at its end.
Without(l, S) == [t \in DOMAIN l \ S |-> l[t] \ S]

Joined(l, m) ==
    [t \in DOMAIN l \cup DOMAIN m |-> IF t \in DOMAIN l THEN l[t] ELSE DOMAIN l \cup m[t]]

\* The first n of l, or all when they are fewer.
Fronts(l, n) ==
    {F \in SUBSET DOMAIN l :
        /\ \A t \in F : l[t] \subseteq F
        /\ Cardinality(F) \in 0..n
        /\ Cardinality(F) = n \/ F = DOMAIN l}

FutexInit ==
    /\ hash \in Hashes
    /\ val = [k \in Words |-> FALSE]
    /\ list = [b \in Buckets |-> [t \in {} |-> {}]]
    /\ lock = [b \in Buckets |-> None]
    /\ waiter = [t \in Waiters |-> NoWaiter]
    /\ sleeper = [t \in Waiters |-> [pc |-> "user", state |-> "RUNNING", saw |-> 0]]
    /\ waker = [w \in Wakers |->
                  [pc |-> "idle", todo |-> <<>>, claims |-> {}]]
    /\ reap = [victim |-> None, bucket |-> 0]
    /\ freed = {}
    /\ tally = [k \in Words |-> [asked |-> 0, consumed |-> 0]]

\* No state: only another module of the run moves.
FutexAbsent ==
    /\ hash = None /\ val = None /\ list = None /\ lock = None
    /\ waiter = None /\ sleeper = None /\ waker = None /\ reap = None
    /\ freed = None /\ tally = None

FutexPresent == hash # None

-----------------------------------------------------------------------------
(* futex_wait.                                                               *)

\* Out of the list and out of futex_wait, whose frame held the waiter.
Return(t, b) ==
    /\ list' = [list EXCEPT ![b] = Without(@, {t})]
    /\ waiter' = [waiter EXCEPT ![t] = NoWaiter]
    /\ sleeper' = [sleeper EXCEPT ![t] = [pc |-> "user", state |-> "RUNNING", saw |-> 0]]

WaitEnqueue(t, k) ==
    LET b == hash[k]
    IN /\ sleeper[t].pc = "user" /\ sleeper[t].state = "RUNNING"
       /\ lock[b] = None
       /\ lock' = [lock EXCEPT ![b] = t]
       /\ list' = [list EXCEPT ![b] = Joined(@, [u \in {t} |-> {}])]
       /\ waiter' = [waiter EXCEPT ![t] = [key |-> k, moved |-> FALSE, bucket |-> b]]
       /\ sleeper' = [sleeper EXCEPT ![t].pc = "check"]
       /\ UNCHANGED <<hash, val, waker, reap, freed, tally>>

\* The value is read again: wait, or leave the list and return.  A timeout
\* that is zero or over does not park either.
WaitCheck(t) ==
    LET b == waiter[t].bucket
    IN /\ sleeper[t].pc = "check"
       /\ lock' = [lock EXCEPT ![b] = None]
       /\ \/ /\ ~val[waiter[t].key]
             /\ sleeper' = [sleeper EXCEPT ![t].pc = "parked", ![t].state = "BLOCKED"]
             /\ UNCHANGED <<list, waiter>>
          \/ Return(t, b)
       /\ UNCHANGED <<hash, val, waker, reap, freed, tally>>

\* The lock that was taken protects the bucket the waiter is in now.
futex_lock_waiter(t) == sleeper[t].saw = waiter[t].bucket

BackLoad(t) ==
    /\ sleeper[t].pc = "parked" /\ sleeper[t].state = "RUNNING"
    /\ sleeper' = [sleeper EXCEPT ![t].pc = "back", ![t].saw = waiter[t].bucket]
    /\ UNCHANGED <<hash, val, list, lock, waiter, waker, reap, freed, tally>>

\* Back from the scheduler: still linked, the thread parks again before its
\* deadline, or leaves the list.
BackLocked(t) ==
    LET b == sleeper[t].saw
        linked == t \in DOMAIN list[b]
    IN /\ sleeper[t].pc = "back" /\ sleeper[t].state = "RUNNING"
       /\ lock[b] = None
       /\ \/ /\ ~futex_lock_waiter(t)
             /\ sleeper' = [sleeper EXCEPT ![t].pc = "parked"]
             /\ UNCHANGED <<list, waiter>>
          \/ /\ futex_lock_waiter(t) /\ linked
             /\ sleeper' = [sleeper EXCEPT ![t].pc = "parked", ![t].state = "BLOCKED"]
             /\ UNCHANGED <<list, waiter>>
          \/ futex_lock_waiter(t) /\ Return(t, b)
       /\ UNCHANGED <<hash, val, lock, waker, reap, freed, tally>>

\* A deadline, a signal or a wake meant for something else.
Disturb(t) ==
    /\ sleeper[t].pc = "parked" /\ sleeper[t].state = "BLOCKED"
    /\ sleeper' = [sleeper EXCEPT ![t].state = "RUNNING"]
    /\ UNCHANGED <<hash, val, list, lock, waiter, waker, reap, freed, tally>>

-----------------------------------------------------------------------------
(* Wakers.  A call is the keys it wakes, with how many, or a requeue.        *)

\* The store to the word, by the user before the call or by FUTEX_WAKE_OP,
\* which wakes the second key only if the old value compares.
StoreWord(w, op) ==
    /\ waker[w].pc = "idle"
    /\ op \in Calls
    /\ LET k == op.store
           plan == IF op.cond /\ val[k] THEN SubSeq(op.wakes, 1, 1) ELSE op.wakes
       IN /\ val' = [val EXCEPT ![k] = TRUE]
          /\ waker' = [waker EXCEPT ![w].pc = IF op.move = 0 THEN "wake" ELSE "requeue",
                                    ![w].todo = plan]
    /\ UNCHANGED <<hash, list, lock, waiter, sleeper, reap, freed, tally>>

\* Mutant of NoWaiters: only threads that are parked are counted.
NoWaitersParked(b) == \A t \in DOMAIN list[b] : sleeper[t].state # "BLOCKED"

NoWaiters(b) == DOMAIN list[b] = {}

Counted(k, n, consumed) ==
    tally' = IF val[k]
             THEN [tally EXCEPT ![k].asked = @ + n, ![k].consumed = @ + consumed]
             ELSE tally

\* On to the next key of the call.
Following(w) == IF Len(waker[w].todo) > 1 THEN "wake" ELSE "done"

\* The fast path of futex_wake_key, without the lock.
WakeFast(w) ==
    LET wake == Head(waker[w].todo)
        b == hash[wake.key]
    IN /\ waker[w].pc = "wake"
       /\ \/ /\ NoWaiters(b)
             /\ waker' = [waker EXCEPT ![w].pc = Following(w), ![w].todo = Tail(@)]
             /\ Counted(wake.key, wake.n, 0)
          \/ /\ ~NoWaiters(b)
             /\ waker' = [waker EXCEPT ![w].pc = "scan"]
             /\ UNCHANGED tally
       /\ UNCHANGED <<hash, val, list, lock, waiter, sleeper, reap, freed>>

Matching(k) == LET l == list[hash[k]] IN Without(l, {t \in DOMAIN l : waiter[t].key # k})

\* Unlink up to n waiters and claim their threads, under the bucket lock.
WakeScan(w) ==
    LET wake == Head(waker[w].todo)
        b == hash[wake.key]
    IN /\ waker[w].pc = "scan"
       /\ lock[b] = None
       /\ \E taken \in Fronts(Matching(wake.key), wake.n) :
            /\ list' = [list EXCEPT ![b] = Without(@, taken)]
            /\ waker' = [waker EXCEPT ![w].pc = "deliver", ![w].claims = taken]
            /\ Counted(wake.key, wake.n, Cardinality(taken))
       /\ UNCHANGED <<hash, val, lock, waiter, sleeper, reap, freed>>

\* FUTEX_REQUEUE and FUTEX_CMP_REQUEUE, under both bucket locks: wake the
\* first n waiters, move the next ones to the other key and its bucket.  With
\* a comparison the call fails if the word has changed.
Requeue(w) ==
    LET wake == waker[w].todo[1]
        to == waker[w].todo[2].key
        all == Matching(wake.key)
        b1 == hash[wake.key]
        b2 == hash[to]
    IN /\ waker[w].pc = "requeue"
       /\ lock[b1] = None /\ lock[b2] = None
       /\ \E taken \in Fronts(all, wake.n) :
          \E moved \in Fronts(Without(all, taken), waker[w].todo[2].n) :
            LET Moving == Without(all, DOMAIN all \ moved)
                Staying == [b \in Buckets |-> Without(list[b], taken \cup moved)]
            IN /\ list' = [Staying EXCEPT ![b2] = Joined(@, Moving)]
               /\ waiter' = [t \in Waiters |->
                               IF t \in moved
                               THEN [key |-> to, moved |-> TRUE, bucket |-> b2]
                               ELSE waiter[t]]
               /\ waker' = [waker EXCEPT ![w].pc = "deliver", ![w].claims = taken,
                                         ![w].todo = <<wake>>]
               /\ Counted(wake.key, wake.n, Cardinality(taken))
       /\ UNCHANGED <<hash, val, lock, sleeper, reap, freed>>

RequeueRefused(w) ==
    /\ waker[w].pc = "requeue"
    /\ waker' = [waker EXCEPT ![w].pc = "done", ![w].todo = <<>>]
    /\ UNCHANGED <<hash, val, list, lock, waiter, sleeper, reap, freed, tally>>

\* sched_wakeup of one claimed thread, after which its claim is dropped.
Deliver(w, t) ==
    /\ waker[w].pc = "deliver"
    /\ t \in waker[w].claims
    /\ waker' = [waker EXCEPT ![w].claims = @ \ {t}]
    /\ sleeper' = [sleeper EXCEPT ![t].state = IF @ = "BLOCKED" THEN "RUNNING" ELSE @]
    /\ UNCHANGED <<hash, val, list, lock, waiter, reap, freed, tally>>

Delivered(w) ==
    /\ waker[w].pc = "deliver" /\ waker[w].claims = {}
    /\ waker' = [waker EXCEPT ![w].pc = Following(w), ![w].todo = Tail(@)]
    /\ UNCHANGED <<hash, val, list, lock, waiter, sleeper, reap, freed, tally>>

-----------------------------------------------------------------------------
(* exit_group kills a thread inside futex_wait, which does not return.     *)

Kill(t) ==
    /\ sleeper[t].pc \in {"parked", "back"} /\ sleeper[t].state # "DEAD"
    /\ sleeper' = [sleeper EXCEPT ![t].state = "DEAD"]
    /\ UNCHANGED <<hash, val, list, lock, waiter, waker, reap, freed, tally>>

ReapStart(t) ==
    /\ reap.victim = None
    /\ sleeper[t].state = "DEAD" /\ t \notin freed
    /\ reap' = [victim |-> t, bucket |-> 0]
    /\ UNCHANGED <<hash, val, list, lock, waiter, sleeper, waker, freed, tally>>

\* futex_remove_thread_waiters, one bucket: an empty one without its lock.
ReapScan ==
    LET b == reap.bucket
    IN /\ reap.victim # None
       /\ b \in Buckets
       /\ NoWaiters(b) \/ lock[b] = None
       /\ list' = [list EXCEPT ![b] = Without(@, {reap.victim})]
       /\ reap' = [reap EXCEPT !.bucket = @ + 1]
       /\ UNCHANGED <<hash, val, lock, waiter, sleeper, waker, freed, tally>>

\* Mutant of Claimed: the reaper does not wait for the wakers.
ClaimedIgnored(t) == FALSE

Claimed(t) == \E w \in Wakers : t \in waker[w].claims

\* The stack goes if no waker has claimed the thread; else a later try.
ReapEnd ==
    /\ reap.victim # None
    /\ reap.bucket \notin Buckets
    /\ freed' = IF Claimed(reap.victim) THEN freed ELSE freed \cup {reap.victim}
    /\ reap' = [victim |-> None, bucket |-> 0]
    /\ UNCHANGED <<hash, val, list, lock, waiter, sleeper, waker, tally>>

-----------------------------------------------------------------------------
(* The specification.                                                        *)

FutexNext ==
    \/ \E t \in Waiters :
         \/ \E k \in Words : WaitEnqueue(t, k)
         \/ WaitCheck(t)
         \/ BackLoad(t)
         \/ BackLocked(t)
         \/ Disturb(t)
         \/ Kill(t)
         \/ ReapStart(t)
         \/ \E w \in Wakers : Deliver(w, t)
    \/ \E w \in Wakers :
         \/ \E op \in Calls : StoreWord(w, op)
         \/ WakeFast(w)
         \/ WakeScan(w)
         \/ Requeue(w)
         \/ RequeueRefused(w)
         \/ Delivered(w)
    \/ ReapScan
    \/ ReapEnd

FutexSpec == FutexInit /\ [][FutexNext]_futexVars

-----------------------------------------------------------------------------
(* Properties.                                                               *)

Pending(k) == \E w \in Wakers : \E i \in DOMAIN waker[w].todo : waker[w].todo[i].key = k

\* No wakeup is lost between the lockless test of futex_wake_key and the value
\* check of futex_wait: once the word has changed and the wakes that go with
\* the change are over, no thread is parked on it, unless they were asked to
\* wake fewer and did wake as many.  A thread moved by a requeue waits for the
\* next wake of the key it was moved to.
NoLostWake ==
    FutexPresent =>
      \A k \in Words :
          val[k] /\ ~Pending(k) /\ tally[k].consumed < tally[k].asked =>
              \A t \in Waiters :
                  ~(/\ sleeper[t].pc = "parked" /\ sleeper[t].state = "BLOCKED"
                    /\ waiter[t].key = k /\ ~waiter[t].moved)

\* The stack of a reaped thread, which holds its waiter, is gone only when no
\* bucket links the waiter and no waker is about to wake the thread.
NoDeadWaiter ==
    FutexPresent =>
      \A t \in freed : ~Queued(t) /\ \A w \in Wakers : t \notin waker[w].claims

-----------------------------------------------------------------------------
(* The strengthening of the two that every step preserves.                   *)

WaiterRecords == [key : Words \cup {None}, moved : BOOLEAN, bucket : Nat]

SleeperRecords ==
    [pc : {"user", "check", "parked", "back"}, state : {"RUNNING", "BLOCKED", "DEAD"},
     saw : Nat]

WakerRecords ==
    [pc : {"idle", "wake", "scan", "requeue", "deliver", "done"},
     todo : Seq([key : Words, n : Nat]), claims : SUBSET Waiters]

FutexTypeOK ==
    /\ hash \in [Words -> Buckets] /\ hash \in Hashes /\ val \in [Words -> BOOLEAN]
    /\ DOMAIN list = Buckets /\ \A b \in Buckets : DOMAIN list[b] \subseteq Waiters
    /\ lock \in [Buckets -> Waiters \cup {None}]
    /\ waiter \in [Waiters -> WaiterRecords] /\ sleeper \in [Waiters -> SleeperRecords]
    /\ waker \in [Wakers -> WakerRecords]
    /\ reap \in [victim : Waiters \cup {None}, bucket : Nat] /\ freed \subseteq Waiters
    /\ tally \in [Words -> [asked : Nat, consumed : Nat]]

\* What is left of a waker's call, by where it is.
PlanOK(r) ==
    /\ r.pc \in {"wake", "scan", "deliver"} => r.todo # <<>>
    /\ r.pc = "requeue" => Len(r.todo) > 1
    /\ r.pc # "deliver" => r.claims = {}

PlansInv == \A w \in Wakers : PlanOK(waker[w])

\* A thread between enqueue and check has the lock of its bucket; a linked
\* waiter is in the bucket it names, which is that of its key.
WaiterOK(t) ==
    /\ sleeper[t].pc = "check" =>
         /\ lock[waiter[t].bucket] = t /\ t \in DOMAIN list[waiter[t].bucket]
         /\ sleeper[t].state = "RUNNING" /\ ~waiter[t].moved
    /\ sleeper[t].pc = "user" => sleeper[t].state = "RUNNING"
    /\ sleeper[t].pc # "user" => /\ waiter[t].key \in Words
                                 /\ waiter[t].bucket = hash[waiter[t].key]
    /\ sleeper[t].pc = "back" => sleeper[t].saw \in Buckets
    /\ \A b \in Buckets :
         /\ t \in DOMAIN list[b] => sleeper[t].pc # "user" /\ waiter[t].bucket = b
         /\ lock[b] = t => sleeper[t].pc = "check" /\ waiter[t].bucket = b

WaitersInv == \A t \in Waiters : WaiterOK(t)

\* Waiters that parked on k before it changed and nobody has claimed.
Left(k) ==
    {t \in Waiters : /\ t \in DOMAIN list[hash[k]] /\ waiter[t].key = k
                     /\ ~waiter[t].moved /\ sleeper[t].pc # "check"}

WordInv ==
    \A k \in Words :
        /\ ~val[k] => tally[k] = [asked |-> 0, consumed |-> 0]
        /\ val[k] => tally[k].consumed = tally[k].asked \/ Left(k) = {}

\* The waker that has claimed t for the word it waits on still has to wake it.
WakeComing(t) ==
    \E w \in Wakers : /\ waker[w].pc = "deliver" /\ t \in waker[w].claims
                       /\ waker[w].todo[1].key = waiter[t].key

ParkedInv ==
    \A t \in Waiters :
        sleeper[t].pc = "parked" /\ sleeper[t].state = "BLOCKED" =>
            t \in DOMAIN list[waiter[t].bucket] \/ WakeComing(t)

VictimInv == reap.victim # None => sleeper[reap.victim].state = "DEAD"

WakeInv == FutexTypeOK /\ PlansInv /\ WaitersInv /\ WordInv /\ ParkedInv /\ VictimInv

\* The reaper has emptied the buckets behind it of its victim.
ReapInv ==
    /\ \A t \in freed : sleeper[t].state = "DEAD" /\ ~Queued(t) /\ ~Claimed(t)
    /\ reap.victim # None =>
         /\ reap.bucket \in Buckets \/ reap.bucket = HashSize
         /\ \A b \in Buckets : b < reap.bucket => reap.victim \notin DOMAIN list[b]

\* No requeue of the calls goes to a bucket the reaper scans before the first.
UpwardRequeues ==
    \A h \in Hashes : \A op \in Calls :
        op.move # 0 => h[op.wakes[1].key] <= h[op.wakes[2].key]

\* ... and so do those under way.
UpwardInv ==
    \A w \in Wakers :
        waker[w].pc = "requeue" =>
            hash[waker[w].todo[1].key] <= hash[waker[w].todo[2].key]

DeadInv == WakeInv /\ ReapInv /\ UpwardInv
=============================================================================
