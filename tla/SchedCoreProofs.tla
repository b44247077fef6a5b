--------------------------- MODULE SchedCoreProofs ---------------------------
(* Proofs about SchedCore: no two CPUs run on one stack, the trees match the  *)
(* threads, no runnable thread is lost, a freed thread is unreachable and the *)
(* queue locks are taken in order.                                            *)
EXTENDS SchedCoreSteps, FiniteSetTheorems

USE ZenonT(30)

LEMMA ThreadsCount == ThreadsCounted
<1>1. ASSUME NEW S \in SUBSET Threads PROVE IsFiniteSet(S) /\ Cardinality(S) \in Nat
  <2>1. IsFiniteSet(S)
    BY SchedConstants, FS_Subset
  <2>2. QED
    BY <2>1, FS_CardinalityType
<1>2. ASSUME NEW S \in SUBSET Threads, NEW t \in Threads \ S
      PROVE  Cardinality(S \cup {t}) = Cardinality(S) + 1
  BY <1>1, FS_AddElement
<1>3. ASSUME NEW S \in SUBSET Threads, NEW t \in S
      PROVE  Cardinality(S \ {t}) = Cardinality(S) - 1
  BY <1>1, FS_RemoveElement
<1>4. ASSUME NEW S \in SUBSET Threads, NEW T \in SUBSET Threads, S \cap T = {}
      PROVE  Cardinality(S \cup T) = Cardinality(S) + Cardinality(T)
  <2>1. IsFiniteSet(S) /\ IsFiniteSet(T) /\ Cardinality(S) \in Nat /\ Cardinality(T) \in Nat
    BY <1>1
  <2>2. Cardinality(S \cup T) = Cardinality(S) + Cardinality(T) - Cardinality({})
    BY <1>4, <2>1, FS_Union
  <2>3. Cardinality({}) = 0
    BY FS_EmptySet
  <2>4. QED
    BY SMTT(30), <2>1, <2>2, <2>3
<1>5. QED
  BY <1>1, <1>2, <1>3, <1>4 DEF ThreadsCounted

LEMMA SchedInitInv == SchedInit => SchedInv
<1> SUFFICES ASSUME SchedInit PROVE SchedInv
  OBVIOUS
<1>1. PICK k \in CpuIds : k = CHOOSE c \in CpuIds : TRUE
  BY SchedConstants
<1>2. SchedTypeOK
  <2>1. cpu_index \in [Threads -> CpuIds]
    BY <1>1 DEF SchedInit
  <2>2. pc \in [CpuIds -> Labels] /\ loc \in [CpuIds -> Locals] /\ state \in [Threads -> States]
    BY NoLocalsType DEF SchedInit, Labels, States
  <2>3. QED
    BY SMTT(30), <2>1, <2>2 DEF SchedInit, SchedTypeOK
<1>3. \A c \in CpuIds : /\ pc[c] = "run" /\ loc[c].t = None /\ current_thread[c] = Idle
                        /\ switching_from[c] = None /\ queue_lock[c] = None
                        /\ tasks_tree[c] = {} /\ deadline_tree[c] = {} /\ runnable_count[c] = 0
  BY DEF SchedInit, NoLocals
<1>4. \A t \in Threads : /\ state[t] = "NEW" /\ ~on_cpu[t] /\ ~on_rq[t] /\ ~deadline_queued[t]
                         /\ t # None /\ t # Idle
  BY SchedConstants DEF SchedInit
<1>5. ASSUME NEW c \in CpuIds, NEW t \in Threads PROVE current_thread[c] # t
  <2>1. current_thread[c] = Idle
    BY DEF SchedInit
  <2>2. QED
    BY <2>1, SchedConstants
<1>6. /\ "run" \notin Dispatching /\ "run" \notin Stealing /\ "run" \notin Waking
      /\ "run" \notin Leaving /\ "run" \in Plain
      /\ "run" \notin Dispatching \cup {"steal2", "wake2", "wakecheck", "wakestore"}
      /\ "run" \notin Waking \cup {"enqueue", "queue_reap", "free"}
      /\ "run" \notin {"commit"} \cup Leaving
  BY SMTT(30) DEF Dispatching, Stealing, Waking, Leaving, Plain
<1>7. LockInv
  <2>1. \A c \in CpuIds : Holding(c) = {}
    BY <1>3, <1>6, HoldingCases DEF Holds
  <2>2. QED
    BY <1>3, <2>1, SchedConstants DEF LockInv
<1>8. LocalsInv
  BY SMTT(30), <1>3 DEF LocalsInv, LocalsOK, Plain, Stealing, Waking, Leaving
<1>9. \A c \in CpuIds, t \in Threads : ~Occupies(c, t) /\ ~Storing(c, t)
  <2>1. ASSUME NEW c \in CpuIds, NEW t \in Threads PROVE ~Occupies(c, t) /\ ~Storing(c, t)
    <3>1. pc[c] = "run" /\ current_thread[c] # t
      BY <1>3, <1>5
    <3>2. QED
      BY <1>6, <3>1 DEF Occupies, Storing
  <2>2. QED
    BY <2>1
<1>10. StackInv
  BY <1>3, <1>4, <1>6, <1>9 DEF StackInv
<1>11. TasksInv /\ DeadlinesInv
  BY <1>3, <1>4 DEF TasksInv, DeadlinesInv
<1>12. ChoiceInv
  BY <1>3 DEF ChoiceInv, ChoiceOK
<1>13. CountedInv
  <2>1. \A c \in CpuIds : Counted(c) = 0 /\ Cardinality(tasks_tree[c]) = 0
    BY <1>3, FS_EmptySet DEF Counted
  <2>2. QED
    BY SMTT(30), <1>3, <2>1 DEF CountedInv
<1>14. WakeInv
  BY <1>9 DEF WakeInv
<1>15. \A t \in Threads : Detached(t)
  BY <1>4, <1>9 DEF Detached
<1>16. CreationInv
  BY <1>3, <1>4, <1>15 DEF CreationInv, CreationOK, UnderCreation
<1>17. ReapInv
  <2>1. freed = {} /\ reap_queue = {} /\ reap_queued = {} /\ reap_worker_lock = None
    BY DEF SchedInit
  <2>2. \A t \in Threads : ~Reaping(t)
    BY <1>3, <2>1 DEF Reaping
  <2>3. \A c \in CpuIds : reap_worker_lock = c <=> pc[c] \in {"reap", "free"}
    BY <1>3, <2>1, SchedConstants
  <2>4. QED
    BY <1>3, <2>1, <2>2, <2>3 DEF ReapInv
<1>18. QueuedInv
  BY <1>4 DEF QueuedInv, QueuedOK
<1>19. CurrentInv
  BY <1>5 DEF CurrentInv, CurrentOK
<1>20. QED
  BY <1>2, <1>7, <1>8, <1>10, <1>11, <1>12, <1>13, <1>14, <1>16, <1>17, <1>18, <1>19 DEF SchedInv

LEMMA SchedNextInv == SchedInv /\ [SchedNext]_schedVars => SchedInv'
<1> SUFFICES ASSUME SchedInv, [SchedNext]_schedVars PROVE SchedInv'
  OBVIOUS
<1>1. CASE SchedNext
  <2>1. PICK c \in CpuIds : Step(c)
    BY <1>1 DEF SchedNext
  <2>2. SchedTypeOK /\ LockInv /\ LocalsInv
    BY DEF SchedInv
  <2>3. Local(c) /\ LockInv' /\ queue_lock' \in [CpuIds -> CpuIds \cup {None}] /\ LocalsInv'
    BY <2>1, <2>2, LocalStep, LockStep, LocalsStep
  <2>4. /\ current_thread' \in [CpuIds -> Threads \cup {Idle}]
        /\ switching_from' \in [CpuIds -> Threads \cup {Idle, None}]
    BY <2>1, <2>2, CpuStep
  <2>5. Rest'
    BY <2>1, <2>3, ThreadsCount, SchedStepRest
  <2>6. SchedTypeOK'
    BY <2>3, <2>4, <2>5 DEF Rest, DataTypes, SchedTypeOK, Local
  <2>7. QED
    BY <2>3, <2>5, <2>6 DEF Rest, SchedInv
<1>2. CASE UNCHANGED schedVars
  <2> USE <1>2 DEF schedVars, threadVars, rqVars, cpuVars, reapVars
  <2>1. SchedTypeOK' /\ TasksInv' /\ DeadlinesInv'
    BY DEF SchedInv, SchedTypeOK, TasksInv, DeadlinesInv
  <2>2. LockInv'
    BY DEF SchedInv, LockInv, Holding
  <2>3. LocalsInv'
    BY DEF SchedInv, LocalsInv, LocalsOK
  <2>4. StackInv'
    BY DEF SchedInv, StackInv, Occupies
  <2>5. ChoiceInv' /\ CountedInv' /\ CurrentInv'
    BY DEF SchedInv, ChoiceInv, ChoiceOK, CountedInv, Counted, Choosing, CurrentInv, CurrentOK
  <2>6. WakeInv' /\ QueuedInv'
    BY DEF SchedInv, WakeInv, Storing, QueuedInv, QueuedOK, UnderCreation
  <2>7. CreationInv'
    BY DEF SchedInv, CreationInv, CreationOK, Detached, Storing, UnderCreation
  <2>8. ReapInv'
    BY DEF SchedInv, ReapInv, Reaping, Detached, Storing
  <2>9. QED
    BY <2>1, <2>2, <2>3, <2>4, <2>5, <2>6, <2>7, <2>8 DEF SchedInv
<1>3. QED
  BY <1>1, <1>2

\* The inductive invariant of the scheduler holds in every reachable state,
\* for any number of CPUs and threads.
THEOREM SchedInvariant == SchedSpec => []SchedInv
<1>1. QED
  BY SchedInitInv, SchedNextInv, PTL DEF SchedSpec

-----------------------------------------------------------------------------
(* What the invariant gives *)

\* No two CPUs execute on one kernel stack: on_cpu and the queue locks keep
\* schedule(), the work stealer and sched_wakeup() from dispatching a thread
\* whose registers are still being saved.
THEOREM SchedOneCpuPerStack == SchedSpec => []OneCpuPerStack
<1>1. SchedInv => OneCpuPerStack
  <2> SUFFICES ASSUME SchedInv PROVE OneCpuPerStack
    OBVIOUS
  <2>1. ASSUME NEW c \in CpuIds, NEW t \in Stacks(c) PROVE t \in Threads /\ Occupies(c, t)
    <3>1. /\ current_thread[c] \in Threads \cup {Idle}
          /\ switching_from[c] \in Threads \cup {Idle, None}
      BY DEF SchedInv, SchedTypeOK
    <3>2. switching_from[c] = IF pc[c] = "switch" THEN loc[c].t ELSE None
      BY DEF SchedInv, StackInv
    <3>3. "switch" \in Leaving
      BY DEF Leaving
    <3>4. t # Idle /\ t # None /\ (t = current_thread[c] \/ t = switching_from[c])
      BY <2>1 DEF Stacks
    <3>5. QED
      BY <3>1, <3>2, <3>3, <3>4 DEF Occupies
  <2>2. ASSUME NEW c \in CpuIds, NEW d \in CpuIds, NEW t \in Stacks(c), t \in Stacks(d) PROVE c = d
    <3>1. t \in Threads /\ Occupies(c, t) /\ Occupies(d, t)
      BY <2>1, <2>2
    <3>2. cpu_index[t] = c /\ cpu_index[t] = d
      BY <3>1 DEF SchedInv, StackInv
    <3>3. QED
      BY <3>2
  <2>3. QED
    BY <2>2 DEF OneCpuPerStack
<1>2. QED
  BY <1>1, SchedInvariant, PTL

\* Every linked node is in exactly the tree of the CPU that cpu_index names,
\* and with the queue_lock free runnable_count is the load of the CPU:
\* enqueueing, dequeueing, stealing, expiring deadlines and switching all keep
\* the trees, the flags and the counter together.
THEOREM SchedTreesMatchThreads == SchedSpec => []TreesMatchThreads
<1>1. SchedInv => TreesMatchThreads
  <2> SUFFICES ASSUME SchedInv PROVE TreesMatchThreads
    OBVIOUS
  <2>1. ASSUME NEW t \in Threads
        PROVE  /\ {c \in CpuIds : t \in tasks_tree[c]} = IF on_rq[t] THEN {cpu_index[t]} ELSE {}
               /\ {c \in CpuIds : t \in deadline_tree[c]}
                    = IF deadline_queued[t] THEN {cpu_index[t]} ELSE {}
    <3>1. cpu_index[t] \in CpuIds
      BY DEF SchedInv, SchedTypeOK
    <3>2. \A c \in CpuIds : t \in tasks_tree[c] <=> on_rq[t] /\ cpu_index[t] = c
      BY DEF SchedInv, TasksInv
    <3>3. \A c \in CpuIds : t \in deadline_tree[c] <=> deadline_queued[t] /\ cpu_index[t] = c
      BY DEF SchedInv, DeadlinesInv
    <3>4. {c \in CpuIds : t \in tasks_tree[c]} = IF on_rq[t] THEN {cpu_index[t]} ELSE {}
      BY <3>1, <3>2
    <3>5. {c \in CpuIds : t \in deadline_tree[c]} = IF deadline_queued[t] THEN {cpu_index[t]} ELSE {}
      BY <3>1, <3>3
    <3>6. QED
      BY <3>4, <3>5
  <2>2. ASSUME NEW c \in CpuIds, Free(c)
        PROVE  runnable_count[c] = Cardinality(tasks_tree[c])
                                     + (IF current_thread[c] = Idle THEN 0 ELSE 1)
    <3>1. pc[c] \notin Dispatching
      <4>1. c \notin Holding(c)
        BY <2>2, SchedConstants DEF SchedInv, LockInv, Free
      <4>2. pc[c] \in Dispatching => Holding(c) = {c}
        BY HoldingCases DEF Holds
      <4>3. QED
        BY <4>1, <4>2
    <3>2. ~Choosing(c)
      BY <3>1 DEF Choosing, Dispatching
    <3>3. QED
      BY <3>2 DEF SchedInv, CountedInv, Counted
  <2>3. QED
    BY <2>1, <2>2 DEF TreesMatchThreads
<1>2. QED
  BY <1>1, SchedInvariant, PTL

\* No runnable thread is lost, and no timed sleeper stays without a deadline:
\* a wakeup that races with the switch away from the thread, a steal or a
\* deadline always finds it queued, current or still being created.
THEOREM SchedNoLostThread == SchedSpec => []NoLostThread
<1>1. SchedInv => NoLostThread
  BY DEF SchedInv, QueuedInv, QueuedOK, NoLostThread
<1>2. QED
  BY <1>1, SchedInvariant, PTL

\* A freed thread is on no stack, in no tree and in no reap queue, and only
\* its creator, about to enqueue it, still has a pointer to it: the reaper's
\* tests in sched_prepare_thread_reap() and sched_reap_thread() suffice.
THEOREM SchedFreedIsUnreachable == SchedSpec => []FreedIsUnreachable
<1>1. SchedInv => FreedIsUnreachable
  <2> SUFFICES ASSUME SchedInv, NEW t \in freed
               PROVE  /\ \A c \in CpuIds : t \notin Stacks(c) \cup tasks_tree[c] \cup deadline_tree[c]
                      /\ \A c \in CpuIds : loc[c].t = t => pc[c] = "enqueue"
                      /\ t \notin reap_queue
    BY DEF FreedIsUnreachable
  <2>1. t \in Threads /\ t # None
    BY SchedConstants DEF SchedInv, SchedTypeOK
  <2>2. Detached(t) /\ t \notin reap_queue
    BY <2>1 DEF SchedInv, ReapInv, Reaping
  <2>3. ~on_rq[t] /\ ~deadline_queued[t] /\ ~on_cpu[t]
    BY <2>2 DEF Detached
  <2>4. \A c \in CpuIds : loc[c].t = t => pc[c] = "enqueue"
    BY DEF SchedInv, ReapInv
  <2>5. ASSUME NEW c \in CpuIds PROVE t \notin Stacks(c) \cup tasks_tree[c] \cup deadline_tree[c]
    <3>1. ~Occupies(c, t)
      BY <2>1, <2>3 DEF SchedInv, StackInv
    <3>2. switching_from[c] = IF pc[c] = "switch" THEN loc[c].t ELSE None
      BY DEF SchedInv, StackInv
    <3>3. "switch" \in Leaving
      BY DEF Leaving
    <3>4. t \notin Stacks(c)
      BY <2>1, <3>1, <3>2, <3>3 DEF Stacks, Occupies
    <3>5. t \notin tasks_tree[c] /\ t \notin deadline_tree[c]
      BY <2>1, <2>3 DEF SchedInv, TasksInv, DeadlinesInv
    <3>6. QED
      BY <3>4, <3>5
  <2>6. QED
    BY <2>2, <2>4, <2>5
<1>2. QED
  BY <1>1, SchedInvariant, PTL

\* A CPU that spins for a queue_lock holds only locks of smaller cpu_id.
LEMMA LocksAscend ==
  ASSUME SchedInv, NEW c \in CpuIds, NEW k \in Wants(c), NEW m \in CpuIds, queue_lock[m] = c
  PROVE  m < k
<1>1. m \in Holding(c) /\ LocalsOK(c) /\ Holds(c)
  BY HoldingCases DEF SchedInv, LockInv, LocalsInv
<1>2. pc[c] \in {"steal2", "wake2"}
  <2>1. pc[c] \in {"lock", "relock", "enqueue", "steal1", "steal2", "wake1", "wake2"}
    BY SMTT(30) DEF Wants
  <2>2. pc[c] \in Dispatching \cup {"steal2", "wake2", "wakecheck", "wakestore"}
    BY <1>1 DEF Holds
  <2>3. QED
    BY SMTT(30), <2>1, <2>2 DEF Dispatching
<1>3. CASE pc[c] = "steal2"
  <2>1. m = FirstLock(c, loc[c].target)
    <3>1. Holding(c) = {FirstLock(c, loc[c].target)}
      BY <1>1, <1>3 DEF Holds
    <3>2. QED
      BY <1>1, <3>1
  <2>2. k = SecondLock(c, loc[c].target)
    BY SMTT(30), <1>3 DEF Wants
  <2>3. loc[c].target \in CpuIds \ {c}
    BY <1>1, <1>3 DEF LocalsOK
  <2>4. FirstLock(c, loc[c].target) < SecondLock(c, loc[c].target)
    <3>1. PICK d \in CpuIds : d = loc[c].target /\ d # c
      BY <2>3
    <3>2. FirstLock(c, d) < SecondLock(c, d)
      BY <3>1, Orders
    <3>3. QED
      BY <3>1, <3>2
  <2>5. QED
    BY <2>1, <2>2, <2>4
<1>4. CASE pc[c] = "wake2"
  <2>1. m = FirstLock(loc[c].prev, loc[c].target)
    <3>1. Holding(c) = {FirstLock(loc[c].prev, loc[c].target)}
      BY <1>1, <1>4 DEF Holds
    <3>2. QED
      BY <1>1, <3>1
  <2>2. k = SecondLock(loc[c].prev, loc[c].target)
    BY SMTT(30), <1>4 DEF Wants
  <2>3. pc[c] \in Waking \cup {"enqueue"} /\ pc[c] \in Waking \ {"wake"}
    BY <1>4 DEF Waking
  <2>4. loc[c].prev \in CpuIds /\ loc[c].target \in CpuIds /\ loc[c].prev # loc[c].target
    BY <1>1, <1>4, <2>3 DEF LocalsOK
  <2>5. FirstLock(loc[c].prev, loc[c].target) < SecondLock(loc[c].prev, loc[c].target)
    <3>1. PICK a \in CpuIds, d \in CpuIds : a = loc[c].prev /\ d = loc[c].target /\ a # d
      BY <2>4
    <3>2. FirstLock(a, d) < SecondLock(a, d)
      BY <3>1, Orders
    <3>3. QED
      BY <3>1, <3>2
  <2>6. QED
    BY <2>1, <2>2, <2>5
<1>5. QED
  BY <1>2, <1>3, <1>4

\* A CPU that spins for a queue_lock holds only ones of smaller cpu_id.
LocksInOrder ==
  \A c, m \in CpuIds : \A k \in Wants(c) : queue_lock[m] = c => m < k

\* The stealer and sched_wakeup() take their second queue_lock in cpu_id
\* order, so that no ring of CPUs, of any length, waits on itself.
THEOREM SchedLocksInOrder == SchedSpec => []LocksInOrder
<1>1. SchedInv => LocksInOrder
  BY LocksAscend DEF LocksInOrder
<1>2. QED
  BY <1>1, SchedInvariant, PTL

\* The queue_locks never deadlock two CPUs, nor one with itself: whoever spins
\* for one while holding another holds the one of the smaller cpu_id.
THEOREM SchedNoLockCycle == SchedSpec => []NoLockCycle
<1>1. SchedInv => NoLockCycle
  <2> SUFFICES ASSUME SchedInv PROVE NoLockCycle
    OBVIOUS
  <2>1. \A k \in CpuIds : k \in Nat
    BY SchedConstants
  <2>2. queue_lock \in [CpuIds -> CpuIds \cup {None}]
    BY DEF SchedInv, SchedTypeOK
  <2>3. ASSUME NEW c \in CpuIds, NEW k \in Wants(c) PROVE k \in CpuIds
    <3>1. LocalsOK(c)
      BY DEF SchedInv, LocalsInv
    <3>2. CASE pc[c] \in {"lock", "relock"}
      BY SMTT(30), <2>3, <3>2 DEF Wants
    <3>3. CASE pc[c] = "enqueue"
      BY SMTT(30), <2>3, <3>1, <3>3 DEF Wants, LocalsOK, Waking
    <3>4. CASE pc[c] \in {"steal1", "steal2"}
      <4>1. loc[c].target \in CpuIds
        BY <3>1, <3>4 DEF LocalsOK
      <4>2. k \in {FirstLock(c, loc[c].target), SecondLock(c, loc[c].target)}
        BY SMTT(30), <2>3, <3>4 DEF Wants
      <4>3. QED
        BY <4>1, <4>2 DEF FirstLock, SecondLock
    <3>5. CASE pc[c] \in {"wake1", "wake2"}
      <4>1. loc[c].prev \in CpuIds /\ loc[c].target \in CpuIds
        BY SMTT(30), <3>1, <3>5 DEF LocalsOK, Waking
      <4>2. k \in {FirstLock(loc[c].prev, loc[c].target), SecondLock(loc[c].prev, loc[c].target)}
        BY SMTT(30), <2>3, <3>5 DEF Wants
      <4>3. QED
        BY <4>1, <4>2 DEF FirstLock, SecondLock
    <3>6. pc[c] \in {"lock", "relock", "enqueue", "steal1", "steal2", "wake1", "wake2"}
      BY SMTT(30), <2>3 DEF Wants
    <3>7. QED
      BY SMTT(30), <3>2, <3>3, <3>4, <3>5, <3>6
  <2>4. \A c \in CpuIds : \A k \in Wants(c) : queue_lock[k] # c
    <3>1. ASSUME NEW c \in CpuIds, NEW k \in Wants(c), queue_lock[k] = c PROVE FALSE
      <4>1. k \in CpuIds /\ k \in Nat
        BY <2>1, <2>3
      <4>2. k < k
        BY <3>1, <4>1, LocksAscend
      <4>3. QED
        BY SMTT(30), <4>1, <4>2
    <3>2. QED
      BY <3>1
  <2>5. ASSUME NEW c \in CpuIds, NEW d \in CpuIds, NEW k \in Wants(c), queue_lock[k] = d,
               NEW m \in Wants(d), queue_lock[m] = c
        PROVE  FALSE
    <3>1. k \in Nat /\ m \in Nat /\ k \in CpuIds /\ m \in CpuIds
      BY <2>1, <2>3
    <3>2. m < k
      BY <2>5, <3>1, LocksAscend
    <3>3. k < m
      BY <2>5, <3>1, LocksAscend
    <3>4. QED
      BY SMTT(30), <3>1, <3>2, <3>3
  <2>6. QED
    BY <2>4, <2>5 DEF NoLockCycle
<1>2. QED
  BY <1>1, SchedInvariant, PTL

=============================================================================
