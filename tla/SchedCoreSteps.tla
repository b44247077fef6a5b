--------------------------- MODULE SchedCoreSteps ---------------------------
(* What each step of SchedCore preserves: the lemmas SchedCoreProofs rests on. *)
EXTENDS SchedCore, TLAPS

\* The leaves are first order; the ones that cite SMTT need arithmetic or types.
USE ZenonT(30)

-----------------------------------------------------------------------------
(* Where the CPUs are *)

\* Only CPU c moves.
Local(c) ==
  /\ pc' \in [CpuIds -> Labels] /\ loc' \in [CpuIds -> Locals]
  /\ \A d \in CpuIds \ {c} : pc'[d] = pc[d] /\ loc'[d] = loc[d]

LEMMA Updates ==
  ASSUME NEW r \in Locals
  PROVE  /\ \A t \in Threads \cup {Idle, None} : [r EXCEPT !.t = t] \in Locals
         /\ \A t \in Threads \cup {Idle, None}, k \in CpuIds : [r EXCEPT !.t = t, !.target = k] \in Locals
         /\ \A t \in Threads \cup {Idle, None}, s \in SUBSET Threads : [r EXCEPT !.t = t, !.todo = s] \in Locals
         /\ \A s \in SUBSET Threads : [r EXCEPT !.todo = s] \in Locals
         /\ \A k \in CpuIds \cup {None} : [r EXCEPT !.target = k] \in Locals
         /\ \A k \in CpuIds : [r EXCEPT !.prev = k] \in Locals
         /\ \A k \in CpuIds : [r EXCEPT !.prev = k, !.target = k] \in Locals
         /\ \A s \in States : [r EXCEPT !.st = s] \in Locals
         /\ \A b \in BOOLEAN : [r EXCEPT !.voluntary = b] \in Locals
         /\ \A f \in {"run", "fast", "idle", "tick"} : [r EXCEPT !.from = f] \in Locals
<1>1. \A q \in Locals, t \in Threads \cup {Idle, None} : [q EXCEPT !.t = t] \in Locals
  BY SMTT(30) DEF Locals
<1>2. \A q \in Locals, k \in CpuIds \cup {None} : [q EXCEPT !.target = k] \in Locals
  BY SMTT(30) DEF Locals
<1>3. \A q \in Locals, s \in SUBSET Threads : [q EXCEPT !.todo = s] \in Locals
  BY SMTT(30) DEF Locals
<1>4. \A q \in Locals, k \in CpuIds : [q EXCEPT !.prev = k] \in Locals
  BY SMTT(30) DEF Locals
<1>5. ASSUME NEW t \in Threads \cup {Idle, None}, NEW k \in CpuIds
      PROVE  [r EXCEPT !.t = t, !.target = k] \in Locals
  <2>1. [r EXCEPT !.t = t, !.target = k] = [[r EXCEPT !.t = t] EXCEPT !.target = k]
    OBVIOUS
  <2>2. [r EXCEPT !.t = t] \in Locals
    BY <1>1
  <2>3. QED
    BY <1>2, <2>1, <2>2
<1>6. ASSUME NEW t \in Threads \cup {Idle, None}, NEW s \in SUBSET Threads
      PROVE  [r EXCEPT !.t = t, !.todo = s] \in Locals
  <2>1. [r EXCEPT !.t = t, !.todo = s] = [[r EXCEPT !.t = t] EXCEPT !.todo = s]
    OBVIOUS
  <2>2. [r EXCEPT !.t = t] \in Locals
    BY <1>1
  <2>3. QED
    BY <1>3, <2>1, <2>2
<1>7. ASSUME NEW k \in CpuIds PROVE [r EXCEPT !.prev = k, !.target = k] \in Locals
  <2>1. [r EXCEPT !.prev = k, !.target = k] = [[r EXCEPT !.prev = k] EXCEPT !.target = k]
    OBVIOUS
  <2>2. [r EXCEPT !.prev = k] \in Locals
    BY <1>4
  <2>3. QED
    BY <1>2, <2>1, <2>2
<1>8. \A s \in States : [r EXCEPT !.st = s] \in Locals
  BY SMTT(30) DEF Locals
<1>9. \A b \in BOOLEAN : [r EXCEPT !.voluntary = b] \in Locals
  BY SMTT(30) DEF Locals
<1>10. \A f \in {"run", "fast", "idle", "tick"} : [r EXCEPT !.from = f] \in Locals
  BY SMTT(30) DEF Locals
<1>11. QED
  BY <1>1, <1>2, <1>3, <1>4, <1>5, <1>6, <1>7, <1>8, <1>9, <1>10

LEMMA NoLocalsType == NoLocals \in Locals
<1>1. QED
  BY SMTT(30) DEF NoLocals, Locals, States

LEMMA LocalStep ==
  ASSUME SchedTypeOK, LocalsInv, NEW c \in CpuIds, Step(c)
  PROVE  Local(c)
<1>1. pc \in [CpuIds -> Labels] /\ loc \in [CpuIds -> Locals] /\ loc[c] \in Locals
  BY DEF SchedTypeOK
<1>2. \A l \in Labels, r \in Locals :
        Goto(c, l) /\ loc' = [loc EXCEPT ![c] = r] => Local(c)
  BY SMTT(30), <1>1 DEF Local, Goto
<1>3. \A l \in Labels : Goto(c, l) /\ UNCHANGED loc => Local(c)
  BY SMTT(30), <1>1 DEF Local, Goto
<1>4. UNCHANGED <<pc, loc>> => Local(c)
  BY <1>1 DEF Local
<1>5. /\ "run" \in Labels /\ "sched" \in Labels /\ "reap" \in Labels /\ "free" \in Labels
      /\ "lock" \in Labels /\ "put" \in Labels /\ "steal" \in Labels /\ "steal1" \in Labels
      /\ "steal2" \in Labels /\ "relock" \in Labels /\ "pick" \in Labels
      /\ "commit" \in Labels /\ "switch" \in Labels /\ "switched" \in Labels
  BY DEF Labels
<1>6. /\ "wake" \in Labels /\ "wake1" \in Labels /\ "wake2" \in Labels
      /\ "wakecheck" \in Labels /\ "wakestore" \in Labels /\ "enqueue" \in Labels
      /\ "queue_reap" \in Labels
  BY DEF Labels
<1>7. ASSUME NEW l \in Labels, Goto(c, l), NEW t \in Threads \cup {Idle, None},
             \/ loc' = [loc EXCEPT ![c].t = t]
             \/ \E k \in CpuIds : loc' = [loc EXCEPT ![c].t = t, ![c].target = k]
             \/ \E s \in SUBSET Threads : loc' = [loc EXCEPT ![c].t = t, ![c].todo = s]
      PROVE  Local(c)
  BY <1>1, <1>2, <1>7, Updates
<1>8. ASSUME NEW l \in Labels, Goto(c, l),
             \/ \E s \in SUBSET Threads : loc' = [loc EXCEPT ![c].todo = s]
             \/ \E b \in BOOLEAN : loc' = [loc EXCEPT ![c].voluntary = b]
             \/ \E s \in States : loc' = [loc EXCEPT ![c].st = s]
             \/ \E f \in {"run", "fast", "idle", "tick"} : loc' = [loc EXCEPT ![c].from = f]
             \/ \E k \in CpuIds \cup {None} : loc' = [loc EXCEPT ![c].target = k]
             \/ \E k \in CpuIds : loc' = [loc EXCEPT ![c].prev = k]
             \/ \E k \in CpuIds : loc' = [loc EXCEPT ![c].prev = k, ![c].target = k]
             \/ loc' = [loc EXCEPT ![c] = NoLocals]
      PROVE  Local(c)
  BY <1>1, <1>2, <1>8, Updates, NoLocalsType
<1>9. \A s \in SUBSET Threads : UNCHANGED pc /\ loc' = [loc EXCEPT ![c].todo = s] => Local(c)
  <2>1. Goto(c, pc[c]) \/ pc' # pc
    BY <1>1 DEF Goto
  <2>2. QED
    BY <1>1, <1>8, <2>1
<1>10. /\ current_thread[c] \in Threads \cup {Idle} /\ reap_queue \in SUBSET Threads
       /\ loc[c].todo \in SUBSET Threads
  BY SMTT(30), <1>1 DEF SchedTypeOK, Locals
<1>11. CASE sched_enqueue_thread(c) \/ Exit(c) \/ sched_queue_reap(c)
  BY <1>5, <1>6, <1>7, <1>8, <1>10, <1>11 DEF sched_enqueue_thread, Exit, sched_queue_reap, Return
<1>12. CASE ReapSkip(c) \/ ReapStart(c) \/ ReapDone(c)
  BY <1>3, <1>5, <1>8, <1>10, <1>12 DEF ReapSkip, ReapStart, ReapDone
<1>13. CASE sched_reap_thread(c)
  BY <1>5, <1>7, <1>10, <1>13 DEF sched_reap_thread
<1>14. CASE ScheduleEnter(c)
  <2>1. \/ loc' = [loc EXCEPT ![c].from = "fast"] /\ Goto(c, "steal")
        \/ Goto(c, "put") /\ UNCHANGED loc
    BY <1>14 DEF ScheduleEnter
  <2>2. QED
    BY <1>3, <1>5, <1>8, <2>1
<1>15. CASE PutPrev(c)
  <2>1. \/ loc' = [loc EXCEPT ![c].from = "idle"] /\ Goto(c, "steal")
        \/ Goto(c, "pick") /\ UNCHANGED loc
    BY <1>15 DEF PutPrev
  <2>2. QED
    BY <1>3, <1>5, <1>8, <2>1
<1>16. CASE Commit(c)
  BY <1>5, <1>7, <1>8, <1>10, <1>16 DEF Commit, Return
<1>17. CASE SwitchStack(c) \/ ReleasePrev(c)
  BY <1>3, <1>5, <1>8, <1>17 DEF SwitchStack, ReleasePrev, Return
<1>18. CASE StealChoose(c)
  <2>1. \/ \E d \in CpuIds : loc' = [loc EXCEPT ![c].target = d] /\ Goto(c, "steal1")
        \/ Goto(c, "relock") /\ UNCHANGED loc
    BY <1>18 DEF StealChoose
  <2>2. QED
    BY <1>3, <1>5, <1>8, <2>1
<1>19. CASE StealLockFirst(c) \/ StealMigrate(c)
  BY <1>3, <1>5, <1>8, <1>19 DEF StealLockFirst, StealMigrate
<1>20. CASE Relock(c)
  <2>1. loc' = [loc EXCEPT ![c].from = "run"]
    BY <1>20 DEF Relock
  <2>2. \E l \in Labels : Goto(c, l)
    BY <1>5, <1>20 DEF Relock
  <2>3. QED
    BY <1>8, <2>1, <2>2
<1>21. CASE sched_tick(c)
  <2>1. \/ loc' = [loc EXCEPT ![c].from = "tick"] /\ Goto(c, "steal")
        \/ Goto(c, "sched") /\ UNCHANGED loc
        \/ UNCHANGED <<pc, loc>>
    BY <1>21 DEF sched_tick
  <2>2. QED
    BY <1>3, <1>4, <1>5, <1>8, <2>1
<1>22. CASE WakeLocate(c)
  <2>1. loc[c].t \in Threads /\ cpu_index[loc[c].t] \in CpuIds
    BY <1>22 DEF WakeLocate, LocalsInv, LocalsOK, Waking, SchedTypeOK
  <2>2. \A k \in RunningOn(loc[c].t) : k \in CpuIds
    BY DEF RunningOn
  <2>3. QED
    BY <1>6, <1>8, <1>22, <2>1, <2>2 DEF WakeLocate
<1>23. CASE WakeLockFirst(c) \/ WakeLockSecond(c)
  BY <1>3, <1>6, <1>23 DEF WakeLockFirst, WakeLockSecond
<1>24. CASE WakeCheck(c)
  <2>1. loc[c].t \in Threads /\ state[loc[c].t] \in States
    BY <1>24 DEF WakeCheck, LocalsInv, LocalsOK, Waking, SchedTypeOK
  <2>2. QED
    BY <1>3, <1>6, <1>8, <1>24, <2>1 DEF WakeCheck
<1>25. CASE WakeStore(c)
  BY <1>5, <1>8, <1>25 DEF WakeStore, Return
<1>26. ASSUME NEW b \in BOOLEAN, Block(c, b) \/ Yield(c, b) PROVE Local(c)
  BY <1>3, <1>5, <1>8, <1>26 DEF Block, Yield
<1>27. ASSUME NEW t \in Threads, Create(c, t) \/ Kill(c, t) \/ WakeStart(c, t) PROVE Local(c)
  BY <1>6, <1>7, <1>27 DEF Create, Kill, WakeStart
<1>28. ASSUME NEW t \in Threads, sched_prepare_thread_reap(c, t) PROVE Local(c)
  <2>1. \/ UNCHANGED pc /\ loc' = [loc EXCEPT ![c].todo = @ \ {t}]
        \/ loc' = [loc EXCEPT ![c].t = t] /\ Goto(c, "free")
    BY <1>28 DEF sched_prepare_thread_reap
  <2>2. loc[c].todo \ {t} \in SUBSET Threads
    BY <1>10
  <2>3. QED
    BY <1>5, <1>7, <1>9, <2>1, <2>2
<1>29. ASSUME NEW t \in Threads \cup {Idle}, PickNext(c, t) PROVE Local(c)
  BY <1>5, <1>7, <1>29 DEF PickNext
<1>30. ASSUME NEW t \in Threads, PickDead(c, t) PROVE Local(c)
  BY <1>4, <1>30 DEF PickDead
<1>31. QED
  BY <1>11, <1>12, <1>13, <1>14, <1>15, <1>16, <1>17, <1>18, <1>19, <1>20, <1>21, <1>22,
     <1>23, <1>24, <1>25, <1>26, <1>27, <1>28, <1>29, <1>30 DEF Step

-----------------------------------------------------------------------------
(* The queue locks *)

\* Holding(c), place by place.
Holds(c) ==
  /\ pc[c] \in Dispatching => Holding(c) = {c}
  /\ pc[c] = "steal2" => Holding(c) = {FirstLock(c, loc[c].target)}
  /\ pc[c] = "wake2" => Holding(c) = {FirstLock(loc[c].prev, loc[c].target)}
  /\ pc[c] \in {"wakecheck", "wakestore"} => Holding(c) = {loc[c].prev, loc[c].target}
  /\ pc[c] \notin Dispatching \cup {"steal2", "wake2", "wakecheck", "wakestore"} => Holding(c) = {}

LEMMA HoldingCases == ASSUME NEW c PROVE Holds(c) /\ Holds(c)'
<1>1. Holds(c)
  BY SMTT(30) DEF Holds, Holding, Dispatching
<1>2. Holds(c)'
  BY SMTT(30) DEF Holds, Holding, Dispatching
<1>3. QED
  BY <1>1, <1>2

\* The places without a queue lock.
Unlocked == Labels \ (Dispatching \cup {"steal2", "wake2", "wakecheck", "wakestore"})

\* What a step does to the locks: nothing, take one, or drop all it has.
KeepsLocks(c) == UNCHANGED queue_lock /\ Holding(c)' = Holding(c)
TakesLock(c) == \E k \in CpuIds : Take(c, k) /\ Holding(c)' = Holding(c) \cup {k}
DropsLocks(c) ==
  \E ks \in SUBSET CpuIds : /\ Drop(ks) /\ Holding(c)' = {} /\ Holding(c) \subseteq ks
                            /\ \A k \in ks : queue_lock[k] \in {c, None}

LEMMA LocksFollow ==
  ASSUME SchedTypeOK, LockInv, NEW c \in CpuIds, Local(c),
         KeepsLocks(c) \/ TakesLock(c) \/ DropsLocks(c)
  PROVE  LockInv' /\ queue_lock' \in [CpuIds -> CpuIds \cup {None}]
<1>1. queue_lock \in [CpuIds -> CpuIds \cup {None}] /\ None \notin CpuIds
  BY SchedConstants DEF SchedTypeOK
<1>2. \A d \in CpuIds \ {c} : Holding(d)' = Holding(d)
  BY SMTT(30) DEF Local, Holding
<1>3. CASE KeepsLocks(c)
  BY SMTT(30), <1>1, <1>2, <1>3 DEF KeepsLocks, LockInv
<1>4. CASE TakesLock(c)
  <2>1. PICK k \in CpuIds : Take(c, k) /\ Holding(c)' = Holding(c) \cup {k}
    BY <1>4 DEF TakesLock
  <2>2. /\ queue_lock[k] = None /\ queue_lock'[k] = c
        /\ \A j \in CpuIds \ {k} : queue_lock'[j] = queue_lock[j]
    BY <1>1, <2>1 DEF Take, Free
  <2>3. queue_lock' \in [CpuIds -> CpuIds \cup {None}]
    BY SMTT(30), <1>1, <2>1 DEF Take
  <2>4. ASSUME NEW d \in CpuIds, NEW j \in CpuIds PROVE queue_lock'[j] = d <=> j \in Holding(d)'
    <3>1. CASE d = c
      BY <2>1, <2>2, <3>1 DEF LockInv
    <3>2. CASE d # c
      BY SMTT(30), <1>1, <1>2, <2>2, <3>2 DEF LockInv
    <3>3. QED
      BY <3>1, <3>2
  <2>5. QED
    BY <2>3, <2>4 DEF LockInv
<1>5. CASE DropsLocks(c)
  <2>1. PICK ks \in SUBSET CpuIds :
           /\ Drop(ks) /\ Holding(c)' = {} /\ Holding(c) \subseteq ks
           /\ \A k \in ks : queue_lock[k] \in {c, None}
    BY <1>5 DEF DropsLocks
  <2>2. \A j \in CpuIds : queue_lock'[j] = IF j \in ks THEN None ELSE queue_lock[j]
    BY <2>1 DEF Drop
  <2>3. queue_lock' \in [CpuIds -> CpuIds \cup {None}]
    BY SMTT(30), <1>1, <2>1 DEF Drop
  <2>4. ASSUME NEW d \in CpuIds, NEW j \in CpuIds PROVE queue_lock'[j] = d <=> j \in Holding(d)'
    <3>1. CASE d = c
      BY SMTT(30), <1>1, <2>1, <2>2, <3>1 DEF LockInv
    <3>2. CASE d # c
      BY SMTT(30), <1>1, <1>2, <2>1, <2>2, <3>2 DEF LockInv
    <3>3. QED
      BY <3>1, <3>2
  <2>5. QED
    BY <2>3, <2>4 DEF LockInv
<1>6. QED
  BY <1>3, <1>4, <1>5

LEMMA Orders ==
  ASSUME NEW a \in CpuIds, NEW b \in CpuIds
  PROVE  /\ FirstLock(a, b) \in {a, b} /\ SecondLock(a, b) \in {a, b}
         /\ {FirstLock(a, b), SecondLock(a, b)} = {a, b}
         /\ a # b => FirstLock(a, b) < SecondLock(a, b)
<1>1. a \in Nat /\ b \in Nat
  BY SchedConstants
<1>2. QED
  BY SMTT(30), <1>1 DEF FirstLock, SecondLock

LEMMA GotoAt ==
  ASSUME SchedTypeOK, NEW c \in CpuIds
  PROVE  \A l : Goto(c, l) => pc'[c] = l
<1>1. QED
  BY DEF SchedTypeOK, Goto

LEMMA LockStep ==
  ASSUME SchedTypeOK, LockInv, LocalsInv, NEW c \in CpuIds, Step(c)
  PROVE  LockInv' /\ queue_lock' \in [CpuIds -> CpuIds \cup {None}]
<1>1. Local(c)
  BY LocalStep
<1>2. \A l : Goto(c, l) => pc'[c] = l
  BY GotoAt
<1>3. SUFFICES KeepsLocks(c) \/ TakesLock(c) \/ DropsLocks(c)
  BY <1>1, LocksFollow
<1>4. /\ pc[c] \in Unlocked => Holding(c) = {}
      /\ pc'[c] \in Unlocked => Holding(c)' = {}
  BY HoldingCases DEF Holds, Unlocked
<1>5. ASSUME UNCHANGED queue_lock, pc[c] \in Unlocked, pc'[c] \in Unlocked PROVE KeepsLocks(c)
  BY <1>4, <1>5 DEF KeepsLocks
<1>6. /\ "run" \in Unlocked /\ "sched" \in Unlocked /\ "reap" \in Unlocked /\ "free" \in Unlocked
      /\ "lock" \in Unlocked /\ "steal" \in Unlocked /\ "steal1" \in Unlocked
      /\ "relock" \in Unlocked /\ "switch" \in Unlocked /\ "switched" \in Unlocked
      /\ "wake" \in Unlocked /\ "wake1" \in Unlocked /\ "enqueue" \in Unlocked
      /\ "queue_reap" \in Unlocked
  BY SMTT(30) DEF Unlocked, Labels, Dispatching
<1>7. pc'[c] \in Dispatching => Holding(c)' = {c}
  BY HoldingCases DEF Holds
<1>8. ASSUME Take(c, c), pc[c] \in Unlocked, pc'[c] \in Dispatching PROVE TakesLock(c)
  BY <1>4, <1>7, <1>8 DEF TakesLock
<1>9. "put" \in Dispatching /\ "pick" \in Dispatching /\ "commit" \in Dispatching
  BY DEF Dispatching
<1>10. CASE sched_enqueue_thread(c) \/ Exit(c) \/ sched_queue_reap(c)
  BY <1>2, <1>5, <1>6, <1>10 DEF sched_enqueue_thread, Exit, sched_queue_reap, Return
<1>11. CASE ReapSkip(c) \/ ReapStart(c) \/ sched_reap_thread(c) \/ ReapDone(c)
  BY <1>2, <1>5, <1>6, <1>11 DEF ReapSkip, ReapStart, sched_reap_thread, ReapDone
<1>12. CASE ScheduleEnter(c)
  <2>1. /\ pc[c] = "lock"
        /\ \/ Goto(c, "steal") /\ UNCHANGED queue_lock
           \/ Goto(c, "put") /\ Take(c, c)
    BY <1>12 DEF ScheduleEnter
  <2>2. QED
    BY <1>2, <1>5, <1>6, <1>8, <1>9, <2>1
<1>13. CASE PutPrev(c)
  <2>1. /\ pc[c] = "put"
        /\ \/ Goto(c, "steal") /\ Drop({c})
           \/ Goto(c, "pick") /\ UNCHANGED queue_lock
    BY <1>13 DEF PutPrev
  <2>2. Holding(c) = {c} /\ queue_lock[c] = c
    BY SMTT(30), <1>9, <2>1, HoldingCases DEF Holds, LockInv
  <2>3. QED
    BY <1>2, <1>4, <1>6, <1>7, <1>9, <2>1, <2>2 DEF KeepsLocks, DropsLocks
<1>14. ASSUME NEW t \in Threads \cup {Idle}, PickNext(c, t) PROVE KeepsLocks(c)
  <2>1. pc[c] = "pick" /\ pc'[c] = "commit" /\ UNCHANGED queue_lock
    BY <1>2, <1>14 DEF PickNext
  <2>2. QED
    BY <1>7, <1>9, <2>1, HoldingCases DEF Holds, KeepsLocks
<1>15. CASE Commit(c)
  <2>1. pc[c] = "commit" /\ pc'[c] \in {"run", "switch"} /\ Drop({c})
    BY <1>2, <1>15 DEF Commit, Return
  <2>2. Holding(c) = {c} /\ queue_lock[c] = c
    BY SMTT(30), <1>9, <2>1, HoldingCases DEF Holds, LockInv
  <2>3. QED
    BY <1>4, <1>6, <2>1, <2>2 DEF DropsLocks
<1>16. CASE SwitchStack(c) \/ ReleasePrev(c)
  BY <1>2, <1>5, <1>6, <1>16 DEF SwitchStack, ReleasePrev, Return
<1>17. CASE StealChoose(c)
  <2>1. pc[c] = "steal" /\ pc'[c] \in {"steal1", "relock"} /\ UNCHANGED queue_lock
    BY <1>2, <1>17 DEF StealChoose
  <2>2. QED
    BY <1>5, <1>6, <2>1
<1>18. CASE StealLockFirst(c)
  <2>1. /\ pc[c] = "steal1" /\ pc'[c] = "steal2" /\ loc' = loc
        /\ Take(c, FirstLock(c, loc[c].target))
    BY <1>2, <1>18 DEF StealLockFirst
  <2>2. loc[c].target \in CpuIds
    BY <2>1 DEF LocalsInv, LocalsOK
  <2>3. FirstLock(c, loc[c].target) \in {c, loc[c].target}
    BY <2>2, Orders
  <2>4. PICK k \in CpuIds : k = FirstLock(c, loc[c].target)
    BY <2>2, <2>3
  <2>5. Holding(c) = {}
    BY SMTT(30), <2>1 DEF Holding, Dispatching
  <2>6. Holding(c)' = {k}
    BY SMTT(30), <2>1, <2>4 DEF Holding, Dispatching
  <2>7. Take(c, k) /\ Holding(c)' = Holding(c) \cup {k}
    BY <2>1, <2>4, <2>5, <2>6
  <2>8. QED
    BY <1>4, <1>6, <2>7 DEF TakesLock
<1>19. CASE StealMigrate(c)
  <2>1. /\ pc[c] = "steal2" /\ pc'[c] = "relock" /\ Drop({c, loc[c].target})
        /\ queue_lock[SecondLock(c, loc[c].target)] = None
    BY <1>2, <1>19 DEF StealMigrate, Free
  <2>2. loc[c].target \in CpuIds /\ Holding(c) = {FirstLock(c, loc[c].target)}
    BY <2>1, HoldingCases DEF LocalsInv, LocalsOK, Holds
  <2>3. FirstLock(c, loc[c].target) \in {c, loc[c].target}
    BY <2>2, Orders
  <2>4. queue_lock[FirstLock(c, loc[c].target)] = c
    BY <2>2, <2>3 DEF LockInv
  <2>5. \A k \in {c, loc[c].target} : queue_lock[k] \in {c, None}
    BY SMTT(30), <2>1, <2>2, <2>4, Orders
  <2>6. QED
    BY SMTT(30), <1>4, <1>6, <2>1, <2>2, <2>3, <2>5 DEF DropsLocks
<1>20. CASE Relock(c)
  <2>1. /\ pc[c] = "relock"
        /\ \/ pc'[c] \in {"run", "sched"} /\ UNCHANGED queue_lock
           \/ pc'[c] \in {"put", "pick"} /\ Take(c, c)
    BY <1>2, <1>20 DEF Relock
  <2>2. QED
    BY <1>5, <1>6, <1>8, <1>9, <2>1
<1>21. CASE sched_tick(c)
  <2>1. pc[c] = "run" /\ pc'[c] \in {"run", "steal", "sched"} /\ UNCHANGED queue_lock
    BY <1>2, <1>21 DEF sched_tick
  <2>2. QED
    BY <1>5, <1>6, <2>1
<1>22. CASE WakeLocate(c)
  BY <1>2, <1>5, <1>6, <1>22 DEF WakeLocate
<1>23. CASE WakeLockFirst(c)
  <2>1. /\ pc[c] = "wake1" /\ loc' = loc /\ Take(c, FirstLock(loc[c].prev, loc[c].target))
        /\ pc'[c] = IF loc[c].prev = loc[c].target THEN "wakecheck" ELSE "wake2"
    BY <1>2, <1>23 DEF WakeLockFirst
  <2>2. loc[c].prev \in CpuIds /\ loc[c].target \in CpuIds
    BY <2>1 DEF LocalsInv, LocalsOK, Waking
  <2>3. FirstLock(loc[c].prev, loc[c].target) \in {loc[c].prev, loc[c].target}
    BY <2>2, Orders
  <2>4. Holding(c)' = {FirstLock(loc[c].prev, loc[c].target)}
    BY SMTT(30), <2>1, <2>3, HoldingCases DEF Holds
  <2>5. QED
    BY <1>4, <1>6, <2>1, <2>2, <2>3, <2>4 DEF TakesLock
<1>24. CASE WakeLockSecond(c)
  <2>1. /\ pc[c] = "wake2" /\ pc'[c] = "wakecheck" /\ loc' = loc
        /\ Take(c, SecondLock(loc[c].prev, loc[c].target))
    BY <1>2, <1>24 DEF WakeLockSecond
  <2>2. loc[c].prev \in CpuIds /\ loc[c].target \in CpuIds
    BY <2>1 DEF LocalsInv, LocalsOK, Waking
  <2>3. Holding(c) = {FirstLock(loc[c].prev, loc[c].target)}
    BY <2>1, HoldingCases DEF Holds
  <2>4. Holding(c)' = {loc[c].prev, loc[c].target}
    BY <2>1, HoldingCases DEF Holds
  <2>5. QED
    BY SMTT(30), <2>1, <2>2, <2>3, <2>4, Orders DEF TakesLock
<1>25. CASE WakeCheck(c)
  <2>1. /\ pc[c] = "wakecheck"
        /\ \/ /\ pc'[c] = "wakestore" /\ UNCHANGED queue_lock
              /\ loc' = [loc EXCEPT ![c].st = state[loc[c].t]]
           \/ pc'[c] = "wake" /\ Drop({loc[c].prev, loc[c].target})
    BY <1>2, <1>25 DEF WakeCheck
  <2>2. /\ Holding(c) = {loc[c].prev, loc[c].target}
        /\ loc[c].prev \in CpuIds /\ loc[c].target \in CpuIds
    BY <2>1, HoldingCases DEF Holds, LocalsInv, LocalsOK, Waking
  <2>3. queue_lock[loc[c].prev] = c /\ queue_lock[loc[c].target] = c
    BY <2>2 DEF LockInv
  <2>4. CASE pc'[c] = "wake"
    BY <1>4, <1>6, <2>1, <2>2, <2>3, <2>4 DEF DropsLocks
  <2>5. CASE pc'[c] = "wakestore"
    <3>1. UNCHANGED queue_lock /\ loc' = [loc EXCEPT ![c].st = state[loc[c].t]]
      BY <2>1, <2>5
    <3>2. loc'[c].prev = loc[c].prev /\ loc'[c].target = loc[c].target
      BY SMTT(30), <3>1 DEF SchedTypeOK, Locals
    <3>3. QED
      BY <2>2, <2>5, <3>1, <3>2, HoldingCases DEF Holds, KeepsLocks
  <2>6. QED
    BY <2>1, <2>4, <2>5
<1>26. CASE WakeStore(c)
  <2>1. pc[c] = "wakestore" /\ pc'[c] = "run" /\ Drop({loc[c].prev, loc[c].target})
    BY <1>2, <1>26 DEF WakeStore, Return
  <2>2. /\ Holding(c) = {loc[c].prev, loc[c].target}
        /\ loc[c].prev \in CpuIds /\ loc[c].target \in CpuIds
    BY <2>1, HoldingCases DEF Holds, LocalsInv, LocalsOK, Waking
  <2>3. queue_lock[loc[c].prev] = c /\ queue_lock[loc[c].target] = c
    BY <2>2 DEF LockInv
  <2>4. QED
    BY <1>4, <1>6, <2>1, <2>2, <2>3 DEF DropsLocks
<1>27. ASSUME NEW b \in BOOLEAN, Block(c, b) \/ Yield(c, b) PROVE KeepsLocks(c)
  BY <1>2, <1>5, <1>6, <1>27 DEF Block, Yield
<1>28. ASSUME NEW t \in Threads, Create(c, t) \/ Kill(c, t) \/ WakeStart(c, t) PROVE KeepsLocks(c)
  BY <1>2, <1>5, <1>6, <1>28 DEF Create, Kill, WakeStart
<1>29. ASSUME NEW t \in Threads, sched_prepare_thread_reap(c, t) PROVE KeepsLocks(c)
  <2>1. pc[c] = "reap" /\ (UNCHANGED pc \/ Goto(c, "free")) /\ UNCHANGED queue_lock
    BY <1>29 DEF sched_prepare_thread_reap
  <2>2. QED
    BY <1>2, <1>5, <1>6, <2>1
<1>30. ASSUME NEW t \in Threads, PickDead(c, t) PROVE KeepsLocks(c)
  <2>1. pc[c] = "pick" /\ pc'[c] = "pick" /\ UNCHANGED queue_lock
    BY <1>30 DEF PickDead
  <2>2. QED
    BY <1>7, <1>9, <2>1, HoldingCases DEF Holds, KeepsLocks
<1>31. QED
  BY <1>10, <1>11, <1>12, <1>13, <1>14, <1>15, <1>16, <1>17, <1>18, <1>19, <1>20, <1>21,
     <1>22, <1>23, <1>24, <1>25, <1>26, <1>27, <1>28, <1>29, <1>30 DEF Step

-----------------------------------------------------------------------------
(* What is on the CPUs *)

LEMMA CpuStep ==
  ASSUME SchedTypeOK, LocalsInv, NEW c \in CpuIds, Step(c)
  PROVE  /\ current_thread' \in [CpuIds -> Threads \cup {Idle}]
         /\ switching_from' \in [CpuIds -> Threads \cup {Idle, None}]
         /\ \A d \in CpuIds \ {c} : /\ current_thread'[d] = current_thread[d]
                                    /\ switching_from'[d] = switching_from[d]
<1>1. /\ current_thread \in [CpuIds -> Threads \cup {Idle}]
      /\ switching_from \in [CpuIds -> Threads \cup {Idle, None}]
  BY DEF SchedTypeOK
<1>2. SUFFICES \/ UNCHANGED cpuVars
               \/ /\ UNCHANGED current_thread
                  /\ switching_from' = [switching_from EXCEPT ![c] = None]
               \/ \E n \in Threads \cup {Idle}, p \in Threads \cup {Idle} :
                    /\ current_thread' = [current_thread EXCEPT ![c] = n]
                    /\ switching_from' = [switching_from EXCEPT ![c] = p]
  BY SMTT(30), <1>1 DEF cpuVars
<1>3. CASE Commit(c)
  <2>1. loc[c].t \in Threads \cup {Idle} /\ current_thread[c] \in Threads \cup {Idle}
    BY <1>1, <1>3 DEF Commit, LocalsInv, LocalsOK
  <2>2. QED
    BY <1>3, <2>1 DEF Commit
<1>4. CASE SwitchStack(c)
  BY <1>4 DEF SwitchStack
<1>5. CASE sched_enqueue_thread(c) \/ Exit(c) \/ sched_queue_reap(c)
  BY <1>5 DEF sched_enqueue_thread, Exit, sched_queue_reap
<1>6. CASE ReapSkip(c) \/ ReapStart(c) \/ sched_reap_thread(c) \/ ReapDone(c)
  BY <1>6 DEF ReapSkip, ReapStart, sched_reap_thread, ReapDone
<1>7. CASE ScheduleEnter(c) \/ PutPrev(c) \/ ReleasePrev(c)
  BY <1>7 DEF ScheduleEnter, PutPrev, ReleasePrev
<1>8. CASE StealChoose(c) \/ StealLockFirst(c) \/ StealMigrate(c) \/ Relock(c) \/ sched_tick(c)
  BY <1>8 DEF StealChoose, StealLockFirst, StealMigrate, Relock, sched_tick
<1>9. CASE WakeLocate(c) \/ WakeLockFirst(c) \/ WakeLockSecond(c) \/ WakeCheck(c) \/ WakeStore(c)
  BY <1>9 DEF WakeLocate, WakeLockFirst, WakeLockSecond, WakeCheck, WakeStore
<1>10. ASSUME NEW b \in BOOLEAN, Block(c, b) \/ Yield(c, b) PROVE UNCHANGED cpuVars
  BY <1>10 DEF Block, Yield
<1>11. ASSUME NEW t \in Threads, Create(c, t) \/ Kill(c, t) \/ WakeStart(c, t) \/ PickDead(c, t)
       PROVE  UNCHANGED cpuVars
  BY <1>11 DEF Create, Kill, WakeStart, PickDead
<1>12. ASSUME NEW t \in Threads, sched_prepare_thread_reap(c, t) PROVE UNCHANGED cpuVars
  BY <1>12 DEF sched_prepare_thread_reap
<1>13. ASSUME NEW t \in Threads \cup {Idle}, PickNext(c, t) PROVE UNCHANGED cpuVars
  BY <1>13 DEF PickNext
<1>14. QED
  BY <1>3, <1>4, <1>5, <1>6, <1>7, <1>8, <1>9, <1>10, <1>11, <1>12, <1>13 DEF Step

-----------------------------------------------------------------------------
(* The locals *)

\* What LocalsOK(c) asks of each place.
LEMMA LocalsPlaces ==
  ASSUME NEW c \in CpuIds
  PROVE  /\ pc'[c] \in Plain /\ loc'[c].t = None => LocalsOK(c)'
         /\ pc'[c] \in {"queue_reap", "free"} /\ loc'[c].t \in Threads => LocalsOK(c)'
         /\ pc'[c] = "enqueue" /\ loc'[c].t \in Threads /\ loc'[c].target \in CpuIds => LocalsOK(c)'
         /\ pc'[c] \in {"commit"} \cup Leaving /\ loc'[c].t \in Threads \cup {Idle} => LocalsOK(c)'
         /\ /\ pc'[c] \in Stealing /\ loc'[c].t = None
            /\ pc'[c] \in {"steal", "relock"} \/ loc'[c].target \in CpuIds \ {c}
            /\ \/ loc'[c].from = "fast" /\ current_thread'[c] # Idle
               \/ loc'[c].from \in {"idle", "tick"} /\ current_thread'[c] = Idle
            => LocalsOK(c)'
         /\ /\ pc'[c] \in Waking /\ loc'[c].t \in Threads /\ loc'[c].target \in CpuIds
            /\ pc'[c] # "wake" => loc'[c].prev \in CpuIds
            /\ pc'[c] = "wake2" => loc'[c].prev # loc'[c].target
            => LocalsOK(c)'
<1>1. pc'[c] \in Plain /\ loc'[c].t = None => LocalsOK(c)'
  BY SMTT(30) DEF LocalsOK, Plain, Stealing, Waking, Leaving
<1>2. pc'[c] \in {"queue_reap", "free"} /\ loc'[c].t \in Threads => LocalsOK(c)'
  BY SMTT(30) DEF LocalsOK, Plain, Stealing, Waking, Leaving
<1>3. pc'[c] = "enqueue" /\ loc'[c].t \in Threads /\ loc'[c].target \in CpuIds => LocalsOK(c)'
  BY SMTT(30) DEF LocalsOK, Plain, Stealing, Waking, Leaving
<1>4. pc'[c] \in {"commit"} \cup Leaving /\ loc'[c].t \in Threads \cup {Idle} => LocalsOK(c)'
  BY SMTT(30) DEF LocalsOK, Plain, Stealing, Waking, Leaving
<1>5. ASSUME pc'[c] \in Stealing, loc'[c].t = None,
             pc'[c] \in {"steal", "relock"} \/ loc'[c].target \in CpuIds \ {c},
             \/ loc'[c].from = "fast" /\ current_thread'[c] # Idle
             \/ loc'[c].from \in {"idle", "tick"} /\ current_thread'[c] = Idle
      PROVE  LocalsOK(c)'
  BY SMTT(30), <1>5 DEF LocalsOK, Plain, Stealing, Waking, Leaving
<1>6. ASSUME pc'[c] \in Waking, loc'[c].t \in Threads, loc'[c].target \in CpuIds,
             pc'[c] # "wake" => loc'[c].prev \in CpuIds,
             pc'[c] = "wake2" => loc'[c].prev # loc'[c].target
      PROVE  LocalsOK(c)'
  BY SMTT(30), <1>6 DEF LocalsOK, Plain, Stealing, Waking, Leaving
<1>7. QED
  BY <1>1, <1>2, <1>3, <1>4, <1>5, <1>6

LEMMA LocalsStep ==
  ASSUME SchedTypeOK, LocalsInv, NEW c \in CpuIds, Step(c)
  PROVE  LocalsInv'
<1>1. /\ Local(c)
      /\ \A d \in CpuIds \ {c} : current_thread'[d] = current_thread[d]
  BY LocalStep, CpuStep
<1>2. \A l : Goto(c, l) => pc'[c] = l
  BY GotoAt
<1>3. \A d \in CpuIds \ {c} : LocalsOK(d)'
  BY SMTT(30), <1>1 DEF Local, LocalsInv, LocalsOK
<1>4. SUFFICES LocalsOK(c)'
  BY <1>3 DEF LocalsInv
<1>5. loc \in [CpuIds -> Locals] /\ pc \in [CpuIds -> Labels] /\ LocalsOK(c)
  BY DEF SchedTypeOK, LocalsInv
<1>6. /\ loc' = [loc EXCEPT ![c] = NoLocals] => loc'[c].t = None
      /\ UNCHANGED loc => loc'[c] = loc[c]
      /\ UNCHANGED pc => pc'[c] = pc[c]
  BY SMTT(30), <1>5 DEF NoLocals
<1>7. "run" \in Plain /\ "sched" \in Plain /\ "reap" \in Plain /\ "lock" \in Plain /\ "put" \in Plain
      /\ "pick" \in Plain
  BY DEF Plain
<1>8. pc[c] \in Plain => loc[c].t = None
  BY <1>5 DEF LocalsOK
<1>9. "steal" \in Stealing /\ "steal1" \in Stealing /\ "steal2" \in Stealing /\ "relock" \in Stealing
  BY DEF Stealing
<1>10. pc[c] \in Stealing => /\ loc[c].t = None
                             /\ \/ loc[c].from = "fast" /\ current_thread[c] # Idle
                                \/ loc[c].from \in {"idle", "tick"} /\ current_thread[c] = Idle
  BY <1>5 DEF LocalsOK
<1>11. "wake" \in Waking /\ "wake1" \in Waking /\ "wake2" \in Waking /\ "wakecheck" \in Waking
       /\ "wakestore" \in Waking
  BY DEF Waking
<1>12. pc[c] \in Waking => loc[c].t \in Threads /\ loc[c].target \in CpuIds
  BY <1>5 DEF LocalsOK
<1>13. pc[c] \in Waking /\ pc[c] # "wake" => loc[c].prev \in CpuIds
  BY <1>5 DEF LocalsOK
<1>14. current_thread[c] \in Threads \cup {Idle}
  BY DEF SchedTypeOK
<1>15. CASE sched_enqueue_thread(c) \/ sched_queue_reap(c)
  BY <1>2, <1>6, <1>7, <1>15, LocalsPlaces DEF sched_enqueue_thread, sched_queue_reap, Return
<1>16. CASE Exit(c)
  <2>1. pc'[c] = "queue_reap" /\ loc'[c].t = current_thread[c] /\ current_thread[c] # Idle
    BY SMTT(30), <1>5, <1>16 DEF Exit, Goto, Locals
  <2>2. QED
    BY <1>14, <2>1, LocalsPlaces
<1>17. CASE ReapSkip(c) \/ ReapDone(c)
  BY <1>2, <1>6, <1>7, <1>8, <1>17, LocalsPlaces DEF ReapSkip, ReapDone
<1>18. CASE ReapStart(c)
  <2>1. pc[c] = "sched" /\ pc'[c] = "reap" /\ loc'[c].t = loc[c].t
    BY SMTT(30), <1>5, <1>18 DEF ReapStart, Goto, Locals
  <2>2. QED
    BY <1>7, <1>8, <2>1, LocalsPlaces
<1>19. CASE sched_reap_thread(c)
  <2>1. /\ Goto(c, "lock") \/ Goto(c, "reap")
        /\ \E s \in SUBSET Threads : loc' = [loc EXCEPT ![c].t = None, ![c].todo = s]
    BY <1>19 DEF sched_reap_thread, SchedTypeOK
  <2>2. loc'[c].t = None
    BY SMTT(30), <1>5, <2>1 DEF Locals
  <2>3. QED
    BY <1>2, <1>7, <2>1, <2>2, LocalsPlaces
<1>20. CASE ScheduleEnter(c)
  <2>1. /\ pc[c] = "lock" /\ current_thread' = current_thread
        /\ \/ /\ loc' = [loc EXCEPT ![c].from = "fast"] /\ Goto(c, "steal")
              /\ current_thread[c] # Idle
           \/ Goto(c, "put") /\ UNCHANGED loc
    BY <1>20 DEF ScheduleEnter, cpuVars
  <2>2. CASE Goto(c, "put") /\ UNCHANGED loc
    BY <1>2, <1>6, <1>7, <1>8, <2>1, <2>2, LocalsPlaces
  <2>3. CASE loc' = [loc EXCEPT ![c].from = "fast"] /\ Goto(c, "steal") /\ current_thread[c] # Idle
    <3>1. loc'[c].t = loc[c].t /\ loc'[c].from = "fast"
      BY SMTT(30), <1>5, <2>3 DEF Locals
    <3>2. QED
      BY <1>2, <1>7, <1>8, <1>9, <2>1, <2>3, <3>1, LocalsPlaces
  <2>4. QED
    BY <2>1, <2>2, <2>3
<1>21. CASE PutPrev(c)
  <2>1. pc[c] = "put" /\ current_thread' = current_thread
    BY <1>21 DEF PutPrev, cpuVars
  <2>2. CASE Goto(c, "pick") /\ UNCHANGED loc
    BY <1>2, <1>6, <1>7, <1>8, <2>1, <2>2, LocalsPlaces
  <2>3. CASE ~(Goto(c, "pick") /\ UNCHANGED loc)
    <3>1. /\ loc' = [loc EXCEPT ![c].from = "idle"] /\ Goto(c, "steal")
          /\ tasks_tree'[c] = {} /\ Runnable(current_thread[c])
      BY <1>21, <2>3 DEF PutPrev
    <3>2. current_thread[c] = Idle
      <4>1. ASSUME current_thread[c] # Idle PROVE FALSE
        <5>1. tasks_tree' = [tasks_tree EXCEPT ![c] = @ \cup {current_thread[c]}]
          BY <1>21, <3>1, <4>1 DEF PutPrev, Runnable, Dead
        <5>2. QED
          BY <3>1, <5>1 DEF SchedTypeOK
      <4>2. QED
        BY <4>1
    <3>3. loc'[c].t = loc[c].t /\ loc'[c].from = "idle"
      BY SMTT(30), <1>5, <3>1 DEF Locals
    <3>4. QED
      BY <1>2, <1>7, <1>8, <1>9, <2>1, <3>1, <3>2, <3>3, LocalsPlaces
  <2>4. QED
    BY <2>2, <2>3
<1>22. ASSUME NEW t \in Threads \cup {Idle}, PickNext(c, t) PROVE LocalsOK(c)'
  <2>1. pc'[c] = "commit" /\ loc'[c].t = t
    BY SMTT(30), <1>5, <1>22 DEF PickNext, Goto, Locals
  <2>2. QED
    BY <2>1, LocalsPlaces
<1>23. CASE Commit(c)
  <2>1. CASE Return(c)
    BY <1>2, <1>6, <1>7, <2>1, LocalsPlaces DEF Return
  <2>2. CASE loc' = [loc EXCEPT ![c].t = current_thread[c]] /\ Goto(c, "switch")
    <3>1. loc'[c].t = current_thread[c] /\ "switch" \in Leaving
      BY SMTT(30), <1>5, <2>2 DEF Locals, Leaving
    <3>2. QED
      BY <1>2, <1>14, <2>2, <3>1, LocalsPlaces
  <2>3. QED
    BY <1>23, <2>1, <2>2 DEF Commit
<1>24. CASE SwitchStack(c)
  <2>1. pc[c] = "switch" /\ pc'[c] = "switched" /\ loc'[c] = loc[c]
    BY <1>2, <1>6, <1>24 DEF SwitchStack
  <2>2. "switch" \in Leaving /\ "switched" \in Leaving
    BY DEF Leaving
  <2>3. loc[c].t \in Threads \cup {Idle}
    BY <1>5, <2>1, <2>2 DEF LocalsOK
  <2>4. QED
    BY <2>1, <2>2, <2>3, LocalsPlaces
<1>25. CASE ReleasePrev(c)
  BY <1>2, <1>6, <1>7, <1>25, LocalsPlaces DEF ReleasePrev, Return
<1>26. CASE StealChoose(c)
  <2>1. pc[c] = "steal" /\ current_thread' = current_thread
    BY <1>26 DEF StealChoose, cpuVars
  <2>2. CASE Goto(c, "relock") /\ UNCHANGED loc
    BY <1>2, <1>6, <1>9, <1>10, <2>1, <2>2, LocalsPlaces
  <2>3. ASSUME NEW d \in CpuIds \ {c}, loc' = [loc EXCEPT ![c].target = d], Goto(c, "steal1")
        PROVE  LocalsOK(c)'
    <3>1. loc'[c].t = loc[c].t /\ loc'[c].from = loc[c].from /\ loc'[c].target = d
      BY SMTT(30), <1>5, <2>3 DEF Locals
    <3>2. QED
      BY <1>2, <1>9, <1>10, <2>1, <2>3, <3>1, LocalsPlaces
  <2>4. QED
    BY <1>26, <2>2, <2>3 DEF StealChoose
<1>27. CASE StealLockFirst(c)
  <2>1. pc[c] = "steal1" /\ pc'[c] = "steal2" /\ loc'[c] = loc[c] /\ current_thread' = current_thread
    BY <1>2, <1>6, <1>27 DEF StealLockFirst, cpuVars
  <2>2. loc[c].target \in CpuIds \ {c}
    BY <1>5, <2>1 DEF LocalsOK
  <2>3. QED
    BY <1>9, <1>10, <2>1, <2>2, LocalsPlaces
<1>28. CASE StealMigrate(c)
  <2>1. /\ pc[c] = "steal2" /\ pc'[c] = "relock" /\ loc' = [loc EXCEPT ![c].target = None]
        /\ current_thread' = current_thread
    BY <1>2, <1>28 DEF StealMigrate, cpuVars
  <2>2. loc'[c].t = loc[c].t /\ loc'[c].from = loc[c].from
    BY SMTT(30), <1>5, <2>1 DEF Locals
  <2>3. QED
    BY <1>9, <1>10, <2>1, <2>2, LocalsPlaces
<1>29. CASE Relock(c)
  <2>1. /\ pc[c] = "relock" /\ loc' = [loc EXCEPT ![c].from = "run"]
        /\ pc'[c] \in {"run", "put", "pick", "sched"}
    BY <1>2, <1>29 DEF Relock
  <2>2. loc'[c].t = loc[c].t
    BY SMTT(30), <1>5, <2>1 DEF Locals
  <2>3. QED
    BY <1>7, <1>9, <1>10, <2>1, <2>2, LocalsPlaces
<1>30. CASE sched_tick(c)
  <2>1. /\ pc[c] = "run" /\ current_thread' = current_thread
        /\ \/ /\ current_thread[c] = Idle /\ Goto(c, "steal")
              /\ loc' = [loc EXCEPT ![c].from = "tick"]
           \/ Goto(c, "sched") /\ UNCHANGED loc
           \/ UNCHANGED <<pc, loc>>
    BY <1>30 DEF sched_tick, cpuVars
  <2>2. CASE Goto(c, "sched") /\ UNCHANGED loc
    BY <1>2, <1>6, <1>7, <1>8, <2>1, <2>2, LocalsPlaces
  <2>3. CASE UNCHANGED <<pc, loc>>
    BY <1>6, <1>7, <1>8, <2>1, <2>3, LocalsPlaces
  <2>4. CASE current_thread[c] = Idle /\ Goto(c, "steal") /\ loc' = [loc EXCEPT ![c].from = "tick"]
    <3>1. loc'[c].t = loc[c].t /\ loc'[c].from = "tick"
      BY SMTT(30), <1>5, <2>4 DEF Locals
    <3>2. QED
      BY <1>2, <1>7, <1>8, <1>9, <2>1, <2>4, <3>1, LocalsPlaces
  <2>5. QED
    BY <2>1, <2>2, <2>3, <2>4
<1>31. CASE WakeLocate(c)
  <2>1. pc[c] = "wake" /\ pc'[c] = "wake1"
    BY <1>2, <1>31 DEF WakeLocate
  <2>2. loc[c].t \in Threads /\ loc[c].target \in CpuIds /\ cpu_index[loc[c].t] \in CpuIds
    BY <1>11, <1>12, <2>1 DEF SchedTypeOK
  <2>3. \A k \in RunningOn(loc[c].t) : k \in CpuIds
    BY DEF RunningOn
  <2>4. \E k \in CpuIds : \/ loc' = [loc EXCEPT ![c].prev = k]
                          \/ loc' = [loc EXCEPT ![c].prev = k, ![c].target = k]
    BY <1>31, <2>2, <2>3 DEF WakeLocate
  <2>5. loc'[c].t = loc[c].t /\ loc'[c].prev \in CpuIds /\ loc'[c].target \in CpuIds
    BY SMTT(30), <1>5, <2>2, <2>4 DEF Locals
  <2>6. QED
    BY <1>11, <2>1, <2>2, <2>5, LocalsPlaces
<1>32. CASE WakeLockFirst(c)
  <2>1. /\ pc[c] = "wake1" /\ loc'[c] = loc[c]
        /\ pc'[c] = IF loc[c].prev = loc[c].target THEN "wakecheck" ELSE "wake2"
    BY <1>2, <1>6, <1>32 DEF WakeLockFirst
  <2>2. QED
    BY <1>11, <1>12, <1>13, <2>1, LocalsPlaces
<1>33. CASE WakeLockSecond(c)
  <2>1. pc[c] = "wake2" /\ loc'[c] = loc[c] /\ pc'[c] = "wakecheck"
    BY <1>2, <1>6, <1>33 DEF WakeLockSecond
  <2>2. QED
    BY <1>11, <1>12, <1>13, <2>1, LocalsPlaces
<1>34. CASE WakeCheck(c)
  <2>1. /\ pc[c] = "wakecheck"
        /\ \/ pc'[c] = "wakestore" /\ loc' = [loc EXCEPT ![c].st = state[loc[c].t]]
           \/ pc'[c] = "wake" /\ loc'[c] = loc[c]
    BY <1>2, <1>6, <1>34 DEF WakeCheck
  <2>2. /\ loc'[c].t = loc[c].t /\ loc'[c].prev = loc[c].prev
        /\ loc'[c].target = loc[c].target
    BY SMTT(30), <1>5, <2>1 DEF Locals
  <2>3. QED
    BY <1>11, <1>12, <1>13, <2>1, <2>2, LocalsPlaces
<1>35. CASE WakeStore(c)
  BY <1>2, <1>6, <1>7, <1>35, LocalsPlaces DEF WakeStore, Return
<1>36. ASSUME NEW b \in BOOLEAN, Block(c, b) PROVE LocalsOK(c)'
  BY <1>2, <1>6, <1>7, <1>8, <1>36, LocalsPlaces DEF Block
<1>37. ASSUME NEW b \in BOOLEAN, Yield(c, b) PROVE LocalsOK(c)'
  <2>1. pc[c] = "run" /\ pc'[c] = "sched" /\ loc'[c].t = loc[c].t
    BY SMTT(30), <1>5, <1>37 DEF Yield, Goto, Locals
  <2>2. QED
    BY <1>7, <1>8, <2>1, LocalsPlaces
<1>38. ASSUME NEW t \in Threads, Create(c, t) PROVE LocalsOK(c)'
  <2>1. pc'[c] = "enqueue" /\ loc'[c].t = t /\ loc'[c].target \in CpuIds
    BY SMTT(30), <1>5, <1>38 DEF Create, Goto, Locals
  <2>2. QED
    BY <2>1, LocalsPlaces
<1>39. ASSUME NEW t \in Threads, Kill(c, t) PROVE LocalsOK(c)'
  <2>1. pc'[c] = "queue_reap" /\ loc'[c].t = t
    BY SMTT(30), <1>5, <1>39 DEF Kill, Goto, Locals
  <2>2. QED
    BY <2>1, LocalsPlaces
<1>40. ASSUME NEW t \in Threads, WakeStart(c, t) PROVE LocalsOK(c)'
  <2>1. pc'[c] = "wake" /\ loc'[c].t = t /\ loc'[c].target \in CpuIds
    BY SMTT(30), <1>5, <1>40 DEF WakeStart, Goto, Locals
  <2>2. QED
    BY <1>11, <2>1, LocalsPlaces
<1>41. ASSUME NEW t \in Threads, sched_prepare_thread_reap(c, t) PROVE LocalsOK(c)'
  <2>1. /\ pc[c] = "reap"
        /\ \/ UNCHANGED pc /\ loc' = [loc EXCEPT ![c].todo = @ \ {t}]
           \/ loc' = [loc EXCEPT ![c].t = t] /\ Goto(c, "free")
    BY <1>41 DEF sched_prepare_thread_reap
  <2>2. CASE UNCHANGED pc /\ loc' = [loc EXCEPT ![c].todo = @ \ {t}]
    <3>1. loc'[c].t = loc[c].t
      BY SMTT(30), <1>5, <2>2 DEF Locals
    <3>2. QED
      BY <1>6, <1>7, <1>8, <2>1, <2>2, <3>1, LocalsPlaces
  <2>3. CASE loc' = [loc EXCEPT ![c].t = t] /\ Goto(c, "free")
    <3>1. loc'[c].t = t
      BY SMTT(30), <1>5, <2>3 DEF Locals
    <3>2. QED
      BY <1>2, <2>3, <3>1, LocalsPlaces
  <2>4. QED
    BY <2>1, <2>2, <2>3
<1>42. ASSUME NEW t \in Threads, PickDead(c, t) PROVE LocalsOK(c)'
  BY <1>6, <1>7, <1>8, <1>42, LocalsPlaces DEF PickDead
<1>43. QED
  BY <1>15, <1>16, <1>17, <1>18, <1>19, <1>20, <1>21, <1>22, <1>23, <1>24, <1>25, <1>26, <1>27,
     <1>28, <1>29, <1>30, <1>31, <1>32, <1>33, <1>34, <1>35, <1>36, <1>37, <1>38, <1>39, <1>40,
     <1>41, <1>42 DEF Step

-----------------------------------------------------------------------------
(* Steps that leave each part of the invariant alone *)

LEMMA StackFrame ==
  ASSUME StackInv, NEW c \in CpuIds, Local(c), UNCHANGED <<current_thread, switching_from, on_cpu>>,
         pc[c] \notin Leaving, pc'[c] \notin Leaving,
         \A t \in Threads : on_cpu[t] => cpu_index'[t] = cpu_index[t]
  PROVE  StackInv'
<1>1. \A d \in CpuIds, t \in Threads : Occupies(d, t)' <=> Occupies(d, t)
  BY DEF Local, Occupies
<1>2. \A d \in CpuIds : switching_from'[d] = IF pc'[d] = "switch" THEN loc'[d].t ELSE None
  <2>1. pc[c] # "switch" /\ pc'[c] # "switch"
    BY DEF Leaving
  <2>2. switching_from'[c] = None
    BY <2>1 DEF StackInv
  <2>3. QED
    BY <2>1, <2>2 DEF StackInv, Local
<1>3. \A d \in CpuIds : pc'[d] \in Leaving => loc'[d].t # current_thread'[d]
  BY DEF StackInv, Local
<1>4. \A t \in Threads : on_cpu'[t] <=> \E d \in CpuIds : Occupies(d, t)'
  BY <1>1 DEF StackInv
<1>5. \A t \in Threads, d \in CpuIds : Occupies(d, t)' => cpu_index'[t] = d
  BY <1>1 DEF StackInv
<1>6. QED
  BY <1>2, <1>3, <1>4, <1>5 DEF StackInv

LEMMA TasksFrame ==
  ASSUME TasksInv, UNCHANGED <<tasks_tree, on_rq>>,
         \A t \in Threads : on_rq[t] => cpu_index'[t] = cpu_index[t]
  PROVE  TasksInv'
<1>1. QED
  BY DEF TasksInv

LEMMA DeadlinesFrame ==
  ASSUME DeadlinesInv, UNCHANGED <<deadline_tree, deadline_queued>>,
         \A t \in Threads : deadline_queued[t] => cpu_index'[t] = cpu_index[t]
  PROVE  DeadlinesInv'
<1>1. QED
  BY DEF DeadlinesInv

LEMMA WakeFrame ==
  ASSUME WakeInv, NEW c \in CpuIds, Local(c),
         \A t \in Threads : Storing(c, t)' => cpu_index'[t] = loc'[c].prev,
         \A d \in CpuIds \ {c}, t \in Threads : Storing(d, t) => cpu_index'[t] = cpu_index[t]
  PROVE  WakeInv'
<1>1. \A d \in CpuIds \ {c}, t \in Threads : Storing(d, t)' => Storing(d, t)
  BY DEF Local, Storing
<1>2. \A d \in CpuIds \ {c}, t \in Threads : Storing(d, t)' => cpu_index'[t] = loc'[d].prev
  BY <1>1 DEF WakeInv, Local
<1>3. QED
  BY <1>2 DEF WakeInv

\* A thread known to no structure stays so and keeps its state, or is killed.
KeepsDetached ==
  \A t \in Threads : Detached(t) /\ state[t] # "BLOCKED" =>
    /\ Detached(t)'
    /\ state'[t] = state[t] \/ (state[t] # "NEW" /\ state'[t] = "DEAD")

LEMMA CreationFrame ==
  ASSUME CreationInv, NEW c \in CpuIds, Local(c), KeepsDetached,
         \A t \in Threads : state'[t] = "NEW" => state[t] = "NEW",
         pc[c] # "enqueue", pc'[c] # "enqueue",
         \A t \in Threads : loc'[c].t = t => loc[c].t = t \/ state[t] # "NEW"
  PROVE  CreationInv'
<1>1. \A t \in Threads : UnderCreation(t)' <=> UnderCreation(t)
  BY DEF UnderCreation, Local
<1>2. ASSUME NEW t \in Threads, state'[t] = "NEW"
      PROVE  Detached(t)' /\ \A d \in CpuIds : loc'[d].t # t
  <2>1. state[t] = "NEW" /\ Detached(t) /\ \A d \in CpuIds : loc[d].t # t
    BY <1>2 DEF CreationInv, CreationOK
  <2>2. Detached(t)'
    BY <2>1 DEF KeepsDetached
  <2>3. QED
    BY <2>1, <2>2 DEF Local
<1>3. ASSUME NEW t \in Threads, UnderCreation(t)'
      PROVE  Detached(t)' /\ state'[t] \in {"READY", "DEAD"}
  <2>1. Detached(t) /\ state[t] \in {"READY", "DEAD"}
    BY <1>1, <1>3 DEF CreationInv, CreationOK
  <2>2. QED
    BY <2>1 DEF KeepsDetached
<1>4. ASSUME NEW t \in Threads, NEW d \in CpuIds, NEW e \in CpuIds,
             pc'[d] = "enqueue", pc'[e] = "enqueue", loc'[d].t = t, loc'[e].t = t
      PROVE  d = e
  <2>1. pc[d] = "enqueue" /\ pc[e] = "enqueue" /\ loc[d].t = t /\ loc[e].t = t
    BY <1>4 DEF Local
  <2>2. QED
    BY <2>1 DEF CreationInv, CreationOK
<1>5. \A t \in Threads : CreationOK(t)'
  BY <1>2, <1>3, <1>4 DEF CreationOK
<1>6. QED
  BY <1>5 DEF CreationInv

LEMMA ReapingKept ==
  ASSUME ReapInv, KeepsDetached
  PROVE  \A t \in Threads : Reaping(t) => Detached(t)' /\ state'[t] = "DEAD"
<1>1. \A t \in Threads : Reaping(t) => Detached(t) /\ state[t] = "DEAD"
  BY DEF ReapInv
<1>2. QED
  BY <1>1 DEF KeepsDetached

LEMMA ReapFrame ==
  ASSUME SchedTypeOK, ReapInv, NEW c \in CpuIds, Local(c), UNCHANGED reapVars,
         \A t \in Threads : Reaping(t) => Detached(t)' /\ state'[t] = "DEAD",
         pc[c] \notin {"reap", "free"}, pc'[c] \notin {"reap", "free"},
         loc'[c].t \in freed => pc'[c] = "enqueue"
  PROVE  ReapInv'
<1>1. UNCHANGED <<reap_queue, reap_queued, reap_worker_lock, freed>>
  BY DEF reapVars
<1>2. \A t \in Threads : Reaping(t)' => Reaping(t)
  BY <1>1 DEF Reaping, Local
<1>3. ASSUME NEW t \in Threads, Reaping(t)'
      PROVE  Detached(t)' /\ state'[t] = "DEAD" /\ t \in reap_queued' /\ t \notin reap_queue'
  <2>1. Reaping(t) /\ t \in reap_queued /\ t \notin reap_queue
    BY <1>2, <1>3 DEF ReapInv
  <2>2. QED
    BY <1>1, <2>1
<1>4. \A d \in CpuIds : reap_worker_lock' = d <=> pc'[d] \in {"reap", "free"}
  <2>1. reap_worker_lock # c
    BY DEF ReapInv
  <2>2. \A d \in CpuIds \ {c} : reap_worker_lock = d <=> pc'[d] \in {"reap", "free"}
    BY DEF ReapInv, Local
  <2>3. QED
    BY <1>1, <2>1, <2>2
<1>5. \A d \in CpuIds : pc'[d] = "reap" => loc'[d].todo \subseteq reap_queue'
  BY <1>1 DEF ReapInv, Local
<1>6. ASSUME NEW t \in freed', NEW d \in CpuIds, loc'[d].t = t PROVE pc'[d] = "enqueue"
  <2>1. t \in freed
    BY <1>1
  <2>2. CASE d = c
    BY <1>6, <2>1, <2>2
  <2>3. CASE d # c
    <3>1. loc[d].t = t /\ pc'[d] = pc[d]
      BY <1>6, <2>3 DEF Local
    <3>2. QED
      BY <2>1, <3>1 DEF ReapInv
  <2>4. QED
    BY <2>2, <2>3
<1>7. QED
  BY <1>1, <1>3, <1>4, <1>5, <1>6 DEF ReapInv

\* What no step of c does to the CPU d, above all while d dispatches.
Isolated(c) ==
  \A d \in CpuIds \ {c} :
    /\ pc[d] \in Dispatching => tasks_tree'[d] = tasks_tree[d]
    /\ current_thread[d] \in tasks_tree'[d] => current_thread[d] \in tasks_tree[d]
    /\ \A t \in Threads : current_thread[d] = t =>
         /\ pc[d] \in Dispatching =>
              /\ on_rq'[t] = on_rq[t] /\ deadline_queued'[t] = deadline_queued[t]
              /\ wakeup_ticks'[t] = wakeup_ticks[t]
              /\ state'[t] \in {state[t], "DEAD"}
         /\ state'[t] = "BLOCKED" => state[t] = "BLOCKED"

LEMMA OthersKeep ==
  ASSUME ChoiceInv, CurrentInv, NEW c \in CpuIds, Local(c), Isolated(c),
         \A d \in CpuIds \ {c} : current_thread'[d] = current_thread[d],
         ChoiceOK(c)', CurrentOK(c)'
  PROVE  ChoiceInv' /\ CurrentInv'
<1>1. ASSUME NEW d \in CpuIds \ {c} PROVE ChoiceOK(d)' /\ CurrentOK(d)'
  <2>1. pc'[d] = pc[d] /\ loc'[d] = loc[d] /\ current_thread'[d] = current_thread[d]
    BY DEF Local
  <2>2. ChoiceOK(d) /\ CurrentOK(d)
    BY DEF ChoiceInv, CurrentInv
  <2>3. Choosing(d) => pc[d] \in Dispatching
    BY DEF Choosing, Dispatching
  <2>4. Choosing(d)' <=> Choosing(d)
    BY <2>1 DEF Choosing
  <2>5. ~Choosing(d)' => current_thread'[d] \notin tasks_tree'[d]
    BY <2>1, <2>2, <2>4 DEF ChoiceOK, Isolated
  <2>6. pc[d] = "commit" => tasks_tree'[d] = tasks_tree[d]
    BY <2>3 DEF Choosing, Isolated
  <2>7. ChoiceOK(d)'
    BY <2>1, <2>2, <2>5, <2>6 DEF ChoiceOK
  <2>8. ASSUME NEW t \in Threads, current_thread'[d] = t
        PROVE  /\ Choosing(d)' => on_rq'[t] \/ state'[t] \in {"BLOCKED", "DEAD"}
               /\ pc'[d] \in Dispatching /\ state'[t] = "BLOCKED" /\ wakeup_ticks'[t] => deadline_queued'[t]
               /\ pc'[d] \in Stealing => state'[t] # "BLOCKED"
    <3>1. current_thread[d] = t
      BY <2>1, <2>8
    <3>2. pc[d] \in Dispatching =>
              /\ on_rq'[t] = on_rq[t] /\ deadline_queued'[t] = deadline_queued[t]
              /\ wakeup_ticks'[t] = wakeup_ticks[t]
              /\ state'[t] \in {state[t], "DEAD"}
      BY <3>1 DEF Isolated
    <3>3. state'[t] = "BLOCKED" => state[t] = "BLOCKED"
      BY <3>1 DEF Isolated
    <3>4. /\ Choosing(d) => on_rq[t] \/ state[t] \in {"BLOCKED", "DEAD"}
          /\ pc[d] \in Dispatching /\ state[t] = "BLOCKED" /\ wakeup_ticks[t] => deadline_queued[t]
          /\ pc[d] \in Stealing => state[t] # "BLOCKED"
      BY <2>2, <3>1 DEF CurrentOK
    <3>5. QED
      BY <2>1, <2>3, <2>4, <3>2, <3>3, <3>4
  <2>9. CurrentOK(d)'
    BY <2>8 DEF CurrentOK
  <2>10. QED
    BY <2>7, <2>9
<1>2. QED
  BY <1>1 DEF ChoiceInv, CurrentInv

-----------------------------------------------------------------------------
(* Steps that leave the threads where they are *)

\* No thread, tree or count changes but the states.
Steady(c) ==
  /\ UNCHANGED <<cpu_index, on_cpu, on_rq, deadline_queued>>
  /\ UNCHANGED <<tasks_tree, deadline_tree, runnable_count, current_thread, switching_from>>
  /\ pc[c] \notin Leaving /\ pc'[c] \notin Leaving
  /\ Choosing(c)' <=> Choosing(c)
  /\ pc'[c] = "commit" => \/ loc'[c].t \in tasks_tree[c]
                          \/ loc'[c].t = Idle /\ tasks_tree[c] = {}
  /\ \A t \in Threads : Storing(c, t)' => cpu_index[t] = loc'[c].prev /\ state[t] = "BLOCKED"

LEMMA SteadyInv ==
  ASSUME SchedInv, NEW c \in CpuIds, Local(c), Steady(c)
  PROVE  /\ StackInv' /\ TasksInv' /\ DeadlinesInv' /\ CountedInv' /\ WakeInv' /\ ChoiceOK(c)'
         /\ \A t \in Threads : Detached(t) /\ state[t] # "BLOCKED" => Detached(t)'
<1>1. UNCHANGED <<cpu_index, on_cpu, on_rq, deadline_queued, tasks_tree, deadline_tree,
                  runnable_count, current_thread, switching_from>>
  BY DEF Steady
<1>2. StackInv'
  BY <1>1, StackFrame DEF SchedInv, Steady
<1>3. TasksInv' /\ DeadlinesInv'
  BY <1>1, TasksFrame, DeadlinesFrame DEF SchedInv
<1>4. WakeInv'
  BY <1>1, WakeFrame DEF SchedInv, Steady
<1>5. CountedInv'
  <2>1. \A d \in CpuIds : Choosing(d)' <=> Choosing(d)
    BY DEF Steady, Local, Choosing
  <2>2. \A d \in CpuIds : Counted(d)' = Counted(d)
    BY <1>1, <2>1 DEF Counted
  <2>3. QED
    BY <1>1, <2>2 DEF SchedInv, CountedInv
<1>6. ChoiceOK(c)'
  <2>1. ChoiceOK(c)
    BY DEF SchedInv, ChoiceInv
  <2>2. QED
    BY <1>1, <2>1 DEF ChoiceOK, Steady
<1>7. ASSUME NEW t \in Threads, Detached(t), state[t] # "BLOCKED" PROVE Detached(t)'
  <2>1. \A d \in CpuIds : ~Storing(d, t)'
    BY <1>7 DEF Detached, Storing, Steady, Local
  <2>2. QED
    BY <1>1, <1>7, <2>1 DEF Detached
<1>8. QED
  BY <1>2, <1>3, <1>4, <1>5, <1>6, <1>7

\* Nor the states: c only goes on inside the scheduler.
Quiet(c) ==
  /\ Steady(c) /\ UNCHANGED <<state, wakeup_ticks>>
  /\ pc[c] # "enqueue" /\ pc'[c] # "enqueue"
  /\ pc'[c] \in Stealing => pc[c] \in Stealing
  /\ pc'[c] \in Dispatching => pc[c] \in Dispatching \cup Stealing
  /\ \A t \in Threads : loc'[c].t = t => loc[c].t = t \/ (state[t] # "NEW" /\ t \notin freed)

LEMMA QuietInv ==
  ASSUME SchedInv, NEW c \in CpuIds, Local(c), Quiet(c)
  PROVE  /\ StackInv' /\ TasksInv' /\ DeadlinesInv' /\ CountedInv' /\ WakeInv' /\ CreationInv'
         /\ QueuedInv' /\ ChoiceInv' /\ CurrentInv' /\ KeepsDetached
<1>1. Steady(c) /\ UNCHANGED <<state, wakeup_ticks>>
  BY DEF Quiet
<1>2. UNCHANGED <<cpu_index, on_cpu, on_rq, deadline_queued, tasks_tree, deadline_tree,
                  runnable_count, current_thread, switching_from>>
  BY <1>1 DEF Steady
<1>3. KeepsDetached
  BY <1>1, SteadyInv DEF KeepsDetached
<1>4. CreationInv'
  BY <1>1, <1>3, CreationFrame DEF SchedInv, Quiet
<1>5. QueuedInv'
  <2>1. \A t \in Threads : UnderCreation(t)' <=> UnderCreation(t)
    BY DEF UnderCreation, Local, Quiet
  <2>2. \A t \in Threads : QueuedOK(t)'
    BY <1>1, <1>2, <2>1 DEF SchedInv, QueuedInv, QueuedOK
  <2>3. QED
    BY <2>2 DEF QueuedInv
<1>6. Isolated(c)
  BY <1>1, <1>2 DEF Isolated
<1>7. CurrentOK(c)'
  <2>1. CurrentOK(c)
    BY DEF SchedInv, CurrentInv
  <2>2. QED
    BY <1>1, <1>2, <2>1 DEF CurrentOK, Quiet, Steady
<1>8. ChoiceInv' /\ CurrentInv'
  BY <1>1, <1>2, <1>6, <1>7, SteadyInv, OthersKeep DEF SchedInv
<1>9. QED
  BY <1>1, <1>3, <1>4, <1>5, <1>8, SteadyInv

\* What is left to prove of a step, next to LockStep, CpuStep and LocalsStep.
DataTypes ==
  /\ state \in [Threads -> States]
  /\ wakeup_ticks \in [Threads -> BOOLEAN]
  /\ cpu_index \in [Threads -> CpuIds]
  /\ on_cpu \in [Threads -> BOOLEAN]
  /\ on_rq \in [Threads -> BOOLEAN]
  /\ deadline_queued \in [Threads -> BOOLEAN]
  /\ tasks_tree \in [CpuIds -> SUBSET Threads]
  /\ deadline_tree \in [CpuIds -> SUBSET Threads]
  /\ runnable_count \in [CpuIds -> Nat]
  /\ reap_queue \subseteq Threads /\ reap_queued \subseteq Threads /\ freed \subseteq Threads
  /\ reap_worker_lock \in CpuIds \cup {None}

Rest ==
  /\ DataTypes /\ StackInv /\ TasksInv /\ DeadlinesInv /\ ChoiceInv /\ CountedInv
  /\ WakeInv /\ CreationInv /\ ReapInv /\ QueuedInv /\ CurrentInv

LEMMA QuietRest ==
  ASSUME SchedInv, NEW c \in CpuIds, Local(c), Quiet(c), UNCHANGED reapVars,
         pc[c] \notin {"reap", "free"}, pc'[c] \notin {"reap", "free"}
  PROVE  Rest'
<1>1. SchedTypeOK /\ ReapInv
  BY DEF SchedInv
<1>2. KeepsDetached
  BY QuietInv
<1>3. loc'[c].t \notin freed
  <2>1. loc[c].t \notin freed
    BY <1>1 DEF ReapInv, Quiet
  <2>2. freed \subseteq Threads
    BY <1>1 DEF SchedTypeOK
  <2>3. QED
    BY <2>1, <2>2 DEF Quiet
<1>4. ReapInv'
  BY <1>1, <1>2, <1>3, ReapingKept, ReapFrame
<1>5. DataTypes'
  BY <1>1 DEF DataTypes, SchedTypeOK, Quiet, Steady, reapVars
<1>6. QED
  BY <1>4, <1>5, QuietInv DEF Rest

LEMMA QuietSteps ==
  ASSUME SchedInv, NEW c \in CpuIds, Local(c),
         \/ ReapSkip(c) \/ StealChoose(c) \/ StealLockFirst(c) \/ WakeLocate(c)
         \/ WakeLockFirst(c) \/ WakeLockSecond(c) \/ WakeCheck(c)
         \/ \E b \in BOOLEAN : Yield(c, b)
         \/ \E t \in Threads : WakeStart(c, t)
         \/ \E t \in Threads \cup {Idle} : PickNext(c, t)
  PROVE  Rest'
<1> DEFINE Same ==
      /\ UNCHANGED <<state, wakeup_ticks, cpu_index, on_cpu, on_rq, deadline_queued>>
      /\ UNCHANGED <<tasks_tree, deadline_tree, runnable_count, current_thread, switching_from>>
      /\ UNCHANGED reapVars
<1>1. /\ SchedTypeOK /\ LocalsInv /\ StackInv /\ TasksInv /\ CreationInv /\ ReapInv
      /\ loc \in [CpuIds -> Locals]
  BY DEF SchedInv, SchedTypeOK
<1>2. \A l : Goto(c, l) => pc'[c] = l
  BY <1>1, GotoAt
\* A passage from one place to another, with the thread it is about.
<1>3. ASSUME Same, NEW a, NEW b, pc[c] = a, pc'[c] = b,
             loc'[c].t = loc[c].t,
             \/ a = "sched" /\ b = "lock"
             \/ a = "run" /\ b = "sched"
             \/ a \in Stealing /\ b \in Stealing
             \/ a \in Waking /\ b \in Waking \ {"wakestore"}
      PROVE  Rest'
  <2>1. pc[c] \notin {"reap", "free"} /\ pc'[c] \notin {"reap", "free"}
    BY SMTT(30), <1>3 DEF Stealing, Waking
  <2>2. pc'[c] # "wakestore" /\ pc'[c] # "commit"
    BY SMTT(30), <1>3 DEF Stealing, Waking
  <2>3. ~Choosing(c) /\ ~Choosing(c)' /\ pc[c] \notin Leaving /\ pc'[c] \notin Leaving
    BY SMTT(30), <1>3 DEF Stealing, Waking, Choosing, Leaving
  <2>4. Steady(c)
    BY <1>3, <2>2, <2>3 DEF Steady, Storing
  <2>5. /\ pc[c] # "enqueue" /\ pc'[c] # "enqueue" /\ pc'[c] \notin Dispatching
        /\ pc'[c] \in Stealing => pc[c] \in Stealing
    BY SMTT(30), <1>3 DEF Stealing, Waking, Dispatching
  <2>6. Quiet(c)
    BY <1>3, <2>4, <2>5 DEF Quiet
  <2>7. QED
    BY <1>3, <2>1, <2>6, QuietRest
<1>4. CASE ReapSkip(c)
  <2>1. pc[c] = "sched" /\ pc'[c] = "lock" /\ loc' = loc /\ Same
    BY <1>2, <1>4 DEF ReapSkip, threadVars, rqVars, cpuVars
  <2>2. QED
    BY <1>3, <2>1
<1>5. CASE StealChoose(c)
  <2>1. /\ Same /\ pc[c] = "steal" /\ pc'[c] \in {"steal1", "relock"}
        /\ loc' = loc \/ \E d \in CpuIds : loc' = [loc EXCEPT ![c].target = d]
    BY <1>2, <1>5 DEF StealChoose, threadVars, rqVars, cpuVars
  <2>2. loc'[c].t = loc[c].t
    BY SMTT(30), <1>1, <2>1 DEF Locals
  <2>3. pc[c] \in Stealing /\ pc'[c] \in Stealing
    BY <2>1 DEF Stealing
  <2>4. QED
    BY <1>3, <2>1, <2>2, <2>3
<1>6. CASE StealLockFirst(c)
  <2>1. Same /\ pc[c] = "steal1" /\ pc'[c] = "steal2" /\ loc' = loc
    BY <1>2, <1>6 DEF StealLockFirst, threadVars, rqVars, cpuVars
  <2>2. pc[c] \in Stealing /\ pc'[c] \in Stealing
    BY <2>1 DEF Stealing
  <2>3. QED
    BY <1>3, <2>1, <2>2
<1>7. CASE WakeLocate(c)
  <2>1. /\ Same /\ pc[c] = "wake" /\ pc'[c] = "wake1"
        /\ \E k : \/ loc' = [loc EXCEPT ![c].prev = k]
                  \/ loc' = [loc EXCEPT ![c].prev = k, ![c].target = k]
    BY <1>2, <1>7 DEF WakeLocate, threadVars, rqVars, cpuVars
  <2>2. loc'[c].t = loc[c].t
    BY SMTT(30), <1>1, <2>1 DEF Locals
  <2>3. pc[c] \in Waking /\ pc'[c] \in Waking \ {"wakestore"}
    BY <2>1 DEF Waking
  <2>4. QED
    BY <1>3, <2>1, <2>2, <2>3
<1>8. CASE WakeLockFirst(c)
  <2>1. Same /\ pc[c] = "wake1" /\ pc'[c] \in {"wakecheck", "wake2"} /\ loc' = loc
    BY <1>2, <1>8 DEF WakeLockFirst, threadVars, rqVars, cpuVars
  <2>2. pc[c] \in Waking /\ pc'[c] \in Waking \ {"wakestore"}
    BY <2>1 DEF Waking
  <2>3. QED
    BY <1>3, <2>1, <2>2
<1>9. CASE WakeLockSecond(c)
  <2>1. Same /\ pc[c] = "wake2" /\ pc'[c] = "wakecheck" /\ loc' = loc
    BY <1>2, <1>9 DEF WakeLockSecond, threadVars, rqVars, cpuVars
  <2>2. pc[c] \in Waking /\ pc'[c] \in Waking \ {"wakestore"}
    BY <2>1 DEF Waking
  <2>3. QED
    BY <1>3, <2>1, <2>2
<1>10. ASSUME NEW b \in BOOLEAN, Yield(c, b) PROVE Rest'
  <2>1. Same /\ pc[c] = "run" /\ pc'[c] = "sched" /\ loc' = [loc EXCEPT ![c].voluntary = b]
    BY <1>2, <1>10 DEF Yield, threadVars, rqVars, cpuVars
  <2>2. loc'[c].t = loc[c].t
    BY SMTT(30), <1>1, <2>1 DEF Locals
  <2>3. QED
    BY <1>3, <2>1, <2>2
\* The waker that finds its target where it looked for it.
<1>11. CASE WakeCheck(c)
  <2>1. Same /\ pc[c] = "wakecheck"
    BY <1>11 DEF WakeCheck, threadVars, rqVars, cpuVars
  <2>2. CASE pc'[c] = "wake" /\ loc' = loc
    <3>1. pc[c] \in Waking /\ pc'[c] \in Waking \ {"wakestore"}
      BY <2>1, <2>2 DEF Waking
    <3>2. QED
      BY <1>3, <2>1, <2>2, <3>1
  <2>3. CASE /\ pc'[c] = "wakestore" /\ StillThere(loc[c].t, loc[c].prev)
             /\ loc' = [loc EXCEPT ![c].st = state[loc[c].t]]
    <3>1. /\ loc'[c].t = loc[c].t /\ loc'[c].prev = loc[c].prev
          /\ loc'[c].st = state[loc[c].t]
      BY SMTT(30), <1>1, <2>3 DEF Locals
    <3>2. loc[c].t \in Threads /\ loc[c].prev \in CpuIds
      BY <1>1, <2>1 DEF LocalsInv, LocalsOK, Waking
    <3>3. cpu_index[loc[c].t] = loc[c].prev
      <4>1. CASE loc[c].prev \in RunningOn(loc[c].t)
        <5>1. \/ current_thread[loc[c].prev] = loc[c].t
              \/ switching_from[loc[c].prev] = loc[c].t
          BY <4>1 DEF RunningOn
        <5>2. switching_from[loc[c].prev] = loc[c].t =>
                pc[loc[c].prev] = "switch" /\ loc[loc[c].prev].t = loc[c].t
          BY <1>1, <3>2, SchedConstants DEF StackInv
        <5>3. Occupies(loc[c].prev, loc[c].t)
          BY <5>1, <5>2 DEF Occupies, Leaving
        <5>4. QED
          BY <1>1, <3>2, <5>3 DEF StackInv
      <4>2. QED
        BY <2>3, <4>1 DEF StillThere
    <3>4. \A t \in Threads : Storing(c, t)' => cpu_index[t] = loc'[c].prev /\ state[t] = "BLOCKED"
      BY <3>1, <3>3 DEF Storing
    <3>5. ~Choosing(c) /\ ~Choosing(c)' /\ pc[c] \notin Leaving /\ pc'[c] \notin Leaving
      BY SMTT(30), <2>1, <2>3 DEF Choosing, Leaving
    <3>6. pc'[c] \notin Stealing /\ pc'[c] \notin Dispatching
      BY <2>3 DEF Stealing, Dispatching
    <3>7. Steady(c)
      BY <2>1, <2>3, <3>4, <3>5 DEF Steady
    <3>8. Quiet(c)
      BY <2>1, <2>3, <3>1, <3>6, <3>7 DEF Quiet
    <3>9. QED
      BY <2>1, <2>3, <3>8, QuietRest
  <2>4. QED
    BY <1>2, <1>11, <2>2, <2>3 DEF WakeCheck
<1>12. ASSUME NEW t \in Threads, WakeStart(c, t) PROVE Rest'
  <2>1. /\ Same /\ pc[c] = "run" /\ pc'[c] = "wake" /\ t \notin freed /\ state[t] # "NEW"
        /\ \E k \in CpuIds : loc' = [loc EXCEPT ![c].t = t, ![c].target = k]
    BY <1>2, <1>12 DEF WakeStart, threadVars, rqVars, cpuVars
  <2>2. loc'[c].t = t
    BY SMTT(30), <1>1, <2>1 DEF Locals
  <2>3. /\ ~Choosing(c) /\ ~Choosing(c)' /\ pc[c] \notin Leaving /\ pc'[c] \notin Leaving
        /\ pc'[c] \notin Stealing /\ pc'[c] \notin Dispatching
    BY SMTT(30), <2>1 DEF Choosing, Leaving, Stealing, Dispatching
  <2>4. Steady(c)
    BY <2>1, <2>3 DEF Steady, Storing
  <2>5. Quiet(c)
    BY <2>1, <2>2, <2>3, <2>4 DEF Quiet
  <2>6. QED
    BY <2>1, <2>5, QuietRest
<1>13. ASSUME NEW t \in Threads \cup {Idle}, PickNext(c, t) PROVE Rest'
  <2>1. /\ Same /\ pc[c] = "pick" /\ pc'[c] = "commit" /\ loc' = [loc EXCEPT ![c].t = t]
        /\ t \in tasks_tree[c] \/ (t = Idle /\ tasks_tree[c] = {})
    BY <1>2, <1>13 DEF PickNext, threadVars, rqVars, cpuVars
  <2>2. loc'[c].t = t
    BY SMTT(30), <1>1, <2>1 DEF Locals
  <2>3. /\ Choosing(c) /\ Choosing(c)' /\ pc[c] \notin Leaving /\ pc'[c] \notin Leaving
        /\ pc'[c] \notin Stealing /\ pc[c] \in Dispatching
    BY SMTT(30), <2>1 DEF Choosing, Leaving, Stealing, Dispatching
  <2>4. Steady(c)
    BY <2>1, <2>2, <2>3 DEF Steady, Storing
  <2>5. t \in Threads => state[t] # "NEW" /\ t \notin freed
    <3>1. t \in Threads => on_rq[t]
      BY <1>1, <2>1, SchedConstants DEF TasksInv
    <3>2. t \in Threads => ~Detached(t)
      BY <3>1 DEF Detached
    <3>3. QED
      BY <1>1, <3>2 DEF CreationInv, CreationOK, ReapInv, Reaping
  <2>6. Quiet(c)
    BY <2>1, <2>2, <2>3, <2>4, <2>5 DEF Quiet
  <2>7. QED
    BY <2>1, <2>6, QuietRest
<1>14. QED
  BY <1>4, <1>5, <1>6, <1>7, <1>8, <1>9, <1>10, <1>11, <1>12, <1>13

-----------------------------------------------------------------------------
(* Steps of a running thread that change states only *)

\* A thread with a stack on a CPU is known to the scheduler.
LEMMA OnCpuKnown ==
  ASSUME SchedInv, NEW t \in Threads, on_cpu[t] \/ on_rq[t] \/ deadline_queued[t]
  PROVE  ~Detached(t) /\ state[t] # "NEW" /\ t \notin freed /\ ~UnderCreation(t) /\ ~Reaping(t)
<1>1. ~Detached(t)
  BY DEF Detached
<1>2. QED
  BY <1>1 DEF SchedInv, CreationInv, CreationOK, ReapInv, Reaping

LEMMA CurrentFacts ==
  ASSUME SchedInv, NEW c \in CpuIds, NEW t \in Threads, current_thread[c] = t
  PROVE  on_cpu[t] /\ cpu_index[t] = c /\ \A d \in CpuIds \ {c} : current_thread[d] # t
<1>1. Occupies(c, t) /\ \A d \in CpuIds : current_thread[d] = t => Occupies(d, t)
  BY DEF Occupies
<1>2. QED
  BY <1>1 DEF SchedInv, StackInv

\* The states may change, but no other CPU's current thread comes to block.
LEMMA StateFrame ==
  ASSUME SchedInv, NEW c \in CpuIds, Local(c), UNCHANGED reapVars, pc[c] = "run",
         UNCHANGED <<cpu_index, on_cpu, on_rq, deadline_queued>>,
         UNCHANGED <<tasks_tree, deadline_tree, runnable_count, current_thread, switching_from>>,
         pc'[c] \in {"sched", "enqueue", "queue_reap"},
         state' \in [Threads -> States], wakeup_ticks' \in [Threads -> BOOLEAN],
         \A d \in CpuIds \ {c}, t \in Threads : current_thread[d] = t =>
            wakeup_ticks'[t] = wakeup_ticks[t] /\ state'[t] \in {state[t], "DEAD"}
  PROVE  /\ DataTypes' /\ StackInv' /\ TasksInv' /\ DeadlinesInv' /\ ChoiceInv' /\ CountedInv'
         /\ WakeInv' /\ CurrentInv'
         /\ \A t \in Threads : Detached(t) /\ state[t] # "BLOCKED" => Detached(t)'
<1>1. DataTypes'
  BY DEF DataTypes, SchedInv, SchedTypeOK, reapVars
<1>2. /\ ~Choosing(c) /\ ~Choosing(c)' /\ pc[c] \notin Leaving /\ pc'[c] \notin Leaving
      /\ pc'[c] \notin Stealing /\ pc'[c] \notin Dispatching
  BY SMTT(30) DEF Choosing, Leaving, Stealing, Dispatching
<1>3. Steady(c)
  BY <1>2 DEF Steady, Storing
<1>4. CurrentOK(c)'
  BY <1>2 DEF CurrentOK
<1>5. Isolated(c)
  <2>1. "DEAD" # "BLOCKED"
    OBVIOUS
  <2>2. QED
    BY <2>1 DEF Isolated
<1>6. ChoiceInv' /\ CurrentInv'
  BY <1>3, <1>4, <1>5, SteadyInv, OthersKeep DEF SchedInv
<1>7. QED
  BY <1>1, <1>3, <1>6, SteadyInv

LEMMA BlockExitKill ==
  ASSUME SchedInv, NEW c \in CpuIds, Local(c), NEW t \in Threads,
         \/ \E b \in BOOLEAN : Block(c, b) /\ t = current_thread[c]
         \/ Exit(c) /\ t = current_thread[c]
         \/ Kill(c, t)
  PROVE  Rest'
<1>1. /\ SchedTypeOK /\ ReapInv /\ CreationInv /\ QueuedInv /\ LocalsInv
      /\ loc \in [CpuIds -> Locals] /\ state \in [Threads -> States]
      /\ wakeup_ticks \in [Threads -> BOOLEAN]
  BY DEF SchedInv, SchedTypeOK
<1>2. \A l : Goto(c, l) => pc'[c] = l
  BY <1>1, GotoAt
<1>3. /\ pc[c] = "run" /\ pc'[c] \in {"sched", "queue_reap"} /\ UNCHANGED reapVars
      /\ UNCHANGED <<cpu_index, on_cpu, on_rq, deadline_queued>>
      /\ UNCHANGED <<tasks_tree, deadline_tree, runnable_count, current_thread, switching_from>>
      /\ loc' = loc \/ loc' = [loc EXCEPT ![c].t = t]
  BY <1>2 DEF Block, Exit, Kill, rqVars, cpuVars
<1>4. \/ /\ state' = [state EXCEPT ![t] = "BLOCKED"] /\ current_thread[c] = t
         /\ \E b \in BOOLEAN : wakeup_ticks' = [wakeup_ticks EXCEPT ![t] = b]
      \/ state' = [state EXCEPT ![t] = "DEAD"] /\ UNCHANGED wakeup_ticks
  BY DEF Block, Exit, Kill
<1>5. state[t] # "NEW" /\ t \notin freed
  <2>1. CASE current_thread[c] = t
    BY <2>1, CurrentFacts, OnCpuKnown
  <2>2. QED
    BY <2>1 DEF Kill
<1>6. loc'[c].t = loc[c].t \/ loc'[c].t = t
  BY SMTT(30), <1>1, <1>3 DEF Locals
<1>7. /\ state' \in [Threads -> States] /\ wakeup_ticks' \in [Threads -> BOOLEAN]
  BY SMTT(30), <1>1, <1>4 DEF States
<1>8. /\ \A u \in Threads \ {t} : state'[u] = state[u] /\ wakeup_ticks'[u] = wakeup_ticks[u]
      /\ \/ state'[t] = "DEAD" /\ wakeup_ticks'[t] = wakeup_ticks[t]
         \/ state'[t] = "BLOCKED" /\ current_thread[c] = t
  BY SMTT(30), <1>1, <1>4
<1>9. \A d \in CpuIds \ {c}, u \in Threads : current_thread[d] = u =>
         wakeup_ticks'[u] = wakeup_ticks[u] /\ state'[u] \in {state[u], "DEAD"}
  <2>1. current_thread[c] = t => \A d \in CpuIds \ {c} : current_thread[d] # t
    BY CurrentFacts
  <2>2. QED
    BY <1>8, <2>1
<1>10. /\ DataTypes' /\ StackInv' /\ TasksInv' /\ DeadlinesInv' /\ ChoiceInv' /\ CountedInv'
       /\ WakeInv' /\ CurrentInv'
       /\ \A u \in Threads : Detached(u) /\ state[u] # "BLOCKED" => Detached(u)'
  BY <1>3, <1>7, <1>9, StateFrame
<1>11. KeepsDetached
  <2>1. current_thread[c] = t => ~Detached(t)
    BY CurrentFacts, OnCpuKnown
  <2>2. QED
    BY <1>5, <1>8, <1>10, <2>1 DEF KeepsDetached
<1>12. CreationInv'
  <2>1. \A u \in Threads : state'[u] = "NEW" => state[u] = "NEW"
    BY <1>8
  <2>2. pc[c] # "enqueue" /\ pc'[c] # "enqueue"
    BY <1>3
  <2>3. QED
    BY <1>1, <1>5, <1>6, <1>11, <2>1, <2>2, CreationFrame
<1>13. ReapInv'
  <2>1. loc[c].t = None
    BY <1>1, <1>3 DEF LocalsInv, LocalsOK, Plain
  <2>2. loc'[c].t \notin freed
    BY <1>1, <1>5, <1>6, <2>1, SchedConstants DEF SchedTypeOK
  <2>3. pc[c] \notin {"reap", "free"} /\ pc'[c] \notin {"reap", "free"}
    BY <1>3
  <2>4. QED
    BY <1>1, <1>3, <1>11, <2>2, <2>3, ReapingKept, ReapFrame
<1>14. QueuedInv'
  <2>1. \A u \in Threads : UnderCreation(u)' <=> UnderCreation(u)
    BY <1>3 DEF UnderCreation, Local
  <2>2. ASSUME NEW u \in Threads PROVE QueuedOK(u)'
    <3>1. CASE u = t
      BY <1>3, <1>8, <3>1 DEF QueuedOK
    <3>2. CASE u # t
      BY <1>1, <1>3, <1>8, <2>1, <3>2 DEF QueuedInv, QueuedOK
    <3>3. QED
      BY <3>1, <3>2
  <2>3. QED
    BY <2>2 DEF QueuedInv
<1>15. QED
  BY <1>10, <1>12, <1>13, <1>14 DEF Rest

LEMMA CreateRest ==
  ASSUME SchedInv, NEW c \in CpuIds, Local(c), NEW t \in Threads, Create(c, t)
  PROVE  Rest'
<1>1. /\ SchedTypeOK /\ ReapInv /\ CreationInv /\ QueuedInv
      /\ loc \in [CpuIds -> Locals] /\ state \in [Threads -> States]
  BY DEF SchedInv, SchedTypeOK
<1>2. /\ pc[c] = "run" /\ pc'[c] = "enqueue" /\ UNCHANGED reapVars
      /\ UNCHANGED <<cpu_index, on_cpu, on_rq, deadline_queued, wakeup_ticks>>
      /\ UNCHANGED <<tasks_tree, deadline_tree, runnable_count, current_thread, switching_from>>
      /\ \E k \in CpuIds : loc' = [loc EXCEPT ![c].t = t, ![c].target = k]
      /\ state' = [state EXCEPT ![t] = "READY"] /\ state[t] = "NEW"
  BY <1>1, GotoAt DEF Create, rqVars, cpuVars
<1>3. /\ Detached(t) /\ \A d \in CpuIds : loc[d].t # t
      /\ ~UnderCreation(t)
  BY <1>1, <1>2 DEF CreationInv, CreationOK, UnderCreation
<1>4. loc'[c].t = t
  BY SMTT(30), <1>1, <1>2 DEF Locals
<1>5. /\ state' \in [Threads -> States] /\ state'[t] = "READY"
      /\ \A u \in Threads \ {t} : state'[u] = state[u]
  BY SMTT(30), <1>1, <1>2 DEF States
<1>6. \A d \in CpuIds : current_thread[d] # t
  BY <1>3, CurrentFacts DEF Detached
<1>7. wakeup_ticks' \in [Threads -> BOOLEAN]
  BY <1>1, <1>2 DEF SchedTypeOK
<1>8. /\ DataTypes' /\ StackInv' /\ TasksInv' /\ DeadlinesInv' /\ ChoiceInv' /\ CountedInv'
      /\ WakeInv' /\ CurrentInv'
      /\ \A u \in Threads : Detached(u) /\ state[u] # "BLOCKED" => Detached(u)'
  <2>1. \A d \in CpuIds \ {c}, u \in Threads : current_thread[d] = u =>
            wakeup_ticks'[u] = wakeup_ticks[u] /\ state'[u] \in {state[u], "DEAD"}
    BY <1>2, <1>5, <1>6
  <2>2. QED
    BY <1>2, <1>5, <1>7, <2>1, StateFrame
<1>9. Detached(t)'
  BY <1>2, <1>3, <1>8
<1>10. \A u \in Threads \ {t} : UnderCreation(u)' <=> UnderCreation(u)
  BY <1>2, <1>4 DEF UnderCreation, Local
<1>11. CreationInv'
  <2>1. ASSUME NEW u \in Threads \ {t} PROVE CreationOK(u)'
    <3>1. CreationOK(u)
      BY <1>1 DEF CreationInv
    <3>2. state'[u] = "NEW" => Detached(u)' /\ \A d \in CpuIds : loc'[d].t # u
      BY <1>4, <1>5, <1>8, <3>1 DEF CreationOK, Local
    <3>3. UnderCreation(u)' => Detached(u)' /\ state'[u] \in {"READY", "DEAD"}
      BY <1>5, <1>8, <1>10, <3>1 DEF CreationOK
    <3>4. \A d, e \in CpuIds : pc'[d] = "enqueue" /\ pc'[e] = "enqueue"
                                 /\ loc'[d].t = u /\ loc'[e].t = u => d = e
      BY <1>4, <3>1 DEF CreationOK, Local
    <3>5. QED
      BY <3>2, <3>3, <3>4 DEF CreationOK
  <2>2. CreationOK(t)'
    <3>1. \A d \in CpuIds : loc'[d].t = t => d = c
      BY <1>3 DEF Local
    <3>2. QED
      BY <1>5, <1>9, <3>1 DEF CreationOK
  <2>3. QED
    BY <2>1, <2>2 DEF CreationInv
<1>12. ReapInv'
  <2>1. ASSUME NEW u \in Threads, Reaping(u) PROVE Detached(u)' /\ state'[u] = "DEAD"
    BY <1>1, <1>2, <1>5, <1>8, <2>1 DEF ReapInv
  <2>2. pc[c] \notin {"reap", "free"} /\ pc'[c] \notin {"reap", "free"}
    BY <1>2
  <2>3. QED
    BY <1>1, <1>2, <2>1, <2>2, ReapFrame
<1>13. QueuedInv'
  <2>1. UnderCreation(t)'
    BY <1>2, <1>4 DEF UnderCreation
  <2>2. QueuedOK(t)'
    BY <1>5, <2>1 DEF QueuedOK
  <2>3. \A u \in Threads \ {t} : QueuedOK(u)'
    BY <1>1, <1>2, <1>5, <1>10 DEF QueuedInv, QueuedOK
  <2>4. QED
    BY <2>2, <2>3 DEF QueuedInv
<1>14. QED
  BY <1>8, <1>11, <1>12, <1>13 DEF Rest

-----------------------------------------------------------------------------
(* The reaper's bookkeeping *)

LEMMA WorkerStep ==
  ASSUME SchedTypeOK, ReapInv, NEW c \in CpuIds, Local(c),
         \/ /\ UNCHANGED reap_worker_lock
            /\ pc'[c] \in {"reap", "free"} <=> pc[c] \in {"reap", "free"}
         \/ reap_worker_lock = None /\ reap_worker_lock' = c /\ pc'[c] \in {"reap", "free"}
         \/ /\ pc[c] \in {"reap", "free"} /\ pc'[c] \notin {"reap", "free"}
            /\ reap_worker_lock' = None
  PROVE  /\ \A d \in CpuIds : reap_worker_lock' = d <=> pc'[d] \in {"reap", "free"}
         /\ reap_worker_lock' \in CpuIds \cup {None}
<1>1. /\ \A d \in CpuIds : reap_worker_lock = d <=> pc[d] \in {"reap", "free"}
      /\ reap_worker_lock \in CpuIds \cup {None} /\ None \notin CpuIds
  BY SchedConstants DEF ReapInv, SchedTypeOK
<1>2. \A d \in CpuIds \ {c} : pc'[d] = pc[d]
  BY DEF Local
<1>3. CASE /\ UNCHANGED reap_worker_lock
           /\ pc'[c] \in {"reap", "free"} <=> pc[c] \in {"reap", "free"}
  BY <1>1, <1>2, <1>3
<1>4. CASE reap_worker_lock = None /\ reap_worker_lock' = c /\ pc'[c] \in {"reap", "free"}
  BY <1>1, <1>2, <1>4
<1>5. CASE /\ pc[c] \in {"reap", "free"} /\ pc'[c] \notin {"reap", "free"}
           /\ reap_worker_lock' = None
  BY <1>1, <1>2, <1>5
<1>6. QED
  BY <1>3, <1>4, <1>5

LEMMA PointersKept ==
  ASSUME ReapInv, NEW c \in CpuIds, Local(c), UNCHANGED freed, loc'[c].t \notin freed
  PROVE  \A t \in freed', d \in CpuIds : loc'[d].t = t => pc'[d] = "enqueue"
<1>1. ASSUME NEW t \in freed, NEW d \in CpuIds, loc'[d].t = t PROVE pc'[d] = "enqueue"
  <2>1. d # c
    BY <1>1
  <2>2. loc[d].t = t /\ pc'[d] = pc[d]
    BY <1>1, <2>1 DEF Local
  <2>3. QED
    BY <2>2 DEF ReapInv
<1>2. QED
  BY <1>1

\* Pointers of other CPUs: the last CPU to know an unlinked thread is its creator.
LEMMA OnlyCreatorKnows ==
  ASSUME SchedInv, NEW c \in CpuIds, NEW t \in Threads, pc[c] = "free", loc[c].t = t,
         ~TidLocked, ~Pinned(t), NEW d \in CpuIds \ {c}, loc[d].t = t
  PROVE  pc[d] = "enqueue"
<1>1. /\ SchedTypeOK /\ LocalsOK(d) /\ StackInv /\ TasksInv /\ ChoiceOK(d) /\ ReapInv
      /\ pc[d] \in Labels
  BY DEF SchedInv, LocalsInv, ChoiceInv, SchedTypeOK
<1>2. ~on_rq[t] /\ ~on_cpu[t]
  BY <1>1 DEF ReapInv, Reaping, Detached
<1>3. pc[d] # "free"
  BY <1>1 DEF ReapInv
<1>4. pc[d] # "queue_reap" /\ pc[d] \notin Waking
  BY DEF TidLocked, Pinned, Waking
<1>5. pc[d] \notin Leaving
  BY <1>1, <1>2 DEF StackInv, Occupies
<1>6. pc[d] # "commit"
  <2>1. t # Idle /\ t \notin tasks_tree[d]
    BY <1>1, <1>2, SchedConstants DEF TasksInv
  <2>2. QED
    BY <1>1, <2>1 DEF ChoiceOK
<1>7. pc[d] \notin Plain \cup Stealing
  BY <1>1, SchedConstants DEF LocalsOK
<1>8. QED
  BY SMTT(30), <1>1, <1>3, <1>4, <1>5, <1>6, <1>7 DEF Labels, Waking, Leaving, Plain, Stealing

LEMMA ReaperQuiet ==
  ASSUME SchedInv, NEW c \in CpuIds, Local(c), ReapInv',
         UNCHANGED <<state, wakeup_ticks, cpu_index, on_cpu, on_rq, deadline_queued>>,
         UNCHANGED <<tasks_tree, deadline_tree, runnable_count, current_thread, switching_from>>,
         pc[c] \in {"queue_reap", "sched", "reap", "free"},
         pc'[c] \in {"run", "sched", "reap", "lock"},
         loc'[c].t = None \/ loc'[c].t = loc[c].t,
         reap_queue' \subseteq Threads, reap_queued' \subseteq Threads, freed' \subseteq Threads,
         reap_worker_lock' \in CpuIds \cup {None}
  PROVE  Rest'
<1>1. /\ ~Choosing(c) /\ ~Choosing(c)' /\ pc[c] \notin Leaving /\ pc'[c] \notin Leaving
      /\ pc'[c] \notin Stealing /\ pc'[c] \notin Dispatching
  BY SMTT(30) DEF Choosing, Leaving, Stealing, Dispatching
<1>2. Steady(c)
  BY <1>1 DEF Steady, Storing
<1>3. \A t \in Threads : loc'[c].t = t => loc[c].t = t
  BY SchedConstants
<1>4. Quiet(c)
  BY <1>1, <1>2, <1>3 DEF Quiet
<1>5. DataTypes'
  BY DEF DataTypes, SchedInv, SchedTypeOK
<1>6. QED
  BY <1>4, <1>5, QuietInv DEF Rest

\* Unlinking an unlinked thread does nothing.
LEMMA DetachedNoOp ==
  ASSUME NEW t, NEW k, ~on_rq[t], ~deadline_queued[t],
         Dequeue(t, k), sched_deadline_remove_locked(t, k)
  PROVE  UNCHANGED <<tasks_tree, on_rq, runnable_count, deadline_tree, deadline_queued>>
<1>1. QED
  BY DEF Dequeue, sched_deadline_remove_locked

LEMMA ReaperSteps ==
  ASSUME SchedInv, NEW c \in CpuIds, Local(c),
         sched_queue_reap(c) \/ ReapStart(c) \/ ReapDone(c) \/ sched_reap_thread(c)
  PROVE  Rest'
<1> DEFINE Same ==
      /\ UNCHANGED <<state, wakeup_ticks, cpu_index, on_cpu, on_rq, deadline_queued>>
      /\ UNCHANGED <<tasks_tree, deadline_tree, runnable_count, current_thread, switching_from>>
<1>1. /\ SchedTypeOK /\ LocalsInv /\ ReapInv /\ loc \in [CpuIds -> Locals]
      /\ reap_queue \subseteq Threads /\ reap_queued \subseteq Threads /\ freed \subseteq Threads
      /\ reap_worker_lock \in CpuIds \cup {None} /\ None \notin Threads /\ None \notin freed
  BY SchedConstants DEF SchedInv, SchedTypeOK
<1>2. \A l : Goto(c, l) => pc'[c] = l
  BY <1>1, GotoAt
<1>3. /\ loc' = [loc EXCEPT ![c] = NoLocals] => loc'[c].t = None
      /\ \A s : loc' = [loc EXCEPT ![c].todo = s] => loc'[c].t = loc[c].t /\ loc'[c].todo = s
      /\ \A s : loc' = [loc EXCEPT ![c].t = None, ![c].todo = s] => loc'[c].t = None /\ loc'[c].todo = s
  BY SMTT(30), <1>1 DEF Locals, NoLocals
<1>4. Same => \A t \in Threads : Detached(t) /\ state[t] = "DEAD" /\ (\A d \in CpuIds : ~Storing(d, t)')
                                   => Detached(t)'
  BY DEF Detached
<1>5. pc'[c] # "wakestore" => \A t \in Threads : Detached(t) => \A d \in CpuIds : ~Storing(d, t)'
  BY DEF Detached, Storing, Local
<1>6. Same /\ pc'[c] # "wakestore" =>
        \A t \in Threads : Reaping(t) => Detached(t)' /\ state'[t] = "DEAD"
  BY <1>1, <1>4, <1>5 DEF ReapInv
\* The parts of ReapInv that only concern where pointers are.
<1>7. CASE sched_queue_reap(c)
  <2>1. /\ Same /\ pc[c] = "queue_reap" /\ pc'[c] \in {"sched", "run"} /\ loc'[c].t = None
        /\ reap_queued' = reap_queued \cup {loc[c].t}
        /\ reap_queue' = IF loc[c].t \in reap_queued THEN reap_queue ELSE reap_queue \cup {loc[c].t}
        /\ UNCHANGED <<reap_worker_lock, freed>>
    BY <1>2, <1>3, <1>7 DEF sched_queue_reap, threadVars, rqVars, cpuVars
  <2>2. loc[c].t \in Threads
    BY <1>1, <2>1 DEF LocalsInv, LocalsOK
  <2>3. \A d \in CpuIds : reap_worker_lock' = d <=> pc'[d] \in {"reap", "free"}
    BY <1>1, <2>1, WorkerStep
  <2>4. \A d \in CpuIds : pc'[d] = "reap" => loc'[d].todo \subseteq reap_queue'
    BY <1>1, <2>1 DEF ReapInv, Local
  <2>5. \A t \in Threads : Reaping(t)' => Reaping(t)
    BY <2>1 DEF Reaping, Local
  <2>6. reap_queue' \subseteq reap_queued'
    BY <1>1, <2>1 DEF ReapInv
  <2>7. ASSUME NEW t \in Threads, Reaping(t)'
        PROVE  Detached(t)' /\ state'[t] = "DEAD" /\ t \in reap_queued' /\ t \notin reap_queue'
    <3>1. Reaping(t) /\ t \in reap_queued /\ t \notin reap_queue
      BY <1>1, <2>5, <2>7 DEF ReapInv
    <3>2. QED
      BY <1>6, <2>1, <3>1
  <2>8. \A t \in freed', d \in CpuIds : loc'[d].t = t => pc'[d] = "enqueue"
    BY <1>1, <2>1, PointersKept
  <2>9. ReapInv'
    BY <2>3, <2>4, <2>6, <2>7, <2>8 DEF ReapInv
  <2>10. reap_queue' \subseteq Threads /\ reap_queued' \subseteq Threads
    BY <1>1, <2>1, <2>2
  <2>11. QED
    BY <1>1, <2>1, <2>9, <2>10, ReaperQuiet
<1>8. CASE ReapStart(c)
  <2>1. /\ Same /\ pc[c] = "sched" /\ pc'[c] = "reap" /\ loc'[c].t = loc[c].t
        /\ loc'[c].todo = reap_queue \ {current_thread[c]}
        /\ UNCHANGED <<reap_queue, reap_queued, freed>>
        /\ reap_worker_lock = None /\ reap_worker_lock' = c
    BY <1>2, <1>3, <1>8 DEF ReapStart, threadVars, rqVars, cpuVars
  <2>2. loc[c].t = None
    BY <1>1, <2>1 DEF LocalsInv, LocalsOK, Plain
  <2>3. \A d \in CpuIds : reap_worker_lock' = d <=> pc'[d] \in {"reap", "free"}
    BY <1>1, <2>1, WorkerStep
  <2>4. \A d \in CpuIds : pc'[d] = "reap" => loc'[d].todo \subseteq reap_queue'
    BY <1>1, <2>1 DEF ReapInv, Local
  <2>5. \A t \in Threads : Reaping(t)' => Reaping(t)
    BY <2>1 DEF Reaping, Local
  <2>6. reap_queue' \subseteq reap_queued'
    BY <1>1, <2>1 DEF ReapInv
  <2>7. ASSUME NEW t \in Threads, Reaping(t)'
        PROVE  Detached(t)' /\ state'[t] = "DEAD" /\ t \in reap_queued' /\ t \notin reap_queue'
    <3>1. Reaping(t) /\ t \in reap_queued /\ t \notin reap_queue
      BY <1>1, <2>5, <2>7 DEF ReapInv
    <3>2. QED
      BY <1>6, <2>1, <3>1
  <2>8. \A t \in freed', d \in CpuIds : loc'[d].t = t => pc'[d] = "enqueue"
    BY <1>1, <2>1, <2>2, PointersKept
  <2>9. ReapInv'
    BY <2>3, <2>4, <2>6, <2>7, <2>8 DEF ReapInv
  <2>10. QED
    BY <1>1, <2>1, <2>9, ReaperQuiet
<1>9. CASE ReapDone(c)
  <2>1. /\ Same /\ pc[c] = "reap" /\ pc'[c] = "lock" /\ loc' = loc
        /\ UNCHANGED <<reap_queue, reap_queued, freed>> /\ reap_worker_lock' = None
    BY <1>2, <1>9 DEF ReapDone, threadVars, rqVars, cpuVars
  <2>2. loc[c].t = None
    BY <1>1, <2>1 DEF LocalsInv, LocalsOK, Plain
  <2>3. \A d \in CpuIds : reap_worker_lock' = d <=> pc'[d] \in {"reap", "free"}
    BY <1>1, <2>1, WorkerStep
  <2>4. \A d \in CpuIds : pc'[d] = "reap" => loc'[d].todo \subseteq reap_queue'
    BY <1>1, <2>1 DEF ReapInv, Local
  <2>5. \A t \in Threads : Reaping(t)' => Reaping(t)
    BY <2>1 DEF Reaping, Local
  <2>6. reap_queue' \subseteq reap_queued'
    BY <1>1, <2>1 DEF ReapInv
  <2>7. ASSUME NEW t \in Threads, Reaping(t)'
        PROVE  Detached(t)' /\ state'[t] = "DEAD" /\ t \in reap_queued' /\ t \notin reap_queue'
    <3>1. Reaping(t) /\ t \in reap_queued /\ t \notin reap_queue
      BY <1>1, <2>5, <2>7 DEF ReapInv
    <3>2. QED
      BY <1>6, <2>1, <3>1
  <2>8. \A t \in freed', d \in CpuIds : loc'[d].t = t => pc'[d] = "enqueue"
    BY <1>1, <2>1, <2>2, PointersKept
  <2>9. ReapInv'
    BY <2>3, <2>4, <2>6, <2>7, <2>8 DEF ReapInv
  <2>10. QED
    BY <1>1, <2>1, <2>9, ReaperQuiet
<1>10. CASE sched_reap_thread(c)
  <2>1. PICK t \in Threads : loc[c].t = t /\ pc[c] = "free" /\ Reaping(t)
    BY <1>1, <1>10 DEF sched_reap_thread, LocalsInv, LocalsOK, Reaping
  <2>2. /\ ~on_rq[t] /\ ~deadline_queued[t] /\ t \in reap_queued /\ t \notin freed
        /\ reap_worker_lock = c
    BY <1>1, <2>1 DEF ReapInv, Detached
  <2>3. \A d \in CpuIds \ {c} : pc[d] # "free" /\ pc[d] # "reap"
    BY <1>1, <2>2 DEF ReapInv
  \* A pinned thread is put back.
  <2>4. CASE /\ reap_queue' = reap_queue \cup {t} /\ reap_worker_lock' = None
             /\ loc' = [loc EXCEPT ![c].t = None, ![c].todo = {}] /\ Goto(c, "lock")
             /\ UNCHANGED <<freed, on_rq, deadline_queued, rqVars>>
    <3>1. /\ Same /\ pc'[c] = "lock" /\ loc'[c].t = None /\ UNCHANGED reap_queued
      BY <1>2, <1>3, <1>10, <2>4 DEF sched_reap_thread, rqVars, cpuVars
    <3>2. \A d \in CpuIds : reap_worker_lock' = d <=> pc'[d] \in {"reap", "free"}
      BY <1>1, <2>1, <2>4, <3>1, WorkerStep
    <3>3. \A d \in CpuIds : pc'[d] = "reap" => loc'[d].todo \subseteq reap_queue'
      BY <2>3, <3>1 DEF Local
    <3>4. \A u \in Threads : Reaping(u)' => u \in freed
      BY <2>3, <2>4, <3>1 DEF Reaping, Local
    <3>5. ASSUME NEW u \in Threads, Reaping(u)'
          PROVE  Detached(u)' /\ state'[u] = "DEAD" /\ u \in reap_queued' /\ u \notin reap_queue'
      <4>1. u \in freed /\ Reaping(u) /\ u # t
        BY <2>2, <3>4, <3>5 DEF Reaping
      <4>2. QED
        BY <1>1, <1>6, <2>4, <3>1, <4>1 DEF ReapInv
    <3>6. \A u \in freed', d \in CpuIds : loc'[d].t = u => pc'[d] = "enqueue"
      BY <1>1, <2>4, <3>1, PointersKept
    <3>7. reap_queue' \subseteq reap_queued' /\ reap_queue' \subseteq Threads
      BY <1>1, <2>2, <2>4, <3>1 DEF ReapInv
    <3>8. ReapInv'
      BY <3>2, <3>3, <3>5, <3>6, <3>7 DEF ReapInv
    <3>9. QED
      BY <1>1, <2>1, <2>4, <3>1, <3>7, <3>8, ReaperQuiet
  \* Otherwise it is freed.
  <2>5. CASE /\ ~Pinned(t) /\ freed' = freed \cup {t}
             /\ Dequeue(t, cpu_index[t]) /\ sched_deadline_remove_locked(t, cpu_index[t])
             /\ loc' = [loc EXCEPT ![c].t = None, ![c].todo = reap_queue \ {current_thread[c]}]
             /\ Goto(c, "reap") /\ UNCHANGED <<reap_queue, reap_worker_lock>>
    <3>1. UNCHANGED <<tasks_tree, on_rq, runnable_count, deadline_tree, deadline_queued>>
      BY <2>2, <2>5, DetachedNoOp
    <3>2. /\ Same /\ pc'[c] = "reap" /\ loc'[c].t = None /\ UNCHANGED reap_queued
          /\ loc'[c].todo = reap_queue \ {current_thread[c]} /\ ~TidLocked
      BY <1>2, <1>3, <1>10, <2>5, <3>1 DEF sched_reap_thread, cpuVars
    <3>3. \A d \in CpuIds : reap_worker_lock' = d <=> pc'[d] \in {"reap", "free"}
      BY <1>1, <2>1, <2>5, <3>2, WorkerStep
    <3>4. \A d \in CpuIds : pc'[d] = "reap" => loc'[d].todo \subseteq reap_queue'
      BY <2>3, <2>5, <3>2 DEF Local
    <3>5. \A u \in Threads : Reaping(u)' => Reaping(u)
      BY <2>1, <2>3, <2>5, <3>2 DEF Reaping, Local
    <3>6. ASSUME NEW u \in Threads, Reaping(u)'
          PROVE  Detached(u)' /\ state'[u] = "DEAD" /\ u \in reap_queued' /\ u \notin reap_queue'
      <4>1. Reaping(u) /\ u \in reap_queued /\ u \notin reap_queue
        BY <1>1, <3>5, <3>6 DEF ReapInv
      <4>2. QED
        BY <1>6, <2>5, <3>2, <4>1
    <3>7. ASSUME NEW u \in freed', NEW d \in CpuIds, loc'[d].t = u PROVE pc'[d] = "enqueue"
      <4>0. u \in Threads
        BY <1>1, <2>5
      <4>1. d # c
        BY <1>1, <3>2, <3>7, <4>0
      <4>2. loc[d].t = u /\ pc'[d] = pc[d]
        BY <3>7, <4>1 DEF Local
      <4>3. CASE u = t
        BY <2>1, <2>5, <3>2, <4>1, <4>2, <4>3, OnlyCreatorKnows
      <4>4. CASE u \in freed
        BY <1>1, <4>2, <4>4 DEF ReapInv
      <4>5. QED
        BY <2>5, <4>3, <4>4
    <3>8. reap_queue' \subseteq reap_queued'
      BY <1>1, <2>5, <3>2 DEF ReapInv
    <3>9. ReapInv'
      BY <3>3, <3>4, <3>6, <3>7, <3>8 DEF ReapInv
    <3>10. QED
      BY <1>1, <2>1, <2>5, <3>2, <3>9, ReaperQuiet
  <2>6. QED
    BY <1>10, <2>1, <2>4, <2>5 DEF sched_reap_thread
<1>11. QED
  BY <1>7, <1>8, <1>9, <1>10

\* Steps of the reaper, the stealer and the waker that find nothing to do.
LEMMA VainSteps ==
  ASSUME SchedInv, NEW c \in CpuIds, Local(c),
         UNCHANGED <<state, wakeup_ticks, cpu_index, on_cpu, on_rq, deadline_queued>>,
         UNCHANGED <<tasks_tree, deadline_tree, runnable_count, current_thread, switching_from>>,
         UNCHANGED reapVars,
         \/ pc[c] = "steal2" /\ pc'[c] = "relock"
         \/ pc[c] = "relock" /\ pc'[c] \in {"run", "sched", "put"}
         \/ pc[c] = "wakestore" /\ pc'[c] = "run",
         loc'[c].t = None \/ loc'[c].t = loc[c].t
  PROVE  Rest'
<1>1. /\ ~Choosing(c) /\ ~Choosing(c)' /\ pc[c] \notin Leaving /\ pc'[c] \notin Leaving
      /\ pc'[c] \in Stealing => pc[c] \in Stealing
      /\ pc'[c] \in Dispatching => pc[c] \in Stealing
      /\ pc[c] \notin {"reap", "free", "enqueue"} /\ pc'[c] \notin {"reap", "free", "enqueue"}
      /\ pc'[c] # "commit" /\ pc'[c] # "wakestore"
  BY SMTT(30) DEF Choosing, Leaving, Stealing, Dispatching
<1>2. Steady(c)
  BY <1>1 DEF Steady, Storing
<1>3. \A t \in Threads : loc'[c].t = t => loc[c].t = t
  BY SchedConstants
<1>4. Quiet(c)
  BY <1>1, <1>2, <1>3 DEF Quiet
<1>5. QED
  BY <1>1, <1>4, QuietRest

-----------------------------------------------------------------------------
(* What a queue lock excludes *)

\* While c holds the queue_lock of k, or nobody does, k does not dispatch and
\* no other CPU is about to store the state of a thread of k.
LEMMA Excluded ==
  ASSUME SchedInv, NEW c \in CpuIds, NEW k \in CpuIds, queue_lock[k] \in {None, c}
  PROVE  /\ k # c => pc[k] \notin Dispatching
         /\ \A d \in CpuIds \ {c}, t \in Threads : Storing(d, t) => cpu_index[t] # k
<1>1. \A d \in CpuIds \ {c} : k \notin Holding(d)
  <2>1. \A d \in CpuIds \ {c} : queue_lock[k] # d
    BY SchedConstants
  <2>2. \A d \in CpuIds : k \in Holding(d) => queue_lock[k] = d
    BY DEF SchedInv, LockInv
  <2>3. QED
    BY <2>1, <2>2
<1>2. \A d \in CpuIds : Holds(d)
  BY HoldingCases
<1>3. k # c => pc[k] \notin Dispatching
  BY <1>1, <1>2 DEF Holds
<1>4. ASSUME NEW d \in CpuIds \ {c}, NEW t \in Threads, Storing(d, t) PROVE cpu_index[t] # k
  <2>1. cpu_index[t] = loc[d].prev
    BY <1>4 DEF SchedInv, WakeInv
  <2>2. loc[d].prev \in Holding(d)
    BY <1>2, <1>4 DEF Holds, Storing
  <2>3. QED
    BY <1>1, <2>1, <2>2
<1>5. QED
  BY <1>3, <1>4

-----------------------------------------------------------------------------
(* Linking and unlinking one thread *)

\* How sets of threads are counted; Threads is finite.  The lemmas that count
\* say that they need it, and SchedCoreProofs proves it once.
ThreadsCounted ==
  /\ \A S \in SUBSET Threads : Cardinality(S) \in Nat
  /\ \A S \in SUBSET Threads : \A t \in Threads \ S : Cardinality(S \cup {t}) = Cardinality(S) + 1
  /\ \A S \in SUBSET Threads : \A t \in S : Cardinality(S \ {t}) = Cardinality(S) - 1
  /\ \A S, T \in SUBSET Threads :
       S \cap T = {} => Cardinality(S \cup T) = Cardinality(S) + Cardinality(T)

LEMMA OneMore ==
  ASSUME ThreadsCounted, NEW S \in SUBSET Threads, NEW t \in Threads, t \notin S
  PROVE  Cardinality(S \cup {t}) = Cardinality(S) + 1
<1>1. t \in Threads \ S
  OBVIOUS
<1>2. QED
  BY <1>1 DEF ThreadsCounted

LEMMA TreesFinite ==
  ASSUME ThreadsCounted, SchedTypeOK
  PROVE  \A d \in CpuIds : Cardinality(tasks_tree[d]) \in Nat /\ tasks_tree[d] \in SUBSET Threads
<1>1. \A d \in CpuIds : tasks_tree[d] \in SUBSET Threads
  BY DEF SchedTypeOK
<1>2. QED
  BY <1>1 DEF ThreadsCounted

LEMMA Link ==
  ASSUME ThreadsCounted, SchedInv, NEW t \in Threads, NEW k \in CpuIds, ~on_rq[t],
         tasks_tree' = [tasks_tree EXCEPT ![k] = @ \cup {t}],
         on_rq' = [on_rq EXCEPT ![t] = TRUE],
         cpu_index' = [cpu_index EXCEPT ![t] = k]
  PROVE  /\ tasks_tree' \in [CpuIds -> SUBSET Threads] /\ on_rq' \in [Threads -> BOOLEAN]
         /\ cpu_index' \in [Threads -> CpuIds] /\ TasksInv'
         /\ on_rq'[t] /\ cpu_index'[t] = k
         /\ \A u \in Threads \ {t} : on_rq'[u] = on_rq[u] /\ cpu_index'[u] = cpu_index[u]
         /\ tasks_tree'[k] = tasks_tree[k] \cup {t} /\ t \notin tasks_tree[k]
         /\ \A d \in CpuIds \ {k} : tasks_tree'[d] = tasks_tree[d]
         /\ Cardinality(tasks_tree'[k]) = Cardinality(tasks_tree[k]) + 1
<1>1. /\ SchedTypeOK /\ tasks_tree \in [CpuIds -> SUBSET Threads]
      /\ on_rq \in [Threads -> BOOLEAN] /\ cpu_index \in [Threads -> CpuIds]
  BY DEF SchedInv, SchedTypeOK
<1>2. /\ tasks_tree'[k] = tasks_tree[k] \cup {t}
      /\ \A d \in CpuIds \ {k} : tasks_tree'[d] = tasks_tree[d]
      /\ on_rq'[t] /\ cpu_index'[t] = k
      /\ \A u \in Threads \ {t} : on_rq'[u] = on_rq[u] /\ cpu_index'[u] = cpu_index[u]
  BY <1>1
<1>3. \A d \in CpuIds : t \notin tasks_tree[d]
  BY DEF SchedInv, TasksInv
<1>4. /\ tasks_tree' \in [CpuIds -> SUBSET Threads] /\ on_rq' \in [Threads -> BOOLEAN]
      /\ cpu_index' \in [Threads -> CpuIds]
  BY SMTT(30), <1>1
<1>5. Cardinality(tasks_tree'[k]) = Cardinality(tasks_tree[k]) + 1
  <2>1. tasks_tree[k] \in SUBSET Threads
    BY <1>1, TreesFinite
  <2>2. Cardinality(tasks_tree[k] \cup {t}) = Cardinality(tasks_tree[k]) + 1
    BY <1>3, <2>1, OneMore
  <2>3. QED
    BY <1>2, <2>2
<1>6. TasksInv'
  <2>1. ASSUME NEW u \in Threads, NEW d \in CpuIds
        PROVE  u \in tasks_tree'[d] <=> on_rq'[u] /\ cpu_index'[u] = d
    <3>1. CASE u = t
      BY <1>2, <1>3, <3>1
    <3>2. CASE u # t
      <4>1. u \in tasks_tree[d] <=> on_rq[u] /\ cpu_index[u] = d
        BY DEF SchedInv, TasksInv
      <4>2. u \in tasks_tree'[d] <=> u \in tasks_tree[d]
        BY <1>2, <3>2
      <4>3. QED
        BY <1>2, <3>2, <4>1, <4>2
    <3>3. QED
      BY <3>1, <3>2
  <2>2. QED
    BY <2>1 DEF TasksInv
<1>7. QED
  BY <1>2, <1>3, <1>4, <1>5, <1>6

LEMMA Unlink ==
  ASSUME ThreadsCounted, SchedInv, NEW t \in Threads, NEW k \in CpuIds, on_rq[t], cpu_index[t] = k,
         tasks_tree' = [tasks_tree EXCEPT ![k] = @ \ {t}],
         on_rq' = [on_rq EXCEPT ![t] = FALSE]
  PROVE  /\ tasks_tree' \in [CpuIds -> SUBSET Threads] /\ on_rq' \in [Threads -> BOOLEAN]
         /\ UNCHANGED cpu_index => TasksInv'
         /\ ~on_rq'[t]
         /\ \A u \in Threads \ {t} : on_rq'[u] = on_rq[u]
         /\ tasks_tree'[k] = tasks_tree[k] \ {t} /\ t \in tasks_tree[k]
         /\ \A d \in CpuIds \ {k} : tasks_tree'[d] = tasks_tree[d]
         /\ Cardinality(tasks_tree'[k]) = Cardinality(tasks_tree[k]) - 1
         /\ Cardinality(tasks_tree'[k]) \in Nat
<1>1. /\ SchedTypeOK /\ tasks_tree \in [CpuIds -> SUBSET Threads] /\ on_rq \in [Threads -> BOOLEAN]
  BY DEF SchedInv, SchedTypeOK
<1>2. /\ tasks_tree'[k] = tasks_tree[k] \ {t}
      /\ \A d \in CpuIds \ {k} : tasks_tree'[d] = tasks_tree[d]
      /\ ~on_rq'[t]
      /\ \A u \in Threads \ {t} : on_rq'[u] = on_rq[u]
  BY <1>1
<1>3. t \in tasks_tree[k] /\ \A d \in CpuIds \ {k} : t \notin tasks_tree[d]
  BY DEF SchedInv, TasksInv
<1>4. /\ tasks_tree' \in [CpuIds -> SUBSET Threads] /\ on_rq' \in [Threads -> BOOLEAN]
  BY SMTT(30), <1>1
<1>5. /\ Cardinality(tasks_tree'[k]) = Cardinality(tasks_tree[k]) - 1
      /\ Cardinality(tasks_tree'[k]) \in Nat
  <2>1. tasks_tree[k] \in SUBSET Threads /\ tasks_tree[k] \ {t} \in SUBSET Threads
    BY <1>1, TreesFinite
  <2>2. QED
    BY <1>2, <1>3, <2>1 DEF ThreadsCounted
<1>6. ASSUME UNCHANGED cpu_index PROVE TasksInv'
  <2>1. ASSUME NEW u \in Threads, NEW d \in CpuIds
        PROVE  u \in tasks_tree'[d] <=> on_rq'[u] /\ cpu_index'[u] = d
    <3>1. CASE u = t
      BY <1>2, <1>3, <1>6, <3>1
    <3>2. CASE u # t
      <4>1. u \in tasks_tree[d] <=> on_rq[u] /\ cpu_index[u] = d
        BY DEF SchedInv, TasksInv
      <4>2. u \in tasks_tree'[d] <=> u \in tasks_tree[d]
        BY <1>2, <3>2
      <4>3. QED
        BY <1>2, <1>6, <3>2, <4>1, <4>2
    <3>3. QED
      BY <3>1, <3>2
  <2>2. QED
    BY <2>1 DEF TasksInv
<1>7. QED
  BY <1>2, <1>3, <1>4, <1>5, <1>6

LEMMA Unarm ==
  ASSUME SchedInv, NEW t \in Threads, NEW k \in CpuIds, cpu_index[t] = k,
         sched_deadline_remove_locked(t, k)
  PROVE  /\ deadline_tree' \in [CpuIds -> SUBSET Threads] /\ deadline_queued' \in [Threads -> BOOLEAN]
         /\ ~deadline_queued'[t]
         /\ \A u \in Threads \ {t} : deadline_queued'[u] = deadline_queued[u]
         /\ (\A u \in Threads : deadline_queued'[u] => cpu_index'[u] = cpu_index[u]) => DeadlinesInv'
<1>1. /\ deadline_tree \in [CpuIds -> SUBSET Threads] /\ deadline_queued \in [Threads -> BOOLEAN]
  BY DEF SchedInv, SchedTypeOK
<1>2. CASE deadline_queued[t]
  <2>1. /\ deadline_tree' = [deadline_tree EXCEPT ![k] = @ \ {t}]
        /\ deadline_queued' = [deadline_queued EXCEPT ![t] = FALSE]
    BY <1>2 DEF sched_deadline_remove_locked
  <2>2. /\ deadline_tree'[k] = deadline_tree[k] \ {t} /\ ~deadline_queued'[t]
        /\ \A d \in CpuIds \ {k} : deadline_tree'[d] = deadline_tree[d]
        /\ \A u \in Threads \ {t} : deadline_queued'[u] = deadline_queued[u]
    BY <1>1, <2>1
  <2>3. /\ deadline_tree' \in [CpuIds -> SUBSET Threads] /\ deadline_queued' \in [Threads -> BOOLEAN]
    BY SMTT(30), <1>1, <2>1
  <2>4. ASSUME \A u \in Threads : deadline_queued'[u] => cpu_index'[u] = cpu_index[u],
               NEW u \in Threads, NEW d \in CpuIds
        PROVE  u \in deadline_tree'[d] <=> deadline_queued'[u] /\ cpu_index'[u] = d
    <3>1. u \in deadline_tree[d] <=> deadline_queued[u] /\ cpu_index[u] = d
      BY DEF SchedInv, DeadlinesInv
    <3>2. CASE u = t
      BY <2>2, <3>1, <3>2
    <3>3. CASE u # t
      BY <2>2, <2>4, <3>1, <3>3
    <3>4. QED
      BY <3>2, <3>3
  <2>5. QED
    BY <2>2, <2>3, <2>4 DEF DeadlinesInv
<1>3. CASE ~deadline_queued[t]
  <2>1. UNCHANGED <<deadline_tree, deadline_queued>>
    BY <1>3 DEF sched_deadline_remove_locked
  <2>2. QED
    BY <1>1, <1>3, <2>1, DeadlinesFrame DEF SchedInv
<1>4. QED
  BY <1>1, <1>2, <1>3

-----------------------------------------------------------------------------
(* The runnable count *)

LEMMA CountedNat == ASSUME NEW d PROVE Counted(d) \in {0, 1} /\ Counted(d)' \in {0, 1}
<1>1. QED
  BY DEF Counted

LEMMA CountedSame ==
  ASSUME NEW c \in CpuIds, Local(c), NEW d \in CpuIds \ {c}, current_thread'[d] = current_thread[d]
  PROVE  Counted(d)' = Counted(d)
<1>1. pc'[d] = pc[d]
  BY DEF Local
<1>2. QED
  BY <1>1 DEF Counted, Choosing

LEMMA CountStep ==
  ASSUME SchedInv, NEW k \in CpuIds, NEW n \in Nat,
         runnable_count' = [runnable_count EXCEPT ![k] = n],
         n = Cardinality(tasks_tree'[k]) + Counted(k)',
         \A d \in CpuIds \ {k} : tasks_tree'[d] = tasks_tree[d] /\ Counted(d)' = Counted(d)
  PROVE  CountedInv' /\ runnable_count' \in [CpuIds -> Nat]
<1>1. runnable_count \in [CpuIds -> Nat]
  BY DEF SchedInv, SchedTypeOK
<1>2. runnable_count'[k] = n /\ \A d \in CpuIds \ {k} : runnable_count'[d] = runnable_count[d]
  BY <1>1
<1>3. runnable_count' \in [CpuIds -> Nat]
  BY <1>1
<1>4. \A d \in CpuIds : runnable_count'[d] = Cardinality(tasks_tree'[d]) + Counted(d)'
  BY <1>2 DEF SchedInv, CountedInv
<1>5. QED
  BY <1>3, <1>4 DEF CountedInv

-----------------------------------------------------------------------------
(* A new or woken thread is queued *)

LEMMA Inserted ==
  ASSUME ThreadsCounted, SchedInv, NEW c \in CpuIds, Local(c), NEW t \in Threads, NEW k \in CpuIds, ~on_rq[t],
         Enqueue(t, k), cpu_index' = [cpu_index EXCEPT ![t] = k],
         UNCHANGED <<on_cpu, current_thread, switching_from>>,
         on_cpu[t] => cpu_index[t] = k, queue_lock[k] \in {None, c},
         \A d \in CpuIds : current_thread[d] # t,
         \A d \in CpuIds \ {c} : ~Storing(d, t),
         pc[c] \in {"enqueue", "wakestore"}, pc'[c] = "run"
  PROVE  /\ tasks_tree' \in [CpuIds -> SUBSET Threads] /\ on_rq' \in [Threads -> BOOLEAN]
         /\ cpu_index' \in [Threads -> CpuIds] /\ runnable_count' \in [CpuIds -> Nat]
         /\ StackInv' /\ TasksInv' /\ CountedInv' /\ WakeInv' /\ ChoiceOK(c)'
         /\ on_rq'[t]
         /\ \A u \in Threads \ {t} : on_rq'[u] = on_rq[u] /\ cpu_index'[u] = cpu_index[u]
         /\ \A d \in CpuIds \ {c} :
              /\ pc[d] \in Dispatching => tasks_tree'[d] = tasks_tree[d]
              /\ current_thread[d] \in tasks_tree'[d] => current_thread[d] \in tasks_tree[d]
<1>1. /\ SchedTypeOK /\ StackInv /\ WakeInv /\ ChoiceOK(c) /\ runnable_count \in [CpuIds -> Nat]
  BY DEF SchedInv, SchedTypeOK, ChoiceInv
<1>2. /\ tasks_tree' = [tasks_tree EXCEPT ![k] = @ \cup {t}]
      /\ on_rq' = [on_rq EXCEPT ![t] = TRUE]
      /\ runnable_count' = [runnable_count EXCEPT ![k] = runnable_count[k] + 1]
  BY DEF Enqueue
<1>3. /\ tasks_tree' \in [CpuIds -> SUBSET Threads] /\ on_rq' \in [Threads -> BOOLEAN]
      /\ cpu_index' \in [Threads -> CpuIds] /\ TasksInv'
      /\ on_rq'[t] /\ cpu_index'[t] = k
      /\ \A u \in Threads \ {t} : on_rq'[u] = on_rq[u] /\ cpu_index'[u] = cpu_index[u]
      /\ tasks_tree'[k] = tasks_tree[k] \cup {t} /\ t \notin tasks_tree[k]
      /\ \A d \in CpuIds \ {k} : tasks_tree'[d] = tasks_tree[d]
      /\ Cardinality(tasks_tree'[k]) = Cardinality(tasks_tree[k]) + 1
  BY <1>2, Link
<1>4. /\ ~Choosing(c) /\ ~Choosing(c)' /\ pc[c] \notin Leaving /\ pc'[c] \notin Leaving
  BY SMTT(30) DEF Choosing, Leaving
<1>5. StackInv'
  BY <1>1, <1>3, <1>4, StackFrame
<1>6. \A d \in CpuIds : Counted(d)' = Counted(d)
  <2>1. Counted(c)' = Counted(c)
    BY <1>4 DEF Counted
  <2>2. QED
    BY <2>1, CountedSame
<1>7. CountedInv' /\ runnable_count' \in [CpuIds -> Nat]
  <2>1. runnable_count[k] = Cardinality(tasks_tree[k]) + Counted(k)
    BY DEF SchedInv, CountedInv
  <2>2. Cardinality(tasks_tree[k]) \in Nat /\ Counted(k) \in {0, 1} /\ runnable_count[k] \in Nat
    BY <1>1, TreesFinite, CountedNat
  <2>3. /\ runnable_count[k] + 1 = Cardinality(tasks_tree'[k]) + Counted(k)'
        /\ runnable_count[k] + 1 \in Nat
    BY SMTT(30), <1>3, <1>6, <2>1, <2>2
  <2>4. PICK n \in Nat : n = runnable_count[k] + 1
    BY <2>3
  <2>5. /\ runnable_count' = [runnable_count EXCEPT ![k] = n]
        /\ n = Cardinality(tasks_tree'[k]) + Counted(k)'
    BY <1>2, <2>3, <2>4
  <2>6. QED
    BY <1>3, <1>6, <2>5, CountStep
<1>8. WakeInv'
  <2>1. \A u \in Threads : ~Storing(c, u)'
    BY DEF Storing
  <2>2. ASSUME NEW d \in CpuIds \ {c}, NEW u \in Threads, Storing(d, u)
        PROVE  cpu_index'[u] = cpu_index[u]
    <3>1. u # t
      BY <2>2
    <3>2. QED
      BY <1>3, <3>1
  <2>3. QED
    BY <1>1, <2>1, <2>2, WakeFrame
<1>9. ChoiceOK(c)'
  <2>1. current_thread[c] \notin tasks_tree'[c]
    BY <1>1, <1>3, <1>4 DEF ChoiceOK
  <2>2. QED
    BY <2>1 DEF ChoiceOK
<1>10. ASSUME NEW d \in CpuIds \ {c}
       PROVE  /\ pc[d] \in Dispatching => tasks_tree'[d] = tasks_tree[d]
              /\ current_thread[d] \in tasks_tree'[d] => current_thread[d] \in tasks_tree[d]
  <2>1. k # c => pc[k] \notin Dispatching
    BY Excluded
  <2>2. QED
    BY <1>3, <2>1
<1>11. QED
  BY <1>3, <1>5, <1>7, <1>8, <1>9, <1>10

LEMMA EnqueueRest ==
  ASSUME ThreadsCounted, SchedInv, NEW c \in CpuIds, Local(c), sched_enqueue_thread(c)
  PROVE  Rest'
<1>1. /\ SchedTypeOK /\ LocalsInv /\ ReapInv /\ CreationInv /\ QueuedInv /\ StackInv
      /\ DeadlinesInv /\ loc \in [CpuIds -> Locals]
  BY DEF SchedInv, SchedTypeOK
<1>2. PICK t \in Threads, k \in CpuIds : t = loc[c].t /\ k = loc[c].target
  BY <1>1 DEF sched_enqueue_thread, LocalsInv, LocalsOK
<1>3. /\ pc[c] = "enqueue" /\ pc'[c] = "run" /\ queue_lock[k] = None
      /\ UNCHANGED <<state, wakeup_ticks, on_cpu, deadline_queued, deadline_tree>>
      /\ UNCHANGED <<current_thread, switching_from>> /\ UNCHANGED reapVars
      /\ loc' = [loc EXCEPT ![c] = NoLocals]
      /\ \/ on_rq[t] \/ state[t] = "DEAD"
         \/ ~on_rq[t] /\ state[t] # "DEAD" /\ Enqueue(t, k) /\ cpu_index' = [cpu_index EXCEPT ![t] = k]
      /\ on_rq[t] \/ state[t] = "DEAD" => UNCHANGED <<on_rq, cpu_index, tasks_tree, runnable_count>>
  BY <1>1, <1>2, GotoAt DEF sched_enqueue_thread, Return, Free, cpuVars, rqVars
<1>4. loc'[c].t = None
  BY SMTT(30), <1>1, <1>3 DEF NoLocals
<1>5. /\ UnderCreation(t) /\ Detached(t) /\ state[t] \in {"READY", "DEAD"} /\ CreationOK(t)
  BY <1>1, <1>2, <1>3 DEF UnderCreation, CreationInv, CreationOK
<1>6. ~on_rq[t] /\ ~on_cpu[t] /\ ~deadline_queued[t] /\ \A d \in CpuIds : ~Storing(d, t)
  BY <1>5 DEF Detached
<1>7. \A d \in CpuIds : current_thread[d] # t
  BY <1>6, CurrentFacts
<1>8. /\ \A u \in Threads \ {t} : UnderCreation(u)' <=> UnderCreation(u)
      /\ ~UnderCreation(t)'
  <2>1. \A u \in Threads : loc'[c].t # u
    BY <1>4, SchedConstants
  <2>2. \A d \in CpuIds \ {c} : ~(pc[d] = "enqueue" /\ loc[d].t = t)
    BY <1>2, <1>3, <1>5 DEF CreationOK
  <2>3. QED
    BY <1>2, <1>3, <2>1, <2>2 DEF UnderCreation, Local
<1>9. \A u \in Threads, d \in CpuIds : Storing(d, u)' => Storing(d, u)
  BY <1>3 DEF Storing, Local
<1>10. /\ ~Choosing(c) /\ ~Choosing(c)' /\ pc[c] \notin Leaving /\ pc'[c] \notin Leaving
       /\ pc'[c] \notin Stealing /\ pc'[c] \notin Dispatching
  BY SMTT(30), <1>3 DEF Choosing, Leaving, Stealing, Dispatching
\* Either way the others keep what they have, and t may be in a queue.
<1>11. /\ tasks_tree' \in [CpuIds -> SUBSET Threads] /\ on_rq' \in [Threads -> BOOLEAN]
       /\ cpu_index' \in [Threads -> CpuIds] /\ runnable_count' \in [CpuIds -> Nat]
       /\ StackInv' /\ TasksInv' /\ CountedInv' /\ WakeInv' /\ ChoiceOK(c)'
       /\ state[t] = "DEAD" \/ on_rq'[t]
       /\ state[t] = "DEAD" => on_rq'[t] = on_rq[t]
       /\ \A u \in Threads \ {t} : on_rq'[u] = on_rq[u] /\ cpu_index'[u] = cpu_index[u]
       /\ \A d \in CpuIds \ {c} :
            /\ pc[d] \in Dispatching => tasks_tree'[d] = tasks_tree[d]
            /\ current_thread[d] \in tasks_tree'[d] => current_thread[d] \in tasks_tree[d]
  <2>1. CASE on_rq[t] \/ state[t] = "DEAD"
    <3>1. Steady(c)
      BY <1>3, <1>10, <2>1 DEF Steady, Storing
    <3>2. UNCHANGED <<on_rq, cpu_index, tasks_tree, runnable_count>> /\ state[t] = "DEAD"
      BY <1>3, <1>6, <2>1
    <3>3. StackInv' /\ TasksInv' /\ CountedInv' /\ WakeInv' /\ ChoiceOK(c)'
      BY <3>1, SteadyInv
    <3>4. QED
      BY <1>1, <3>2, <3>3 DEF SchedTypeOK
  <2>2. CASE /\ ~on_rq[t] /\ state[t] # "DEAD" /\ Enqueue(t, k)
             /\ cpu_index' = [cpu_index EXCEPT ![t] = k]
    <3>1. queue_lock[k] \in {None, c} /\ pc[c] \in {"enqueue", "wakestore"}
      BY <1>3
    <3>2. QED
      BY <1>3, <1>6, <1>7, <2>2, <3>1, Inserted
  <2>3. QED
    BY <1>3, <2>1, <2>2
<1>12. DataTypes'
  BY <1>1, <1>3, <1>11 DEF DataTypes, SchedTypeOK, reapVars
<1>13. DeadlinesInv'
  BY <1>1, <1>3, <1>6, <1>11, DeadlinesFrame
<1>14. \A u \in Threads : Detached(u) /\ (u # t \/ state[t] = "DEAD") => Detached(u)'
  BY <1>3, <1>6, <1>9, <1>11 DEF Detached
<1>15. CreationInv'
  <2>1. ASSUME NEW u \in Threads PROVE CreationOK(u)'
    <3>1. CreationOK(u)
      BY <1>1 DEF CreationInv
    <3>2. state'[u] = "NEW" => Detached(u)' /\ \A d \in CpuIds : loc'[d].t # u
      <4>1. ASSUME state[u] = "NEW" PROVE u # t /\ Detached(u) /\ \A d \in CpuIds : loc[d].t # u
        BY <1>5, <3>1, <4>1 DEF CreationOK
      <4>2. loc'[c].t # u
        BY <1>4, SchedConstants
      <4>3. QED
        BY <1>3, <1>14, <4>1, <4>2 DEF Local
    <3>3. UnderCreation(u)' => Detached(u)' /\ state'[u] \in {"READY", "DEAD"}
      BY <1>3, <1>8, <1>14, <3>1 DEF CreationOK
    <3>4. \A d, e \in CpuIds : pc'[d] = "enqueue" /\ pc'[e] = "enqueue"
                                 /\ loc'[d].t = u /\ loc'[e].t = u => d = e
      <4>1. \A d \in CpuIds : pc'[d] = "enqueue" => pc[d] = "enqueue" /\ loc'[d] = loc[d]
        BY <1>3 DEF Local
      <4>2. QED
        BY <3>1, <4>1 DEF CreationOK
    <3>5. QED
      BY <3>2, <3>3, <3>4 DEF CreationOK
  <2>2. QED
    BY <2>1 DEF CreationInv
<1>16. ReapInv'
  <2>1. ASSUME NEW u \in Threads, Reaping(u) PROVE Detached(u)' /\ state'[u] = "DEAD"
    BY <1>1, <1>3, <1>14, <2>1 DEF ReapInv
  <2>2. loc'[c].t \notin freed
    BY <1>1, <1>4, SchedConstants DEF SchedTypeOK
  <2>3. pc[c] \notin {"reap", "free"} /\ pc'[c] \notin {"reap", "free"}
    BY <1>3
  <2>4. QED
    BY <1>1, <1>3, <2>1, <2>2, <2>3, ReapFrame
<1>17. QueuedInv'
  <2>1. QueuedOK(t)'
    BY <1>3, <1>5, <1>11 DEF QueuedOK
  <2>2. \A u \in Threads \ {t} : QueuedOK(u)'
    BY <1>1, <1>3, <1>8, <1>11 DEF QueuedInv, QueuedOK
  <2>3. QED
    BY <2>1, <2>2 DEF QueuedInv
<1>18. ChoiceInv' /\ CurrentInv'
  <2>1. Isolated(c)
    BY <1>3, <1>7, <1>11 DEF Isolated
  <2>2. CurrentOK(c)'
    BY <1>10 DEF CurrentOK
  <2>3. QED
    BY <1>3, <1>11, <2>1, <2>2, OthersKeep DEF SchedInv
<1>19. QED
  BY <1>11, <1>12, <1>13, <1>15, <1>16, <1>17, <1>18 DEF Rest

-----------------------------------------------------------------------------
(* A terminal thread is taken off its trees *)

LEMMA Unlinked ==
  ASSUME ThreadsCounted, SchedInv, NEW c \in CpuIds, Local(c), NEW t \in Threads, NEW k \in CpuIds,
         cpu_index[t] = k, state[t] = "DEAD", queue_lock[k] = None \/ k = c,
         Dequeue(t, k), sched_deadline_remove_locked(t, k),
         UNCHANGED <<state, wakeup_ticks, cpu_index, on_cpu, current_thread, switching_from>>,
         \/ pc[c] = "pick" /\ pc'[c] = "pick"
         \/ pc[c] = "reap" /\ pc'[c] = "free",
         loc'[c].t = loc[c].t \/ loc'[c].t = t
  PROVE  /\ tasks_tree' \in [CpuIds -> SUBSET Threads] /\ on_rq' \in [Threads -> BOOLEAN]
         /\ deadline_tree' \in [CpuIds -> SUBSET Threads] /\ deadline_queued' \in [Threads -> BOOLEAN]
         /\ runnable_count' \in [CpuIds -> Nat]
         /\ StackInv' /\ TasksInv' /\ DeadlinesInv' /\ CountedInv' /\ WakeInv' /\ CreationInv'
         /\ QueuedInv' /\ ChoiceInv' /\ CurrentInv' /\ KeepsDetached
         /\ ~on_rq'[t] /\ ~deadline_queued'[t]
<1>1. /\ SchedTypeOK /\ StackInv /\ TasksInv /\ WakeInv /\ ChoiceOK(c) /\ CurrentOK(c)
      /\ CreationInv /\ QueuedInv
      /\ runnable_count \in [CpuIds -> Nat] /\ tasks_tree \in [CpuIds -> SUBSET Threads]
      /\ on_rq \in [Threads -> BOOLEAN]
  BY DEF SchedInv, SchedTypeOK, ChoiceInv, CurrentInv
<1>2. /\ deadline_tree' \in [CpuIds -> SUBSET Threads] /\ deadline_queued' \in [Threads -> BOOLEAN]
      /\ ~deadline_queued'[t] /\ DeadlinesInv'
      /\ \A u \in Threads \ {t} : deadline_queued'[u] = deadline_queued[u]
  BY Unarm
<1>3. /\ Choosing(c)' <=> Choosing(c)
      /\ pc[c] \notin Leaving /\ pc'[c] \notin Leaving
      /\ pc[c] # "enqueue" /\ pc'[c] # "enqueue" /\ pc'[c] # "wakestore" /\ pc'[c] # "commit"
      /\ pc'[c] \notin Stealing /\ (pc'[c] \in Dispatching => pc[c] \in Dispatching)
  BY SMTT(30) DEF Choosing, Leaving, Stealing, Dispatching
<1>4. \A d \in CpuIds : Counted(d)' = Counted(d)
  <2>1. Counted(c)' = Counted(c)
    BY <1>3 DEF Counted
  <2>2. QED
    BY <2>1, CountedSame
<1>5. /\ tasks_tree' \in [CpuIds -> SUBSET Threads] /\ on_rq' \in [Threads -> BOOLEAN]
      /\ TasksInv' /\ CountedInv' /\ runnable_count' \in [CpuIds -> Nat]
      /\ ~on_rq'[t] /\ (\A u \in Threads \ {t} : on_rq'[u] = on_rq[u])
      /\ tasks_tree'[k] \subseteq tasks_tree[k]
      /\ \A d \in CpuIds \ {k} : tasks_tree'[d] = tasks_tree[d]
  <2>1. CASE ~on_rq[t]
    <3>1. UNCHANGED <<tasks_tree, on_rq, runnable_count>>
      BY <2>1 DEF Dequeue
    <3>2. TasksInv'
      BY <1>1, <3>1, TasksFrame
    <3>3. CountedInv'
      BY <1>4, <3>1 DEF SchedInv, CountedInv
    <3>4. QED
      BY <1>1, <2>1, <3>1, <3>2, <3>3
  <2>2. CASE on_rq[t]
    <3>1. /\ tasks_tree' = [tasks_tree EXCEPT ![k] = @ \ {t}]
          /\ on_rq' = [on_rq EXCEPT ![t] = FALSE]
          /\ runnable_count' = [runnable_count EXCEPT ![k] = Dec(runnable_count[k])]
      BY <2>2 DEF Dequeue
    <3>2. /\ tasks_tree' \in [CpuIds -> SUBSET Threads] /\ on_rq' \in [Threads -> BOOLEAN]
          /\ TasksInv' /\ ~on_rq'[t]
          /\ \A u \in Threads \ {t} : on_rq'[u] = on_rq[u]
          /\ tasks_tree'[k] = tasks_tree[k] \ {t}
          /\ \A d \in CpuIds \ {k} : tasks_tree'[d] = tasks_tree[d]
          /\ Cardinality(tasks_tree'[k]) = Cardinality(tasks_tree[k]) - 1
          /\ Cardinality(tasks_tree'[k]) \in Nat
      BY <2>2, <3>1, Unlink
    <3>3. CountedInv' /\ runnable_count' \in [CpuIds -> Nat]
      <4>1. runnable_count[k] = Cardinality(tasks_tree[k]) + Counted(k)
        BY DEF SchedInv, CountedInv
      <4>2. Cardinality(tasks_tree[k]) \in Nat /\ Counted(k) \in {0, 1} /\ runnable_count[k] \in Nat
        BY <1>1, TreesFinite, CountedNat
      <4>3. /\ Dec(runnable_count[k]) = Cardinality(tasks_tree'[k]) + Counted(k)'
            /\ Dec(runnable_count[k]) \in Nat
        BY SMTT(30), <1>4, <3>2, <4>1, <4>2 DEF Dec
      <4>4. PICK n \in Nat : n = Dec(runnable_count[k])
        BY <4>3
      <4>5. /\ runnable_count' = [runnable_count EXCEPT ![k] = n]
            /\ n = Cardinality(tasks_tree'[k]) + Counted(k)'
        BY <3>1, <4>3, <4>4
      <4>6. QED
        BY <1>4, <3>2, <4>5, CountStep
    <3>4. QED
      BY <3>2, <3>3
  <2>3. QED
    BY <2>1, <2>2
<1>6. StackInv'
  BY <1>1, <1>3, StackFrame
<1>7. WakeInv'
  <2>1. \A u \in Threads : ~Storing(c, u)'
    BY <1>3 DEF Storing
  <2>2. QED
    BY <1>1, <2>1, WakeFrame
<1>8. KeepsDetached
  <2>1. \A u \in Threads, d \in CpuIds : Storing(d, u)' => Storing(d, u)
    BY <1>3 DEF Storing, Local
  <2>2. \A u \in Threads : (on_rq'[u] => on_rq[u]) /\ (deadline_queued'[u] => deadline_queued[u])
    BY <1>2, <1>5
  <2>3. QED
    BY <2>1, <2>2 DEF KeepsDetached, Detached
<1>9. CreationInv'
  <2>1. \A u \in Threads : loc'[c].t = u => loc[c].t = u \/ state[u] # "NEW"
    OBVIOUS
  <2>2. QED
    BY <1>1, <1>3, <1>8, <2>1, CreationFrame
<1>10. QueuedInv'
  <2>1. \A u \in Threads : UnderCreation(u)' <=> UnderCreation(u)
    BY <1>3 DEF UnderCreation, Local
  <2>2. QueuedOK(t)'
    BY DEF QueuedOK
  <2>3. \A u \in Threads \ {t} : QueuedOK(u)'
    BY <1>1, <1>2, <1>5, <2>1 DEF QueuedInv, QueuedOK
  <2>4. QED
    BY <2>2, <2>3 DEF QueuedInv
<1>11. ChoiceInv' /\ CurrentInv'
  <2>1. k # c => pc[k] \notin Dispatching
    BY Excluded
  <2>2. \A d \in CpuIds : current_thread[d] = t => d = k
    BY CurrentFacts
  <2>3. Isolated(c)
    BY <1>2, <1>5, <2>1, <2>2 DEF Isolated
  <2>4. ChoiceOK(c)'
    BY <1>1, <1>3, <1>5 DEF ChoiceOK
  <2>5. CurrentOK(c)'
    <3>1. ASSUME NEW u \in Threads, current_thread[c] = u
          PROVE  /\ Choosing(c)' => on_rq'[u] \/ state[u] \in {"BLOCKED", "DEAD"}
                 /\ pc'[c] \in Dispatching /\ state[u] = "BLOCKED" /\ wakeup_ticks[u] => deadline_queued'[u]
      <4>1. CASE u = t
        BY <4>1
      <4>2. CASE u # t
        BY <1>1, <1>2, <1>3, <1>5, <3>1, <4>2 DEF CurrentOK
      <4>3. QED
        BY <4>1, <4>2
    <3>2. QED
      BY <1>3, <3>1 DEF CurrentOK
  <2>6. QED
    BY <2>3, <2>4, <2>5, OthersKeep DEF SchedInv
<1>12. QED
  BY <1>2, <1>5, <1>6, <1>7, <1>8, <1>9, <1>10, <1>11

LEMMA PickDeadRest ==
  ASSUME ThreadsCounted, SchedInv, NEW c \in CpuIds, Local(c), NEW t \in Threads, PickDead(c, t)
  PROVE  Rest'
<1>1. SchedTypeOK /\ ReapInv /\ LocalsInv /\ TasksInv
  BY DEF SchedInv
<1>2. /\ pc[c] = "pick" /\ pc'[c] = "pick" /\ loc' = loc /\ state[t] = "DEAD" /\ cpu_index[t] = c
      /\ UNCHANGED <<state, wakeup_ticks, cpu_index, on_cpu, current_thread, switching_from>>
      /\ Dequeue(t, c) /\ sched_deadline_remove_locked(t, c) /\ UNCHANGED reapVars
  BY <1>1 DEF PickDead, Dead, TasksInv, cpuVars
<1>3. /\ tasks_tree' \in [CpuIds -> SUBSET Threads] /\ on_rq' \in [Threads -> BOOLEAN]
      /\ deadline_tree' \in [CpuIds -> SUBSET Threads] /\ deadline_queued' \in [Threads -> BOOLEAN]
      /\ runnable_count' \in [CpuIds -> Nat]
      /\ StackInv' /\ TasksInv' /\ DeadlinesInv' /\ CountedInv' /\ WakeInv' /\ CreationInv'
      /\ QueuedInv' /\ ChoiceInv' /\ CurrentInv' /\ KeepsDetached
  BY <1>2, Unlinked
<1>4. ReapInv'
  <2>1. loc'[c].t = None /\ None \notin freed
    BY <1>1, <1>2, SchedConstants DEF LocalsInv, LocalsOK, Plain, SchedTypeOK
  <2>2. pc[c] \notin {"reap", "free"} /\ pc'[c] \notin {"reap", "free"}
    BY <1>2
  <2>3. QED
    BY <1>1, <1>2, <1>3, <2>1, <2>2, ReapingKept, ReapFrame
<1>5. DataTypes'
  BY <1>1, <1>2, <1>3 DEF DataTypes, SchedTypeOK, reapVars
<1>6. QED
  BY <1>3, <1>4, <1>5 DEF Rest

LEMMA PrepareRest ==
  ASSUME ThreadsCounted, SchedInv, NEW c \in CpuIds, Local(c), NEW t \in Threads, sched_prepare_thread_reap(c, t)
  PROVE  Rest'
<1>1. /\ SchedTypeOK /\ ReapInv /\ LocalsInv /\ loc \in [CpuIds -> Locals]
      /\ cpu_index[t] \in CpuIds
      /\ reap_queue \subseteq Threads /\ reap_queued \subseteq Threads /\ freed \subseteq Threads
      /\ reap_worker_lock \in CpuIds \cup {None}
  BY DEF SchedInv, SchedTypeOK
<1>2. /\ pc[c] = "reap" /\ t \in loc[c].todo /\ queue_lock[cpu_index[t]] = None
      /\ UNCHANGED <<state, wakeup_ticks, cpu_index, on_cpu, current_thread, switching_from>>
      /\ UNCHANGED <<reap_queued, reap_worker_lock, freed>>
  BY DEF sched_prepare_thread_reap, Free, cpuVars
<1>3. /\ t \in reap_queue /\ t \in reap_queued /\ t \notin freed /\ loc[c].t = None /\ None \notin freed
      /\ loc[c].todo \subseteq reap_queue
      /\ \A d \in CpuIds \ {c} : pc[d] # "free" /\ pc[d] # "reap"
  <2>1. t \in reap_queue /\ loc[c].todo \subseteq reap_queue
    BY <1>1, <1>2 DEF ReapInv
  <2>2. t \in reap_queued /\ t \notin freed
    BY <1>1, <2>1 DEF ReapInv, Reaping
  <2>3. loc[c].t = None /\ None \notin freed
    BY <1>1, <1>2, SchedConstants DEF LocalsInv, LocalsOK, Plain
  <2>4. \A d \in CpuIds \ {c} : pc[d] # "free" /\ pc[d] # "reap"
    <3>1. reap_worker_lock = c
      BY <1>1, <1>2 DEF ReapInv
    <3>2. \A d \in CpuIds : pc[d] \in {"reap", "free"} => reap_worker_lock = d
      BY <1>1 DEF ReapInv
    <3>3. QED
      BY <3>1, <3>2
  <2>5. QED
    BY <2>1, <2>2, <2>3, <2>4
\* Still in use: the scan goes on.
<1>4. CASE /\ loc' = [loc EXCEPT ![c].todo = @ \ {t}]
           /\ UNCHANGED <<pc, on_rq, deadline_queued, rqVars, reap_queue>>
  <2>1. loc'[c].t = loc[c].t /\ loc'[c].todo = loc[c].todo \ {t}
    BY SMTT(30), <1>1, <1>4 DEF Locals
  <2>2. \A d \in CpuIds : reap_worker_lock' = d <=> pc'[d] \in {"reap", "free"}
    BY <1>1, <1>2, <1>4 DEF ReapInv
  <2>3. \A d \in CpuIds : pc'[d] = "reap" => loc'[d].todo \subseteq reap_queue'
    BY <1>3, <1>4, <2>1 DEF Local
  <2>4. ASSUME NEW u \in Threads, Reaping(u)'
        PROVE  Detached(u)' /\ state'[u] = "DEAD" /\ u \in reap_queued' /\ u \notin reap_queue'
    <3>1. Reaping(u)
      BY <1>2, <1>4, <2>1, <2>4 DEF Reaping, Local
    <3>2. Detached(u) /\ state[u] = "DEAD" /\ u \in reap_queued /\ u \notin reap_queue
      BY <1>1, <3>1 DEF ReapInv
    <3>3. \A d \in CpuIds : Storing(d, u)' => Storing(d, u)
      BY <1>2, <1>4 DEF Storing, Local
    <3>4. QED
      BY <1>2, <1>4, <3>2, <3>3 DEF Detached
  <2>5. \A u \in freed', d \in CpuIds : loc'[d].t = u => pc'[d] = "enqueue"
    BY <1>1, <1>2, <1>3, <2>1, PointersKept
  <2>6. reap_queue' \subseteq reap_queued'
    BY <1>1, <1>2, <1>4 DEF ReapInv
  <2>7. ReapInv'
    BY <2>2, <2>3, <2>4, <2>5, <2>6 DEF ReapInv
  <2>8. UNCHANGED <<tasks_tree, deadline_tree, runnable_count>> /\ pc'[c] = "reap"
    BY <1>2, <1>4 DEF rqVars
  <2>9. QED
    BY <1>1, <1>2, <1>4, <2>1, <2>7, <2>8, ReaperQuiet
\* Out of use: no waker is about to store its state, for its CPU's lock is free.
<1>5. CASE /\ ~StillInUse(t, cpu_index[t]) /\ Dequeue(t, cpu_index[t])
           /\ sched_deadline_remove_locked(t, cpu_index[t])
           /\ reap_queue' = reap_queue \ {t} /\ loc' = [loc EXCEPT ![c].t = t] /\ Goto(c, "free")
  <2>1. pc'[c] = "free" /\ state[t] = "DEAD" /\ ~on_cpu[t]
    BY <1>1, <1>5, GotoAt DEF StillInUse
  <2>2. loc'[c].t = t
    BY SMTT(30), <1>1, <1>5 DEF Locals
  <2>3. /\ tasks_tree' \in [CpuIds -> SUBSET Threads] /\ on_rq' \in [Threads -> BOOLEAN]
        /\ deadline_tree' \in [CpuIds -> SUBSET Threads] /\ deadline_queued' \in [Threads -> BOOLEAN]
        /\ runnable_count' \in [CpuIds -> Nat]
        /\ StackInv' /\ TasksInv' /\ DeadlinesInv' /\ CountedInv' /\ WakeInv' /\ CreationInv'
        /\ QueuedInv' /\ ChoiceInv' /\ CurrentInv' /\ KeepsDetached
        /\ ~on_rq'[t] /\ ~deadline_queued'[t]
    BY <1>1, <1>2, <1>5, <2>1, <2>2, Unlinked
  <2>4. Detached(t)'
    <3>1. \A d \in CpuIds \ {c} : ~Storing(d, t)
      <4>1. queue_lock[cpu_index[t]] \in {None, c}
        BY <1>2
      <4>2. QED
        BY <1>1, <4>1, Excluded
    <3>2. \A d \in CpuIds : ~Storing(d, t)'
      BY <2>1, <3>1 DEF Storing, Local
    <3>3. QED
      BY <1>2, <2>1, <2>3, <3>2 DEF Detached
  <2>5. \A d \in CpuIds : reap_worker_lock' = d <=> pc'[d] \in {"reap", "free"}
    BY <1>1, <1>2, <2>1, WorkerStep
  <2>6. \A d \in CpuIds : pc'[d] = "reap" => loc'[d].todo \subseteq reap_queue'
    BY <1>3, <2>1 DEF Local
  <2>7. ASSUME NEW u \in Threads, Reaping(u)'
        PROVE  Detached(u)' /\ state'[u] = "DEAD" /\ u \in reap_queued' /\ u \notin reap_queue'
    <3>1. u = t \/ Reaping(u)
      BY <1>2, <1>3, <2>2, <2>7 DEF Reaping, Local
    <3>2. CASE u = t
      BY <1>2, <1>3, <1>5, <2>1, <2>4, <3>2
    <3>3. CASE Reaping(u)
      BY <1>1, <1>2, <1>5, <2>3, <3>3, ReapingKept DEF ReapInv
    <3>4. QED
      BY <3>1, <3>2, <3>3
  <2>8. \A u \in freed', d \in CpuIds : loc'[d].t = u => pc'[d] = "enqueue"
    BY <1>1, <1>2, <1>3, <2>2, PointersKept
  <2>9. reap_queue' \subseteq reap_queued' /\ reap_queue' \subseteq Threads
    BY <1>1, <1>2, <1>5 DEF ReapInv
  <2>10. ReapInv'
    BY <2>5, <2>6, <2>7, <2>8, <2>9 DEF ReapInv
  <2>11. DataTypes'
    BY <1>1, <1>2, <2>3, <2>9 DEF DataTypes, SchedTypeOK
  <2>12. QED
    BY <2>3, <2>10, <2>11 DEF Rest
<1>6. QED
  BY <1>4, <1>5 DEF sched_prepare_thread_reap

-----------------------------------------------------------------------------
(* Deadlines expire *)

\* What the caller hands to sched_deadline_expire_locked(): the states and the
\* deadlines, with those of its current thread perhaps updated already.
Passes(c, due, st, wt, tree) ==
  LET p == current_thread[c]
  IN /\ due \subseteq deadline_tree[c]
     /\ st \in [Threads -> States] /\ wt \in [Threads -> BOOLEAN]
     /\ \A u \in Threads \ {p} : st[u] = state[u] /\ wt[u] = wakeup_ticks[u]
     /\ p \in Threads => st[p] \in {state[p], "RUNNING"}
     /\ \/ tree = deadline_tree[c]
        \/ tree = deadline_tree[c] \cup {p} /\ p \in Threads

\* A thread other than c's own: untouched, or expired and perhaps queued.
Woken(c, u) ==
  \/ /\ state'[u] = state[u] /\ wakeup_ticks'[u] = wakeup_ticks[u]
     /\ deadline_queued'[u] = deadline_queued[u] /\ on_rq'[u] = on_rq[u]
  \/ /\ deadline_queued[u] /\ cpu_index[u] = c /\ state[u] # "BLOCKED" /\ state'[u] = state[u]
  \/ /\ deadline_queued[u] /\ cpu_index[u] = c /\ state'[u] = "READY" /\ on_rq'[u]

LEMMA Expired ==
  ASSUME ThreadsCounted, SchedInv, NEW c \in CpuIds, NEW due, NEW st, NEW wt, NEW tree,
         Passes(c, due, st, wt, tree),
         sched_deadline_expire_locked(c, due, st, wt, tree)
  PROVE  /\ state' \in [Threads -> States] /\ wakeup_ticks' \in [Threads -> BOOLEAN]
         /\ deadline_tree' \in [CpuIds -> SUBSET Threads] /\ deadline_queued' \in [Threads -> BOOLEAN]
         /\ tasks_tree' \in [CpuIds -> SUBSET Threads] /\ on_rq' \in [Threads -> BOOLEAN]
         /\ UNCHANGED cpu_index /\ TasksInv' /\ DeadlinesInv'
         /\ \A d \in CpuIds \ {c} : tasks_tree'[d] = tasks_tree[d]
         /\ current_thread[c] \in tasks_tree'[c] => current_thread[c] \in tasks_tree[c]
         /\ \E n \in Nat : /\ runnable_count' = [runnable_count EXCEPT ![c] = runnable_count[c] + n]
                           /\ Cardinality(tasks_tree'[c]) = Cardinality(tasks_tree[c]) + n
         /\ \A u \in Threads : on_rq[u] => on_rq'[u]
         /\ \A u \in Threads \ {current_thread[c]} : Woken(c, u)
         /\ \A u \in Threads : u \notin due => /\ state'[u] = st[u] /\ wakeup_ticks'[u] = wt[u]
                                               /\ u \in tree => deadline_queued'[u]
         /\ current_thread[c] \in Threads => state'[current_thread[c]] \in {state[current_thread[c]], "RUNNING"}
<1> DEFINE p == current_thread[c]
           W == {t \in due : st[t] = "BLOCKED"}
           L == {t \in W : p # t /\ ~on_rq[t]}
<1>1. /\ SchedTypeOK /\ TasksInv /\ DeadlinesInv
      /\ tasks_tree \in [CpuIds -> SUBSET Threads] /\ deadline_tree \in [CpuIds -> SUBSET Threads]
      /\ on_rq \in [Threads -> BOOLEAN] /\ deadline_queued \in [Threads -> BOOLEAN]
      /\ cpu_index \in [Threads -> CpuIds]
  BY DEF SchedInv, SchedTypeOK
<1>2. /\ state' = [t \in Threads |-> IF t \notin W THEN st[t] ELSE IF p = t THEN "RUNNING" ELSE "READY"]
      /\ wakeup_ticks' = [t \in Threads |-> wt[t] /\ t \notin due]
      /\ deadline_tree' = [deadline_tree EXCEPT ![c] = tree \ due]
      /\ deadline_queued' = [t \in Threads |-> (deadline_queued[t] \/ t \in tree) /\ t \notin due]
      /\ cpu_index' = [t \in Threads |-> IF t \in L THEN c ELSE cpu_index[t]]
      /\ tasks_tree' = [tasks_tree EXCEPT ![c] = @ \cup L]
      /\ on_rq' = [t \in Threads |-> on_rq[t] \/ t \in L]
      /\ runnable_count' = [runnable_count EXCEPT ![c] = runnable_count[c] + Cardinality(L)]
  BY DEF sched_deadline_expire_locked
<1>3. /\ \A u \in Threads : u \in deadline_tree[c] => deadline_queued[u] /\ cpu_index[u] = c
      /\ deadline_tree[c] \subseteq Threads
  BY <1>1 DEF DeadlinesInv
<1>4. /\ due \subseteq Threads /\ W \subseteq due /\ L \subseteq W /\ L \subseteq Threads
      /\ \A u \in due : deadline_queued[u] /\ cpu_index[u] = c
  BY <1>3 DEF Passes
<1>5. /\ \A u \in L : u # p /\ ~on_rq[u] /\ u \notin tasks_tree[c]
      /\ \A u \in Threads : u \in L => cpu_index[u] = c
  BY <1>1, <1>4 DEF TasksInv
<1>6. p \in Threads => cpu_index[p] = c
  BY CurrentFacts
<1>7. UNCHANGED cpu_index
  BY <1>1, <1>2, <1>5
<1>8. /\ \A u \in Threads : state'[u] = IF u \notin W THEN st[u] ELSE IF p = u THEN "RUNNING" ELSE "READY"
      /\ \A u \in Threads : wakeup_ticks'[u] = (wt[u] /\ u \notin due)
      /\ \A u \in Threads : deadline_queued'[u] = ((deadline_queued[u] \/ u \in tree) /\ u \notin due)
      /\ \A u \in Threads : on_rq'[u] = (on_rq[u] \/ u \in L)
  BY <1>2
<1>9. /\ tasks_tree'[c] = tasks_tree[c] \cup L /\ deadline_tree'[c] = tree \ due
      /\ \A d \in CpuIds \ {c} : tasks_tree'[d] = tasks_tree[d] /\ deadline_tree'[d] = deadline_tree[d]
  BY <1>1, <1>2
<1>10. st \in [Threads -> States] /\ wt \in [Threads -> BOOLEAN] /\ tree \subseteq Threads
  BY <1>3 DEF Passes
<1>11. state' \in [Threads -> States]
  <2>1. \A u \in Threads : state'[u] \in States
    BY SMTT(30), <1>8, <1>10 DEF States
  <2>2. QED
    BY <1>2, <2>1
<1>12. /\ wakeup_ticks' \in [Threads -> BOOLEAN] /\ deadline_queued' \in [Threads -> BOOLEAN]
       /\ on_rq' \in [Threads -> BOOLEAN]
  BY SMTT(30), <1>2
<1>13. /\ deadline_tree' \in [CpuIds -> SUBSET Threads] /\ tasks_tree' \in [CpuIds -> SUBSET Threads]
  BY SMTT(30), <1>1, <1>2, <1>4, <1>10
<1>14. TasksInv'
  <2>1. ASSUME NEW u \in Threads, NEW d \in CpuIds
        PROVE  u \in tasks_tree'[d] <=> on_rq'[u] /\ cpu_index'[u] = d
    <3>1. u \in tasks_tree[d] <=> on_rq[u] /\ cpu_index[u] = d
      BY <1>1 DEF TasksInv
    <3>2. CASE u \in L
      <4>1. cpu_index[u] = c /\ on_rq'[u] /\ ~on_rq[u]
        BY <1>5, <1>8, <3>2
      <4>2. u \in tasks_tree'[d] <=> d = c
        BY <1>9, <3>1, <3>2, <4>1
      <4>3. QED
        BY <1>7, <4>1, <4>2
    <3>3. CASE u \notin L
      <4>1. u \in tasks_tree'[d] <=> u \in tasks_tree[d]
        BY <1>9, <3>3
      <4>2. QED
        BY <1>7, <1>8, <3>1, <3>3, <4>1
    <3>4. QED
      BY <3>2, <3>3
  <2>2. QED
    BY <2>1 DEF TasksInv
<1>15. DeadlinesInv'
  <2>1. ASSUME NEW u \in Threads, NEW d \in CpuIds
        PROVE  u \in deadline_tree'[d] <=> deadline_queued'[u] /\ cpu_index'[u] = d
    <3>1. u \in deadline_tree[d] <=> deadline_queued[u] /\ cpu_index[u] = d
      BY <1>1 DEF DeadlinesInv
    <3>2. u \in tree => cpu_index[u] = c
      BY <1>3, <1>6 DEF Passes
    <3>3. CASE d = c
      <4>1. deadline_queued[u] /\ cpu_index[u] = c => u \in tree
        BY <3>1, <3>3 DEF Passes
      <4>2. u \in deadline_tree'[d] <=> u \in tree /\ u \notin due
        BY <1>9, <3>3
      <4>3. QED
        BY <1>7, <1>8, <3>2, <3>3, <4>1, <4>2
    <3>4. CASE d # c
      <4>1. u \in deadline_tree'[d] <=> u \in deadline_tree[d]
        BY <1>9, <3>4
      <4>2. cpu_index[u] = d => u \notin tree /\ u \notin due
        BY <1>4, <3>2, <3>4
      <4>3. QED
        BY <1>7, <1>8, <3>1, <4>1, <4>2
    <3>5. QED
      BY <3>3, <3>4
  <2>2. QED
    BY <2>1 DEF DeadlinesInv
<1>16. \E n \in Nat : /\ runnable_count' = [runnable_count EXCEPT ![c] = runnable_count[c] + n]
                      /\ Cardinality(tasks_tree'[c]) = Cardinality(tasks_tree[c]) + n
  <2>1. tasks_tree[c] \in SUBSET Threads
    BY <1>1, TreesFinite
  <2>2. L \in SUBSET Threads
    BY <1>4
  <2>3. Cardinality(L) \in Nat
    BY <2>2 DEF ThreadsCounted
  <2>4. tasks_tree[c] \cap L = {}
    BY <1>5
  <2>5. Cardinality(tasks_tree[c] \cup L) = Cardinality(tasks_tree[c]) + Cardinality(L)
    BY <2>1, <2>2, <2>4 DEF ThreadsCounted
  <2>6. QED
    BY <1>2, <1>9, <2>3, <2>5
<1>17. ASSUME NEW u \in Threads \ {p} PROVE Woken(c, u)
  <2>1. st[u] = state[u] /\ wt[u] = wakeup_ticks[u]
    BY DEF Passes
  <2>2. u \in tree => deadline_queued[u]
    BY <1>3 DEF Passes
  <2>3. CASE u \notin due
    <3>1. u \notin W /\ u \notin L
      BY <2>3
    <3>2. wakeup_ticks'[u] = wt[u]
      BY SMTT(30), <1>8, <1>10, <2>3
    <3>3. deadline_queued'[u] = deadline_queued[u]
      BY SMTT(30), <1>1, <1>8, <2>2, <2>3
    <3>4. on_rq'[u] = on_rq[u]
      BY SMTT(30), <1>1, <1>8, <3>1
    <3>5. QED
      BY <1>8, <2>1, <3>1, <3>2, <3>3, <3>4 DEF Woken
  <2>4. CASE u \in due /\ state[u] # "BLOCKED"
    BY <1>4, <1>8, <2>1, <2>4 DEF Woken
  <2>5. CASE u \in due /\ state[u] = "BLOCKED"
    <3>1. u \in W /\ (on_rq[u] \/ u \in L)
      BY <2>1, <2>5
    <3>2. QED
      BY <1>4, <1>8, <2>5, <3>1 DEF Woken
  <2>6. QED
    BY <2>3, <2>4, <2>5
<1>18. ASSUME NEW u \in Threads, u \notin due
       PROVE  /\ state'[u] = st[u] /\ wakeup_ticks'[u] = wt[u]
              /\ u \in tree => deadline_queued'[u]
  <2>1. wakeup_ticks'[u] = wt[u]
    BY SMTT(30), <1>8, <1>10, <1>18
  <2>2. QED
    BY <1>8, <1>18, <2>1
<1>19. p \in Threads => state'[p] \in {state[p], "RUNNING"}
  BY <1>8 DEF Passes
<1>20. /\ p \in tasks_tree'[c] => p \in tasks_tree[c]
       /\ \A u \in Threads : on_rq[u] => on_rq'[u]
  BY <1>5, <1>8, <1>9
<1>21. QED
  BY <1>7, <1>9, <1>11, <1>12, <1>13, <1>14, <1>15, <1>16, <1>17, <1>18, <1>19, <1>20

LEMMA ExpireRest ==
  ASSUME ThreadsCounted, SchedInv, NEW c \in CpuIds, Local(c), NEW due, NEW st, NEW wt, NEW tree,
         Passes(c, due, st, wt, tree),
         sched_deadline_expire_locked(c, due, st, wt, tree),
         UNCHANGED <<on_cpu, current_thread, switching_from>>, UNCHANGED reapVars,
         \/ pc[c] = "run" /\ pc'[c] \in {"run", "sched", "steal"}
         \/ pc[c] = "lock" /\ pc'[c] \in {"put", "steal"}
         \/ pc[c] = "relock" /\ pc'[c] = "pick" /\ current_thread[c] = Idle,
         loc'[c].t = None, CurrentOK(c)'
  PROVE  Rest'
<1> DEFINE p == current_thread[c]
<1>1. /\ SchedTypeOK /\ StackInv /\ WakeInv /\ CreationInv /\ ReapInv /\ QueuedInv /\ ChoiceOK(c)
      /\ runnable_count \in [CpuIds -> Nat] /\ None \notin freed
  BY SchedConstants DEF SchedInv, SchedTypeOK, ChoiceInv
<1>2. /\ state' \in [Threads -> States] /\ wakeup_ticks' \in [Threads -> BOOLEAN]
      /\ deadline_tree' \in [CpuIds -> SUBSET Threads] /\ deadline_queued' \in [Threads -> BOOLEAN]
      /\ tasks_tree' \in [CpuIds -> SUBSET Threads] /\ on_rq' \in [Threads -> BOOLEAN]
      /\ UNCHANGED cpu_index /\ TasksInv' /\ DeadlinesInv'
      /\ \A d \in CpuIds \ {c} : tasks_tree'[d] = tasks_tree[d]
      /\ p \in tasks_tree'[c] => p \in tasks_tree[c]
      /\ \E n \in Nat : /\ runnable_count' = [runnable_count EXCEPT ![c] = runnable_count[c] + n]
                        /\ Cardinality(tasks_tree'[c]) = Cardinality(tasks_tree[c]) + n
      /\ \A u \in Threads : on_rq[u] => on_rq'[u]
      /\ \A u \in Threads \ {p} : Woken(c, u)
      /\ p \in Threads => state'[p] \in {state[p], "RUNNING"}
  BY Expired
<1>3. /\ pc[c] \notin Leaving /\ pc'[c] \notin Leaving
      /\ pc[c] # "enqueue" /\ pc'[c] # "enqueue" /\ pc'[c] # "wakestore" /\ pc'[c] # "commit"
      /\ pc[c] \notin {"reap", "free"} /\ pc'[c] \notin {"reap", "free"} /\ ~Choosing(c)
      /\ Choosing(c)' => p = Idle
  BY SMTT(30) DEF Leaving, Choosing
<1>4. StackInv'
  BY <1>1, <1>2, <1>3, StackFrame
<1>5. WakeInv'
  <2>1. \A u \in Threads : ~Storing(c, u)'
    BY <1>3 DEF Storing
  <2>2. QED
    BY <1>1, <1>2, <2>1, WakeFrame
<1>6. CountedInv' /\ runnable_count' \in [CpuIds -> Nat]
  <2>1. PICK n \in Nat : /\ runnable_count' = [runnable_count EXCEPT ![c] = runnable_count[c] + n]
                         /\ Cardinality(tasks_tree'[c]) = Cardinality(tasks_tree[c]) + n
    BY <1>2
  <2>2. Counted(c)' = Counted(c)
    BY <1>3 DEF Counted
  <2>3. runnable_count[c] = Cardinality(tasks_tree[c]) + Counted(c)
    BY DEF SchedInv, CountedInv
  <2>4. Cardinality(tasks_tree[c]) \in Nat /\ Counted(c) \in {0, 1} /\ runnable_count[c] \in Nat
    BY <1>1, TreesFinite, CountedNat
  <2>5. /\ runnable_count[c] + n = Cardinality(tasks_tree'[c]) + Counted(c)'
        /\ runnable_count[c] + n \in Nat
    BY SMTT(30), <2>1, <2>2, <2>3, <2>4
  <2>6. \A d \in CpuIds \ {c} : Counted(d)' = Counted(d)
    BY CountedSame
  <2>7. QED
    BY <1>2, <2>1, <2>5, <2>6, CountStep
<1>7. p \in Threads => on_cpu[p] /\ state[p] # "NEW" /\ ~Detached(p)
  BY CurrentFacts, OnCpuKnown
<1>8. KeepsDetached
  <2>1. \A u \in Threads, d \in CpuIds : Storing(d, u)' => Storing(d, u)
    BY <1>3 DEF Storing, Local
  <2>2. ASSUME NEW u \in Threads, Detached(u) PROVE Detached(u)' /\ state'[u] = state[u]
    <3>1. u # p /\ ~deadline_queued[u] /\ ~on_rq[u] /\ ~on_cpu[u]
      BY <1>7, <2>2 DEF Detached
    <3>2. state'[u] = state[u] /\ ~deadline_queued'[u] /\ ~on_rq'[u]
      BY <1>2, <3>1 DEF Woken
    <3>3. QED
      BY <2>1, <2>2, <3>1, <3>2 DEF Detached
  <2>3. QED
    BY <2>2 DEF KeepsDetached
<1>9. CreationInv'
  <2>1. ASSUME NEW u \in Threads, state'[u] = "NEW" PROVE state[u] = "NEW"
    BY <1>2, <2>1 DEF Woken
  <2>2. \A u \in Threads : loc'[c].t # u
    BY SchedConstants
  <2>3. QED
    BY <1>1, <1>3, <1>8, <2>1, <2>2, CreationFrame
<1>10. ReapInv'
  BY <1>1, <1>3, <1>8, ReapingKept, ReapFrame
<1>11. QueuedInv'
  <2>1. \A u \in Threads : UnderCreation(u)' <=> UnderCreation(u)
    BY <1>3 DEF UnderCreation, Local
  <2>2. ASSUME NEW u \in Threads PROVE QueuedOK(u)'
    <3>1. CASE \E d \in CpuIds : current_thread[d] = u
      BY <3>1 DEF QueuedOK
    <3>2. CASE ~\E d \in CpuIds : current_thread[d] = u
      <4>1. /\ state[u] \in {"READY", "RUNNING"} => on_rq[u] \/ UnderCreation(u)
            /\ state[u] = "BLOCKED" /\ wakeup_ticks[u] => deadline_queued[u]
        BY <1>1, <3>2 DEF QueuedInv, QueuedOK
      <4>2. u # p /\ Woken(c, u)
        BY <1>2, <3>2
      <4>3. /\ state'[u] \in {"READY", "RUNNING"} => on_rq'[u] \/ UnderCreation(u)'
            /\ state'[u] = "BLOCKED" /\ wakeup_ticks'[u] => deadline_queued'[u]
        BY <1>2, <2>1, <4>1, <4>2 DEF Woken
      <4>4. QED
        BY <4>3 DEF QueuedOK
    <3>3. QED
      BY <3>1, <3>2
  <2>3. QED
    BY <2>2 DEF QueuedInv
<1>12. ChoiceInv' /\ CurrentInv'
  <2>1. ChoiceOK(c)'
    BY <1>1, <1>2, <1>3 DEF ChoiceOK
  <2>2. Isolated(c)
    <3>1. ASSUME NEW d \in CpuIds \ {c}, NEW u \in Threads, current_thread[d] = u
          PROVE  /\ state'[u] = state[u] /\ wakeup_ticks'[u] = wakeup_ticks[u]
                 /\ deadline_queued'[u] = deadline_queued[u] /\ on_rq'[u] = on_rq[u]
      <4>1. cpu_index[u] = d /\ u # p
        BY <3>1, CurrentFacts
      <4>2. QED
        BY <1>2, <4>1 DEF Woken
    <3>2. QED
      BY <1>2, <3>1 DEF Isolated
  <2>3. QED
    BY <2>1, <2>2, OthersKeep DEF SchedInv
<1>13. DataTypes'
  BY <1>1, <1>2, <1>6 DEF DataTypes, SchedTypeOK, reapVars
<1>14. QED
  BY <1>2, <1>4, <1>5, <1>6, <1>9, <1>10, <1>11, <1>12, <1>13 DEF Rest

LEMMA NotDue ==
  ASSUME ThreadsCounted, SchedInv, NEW c \in CpuIds, NEW due, NEW st, NEW wt, NEW tree,
         Passes(c, due, st, wt, tree),
         sched_deadline_expire_locked(c, due, st, wt, tree)
  PROVE  \A u \in Threads : u \notin due =>
           /\ state'[u] = st[u] /\ wakeup_ticks'[u] = wt[u]
           /\ u \in tree => deadline_queued'[u]
<1>1. QED
  BY Expired

\* The caller that hands its state over unchanged.
LEMMA PassesOwn ==
  ASSUME SchedInv, NEW c \in CpuIds, NEW due \in SUBSET deadline_tree[c]
  PROVE  Passes(c, due, state, wakeup_ticks, deadline_tree[c])
<1>1. QED
  BY DEF Passes, SchedInv, SchedTypeOK

LEMMA TickRest ==
  ASSUME ThreadsCounted, SchedInv, NEW c \in CpuIds, Local(c), sched_tick(c)
  PROVE  Rest'
<1>1. /\ SchedTypeOK /\ LocalsInv /\ loc \in [CpuIds -> Locals]
  BY DEF SchedInv, SchedTypeOK
<1>2. PICK due \in SUBSET deadline_tree[c] :
        sched_deadline_expire_locked(c, due, state, wakeup_ticks, deadline_tree[c])
  BY DEF sched_tick
<1>3. /\ pc[c] = "run" /\ UNCHANGED <<on_cpu, current_thread, switching_from>> /\ UNCHANGED reapVars
      /\ \/ current_thread[c] = Idle /\ pc'[c] = "steal" /\ loc' = [loc EXCEPT ![c].from = "tick"]
         \/ pc'[c] \in {"run", "sched"} /\ UNCHANGED loc
  BY <1>1, GotoAt DEF sched_tick, cpuVars
<1>4. loc[c].t = None
  BY <1>1, <1>3 DEF LocalsInv, LocalsOK, Plain
<1>5. loc'[c].t = None
  <2>1. loc' = [loc EXCEPT ![c].from = "tick"] => loc'[c].t = loc[c].t
    BY SMTT(30), <1>1 DEF Locals
  <2>2. QED
    BY <1>3, <1>4, <2>1
<1>6. CurrentOK(c)'
  <2>1. pc'[c] \notin Dispatching /\ ~Choosing(c)' /\ (pc'[c] \in Stealing => current_thread[c] = Idle)
    BY SMTT(30), <1>3 DEF Dispatching, Choosing, Stealing
  <2>2. QED
    BY <1>3, <2>1, SchedConstants DEF CurrentOK
<1>7. QED
  BY <1>2, <1>3, <1>5, <1>6, PassesOwn, ExpireRest

LEMMA RelockRest ==
  ASSUME ThreadsCounted, SchedInv, NEW c \in CpuIds, Local(c), Relock(c)
  PROVE  Rest'
<1>1. /\ SchedTypeOK /\ LocalsInv /\ loc \in [CpuIds -> Locals]
  BY DEF SchedInv, SchedTypeOK
<1>2. /\ pc[c] = "relock" /\ UNCHANGED <<on_cpu, current_thread, switching_from>> /\ UNCHANGED reapVars
      /\ loc' = [loc EXCEPT ![c].from = "run"]
  BY DEF Relock, cpuVars
<1>3. loc[c].t = None
  BY <1>1, <1>2 DEF LocalsInv, LocalsOK, Stealing
<1>4. loc'[c].t = loc[c].t
  BY SMTT(30), <1>1, <1>2 DEF Locals
<1>5. CASE /\ UNCHANGED <<state, wakeup_ticks, cpu_index, on_rq, deadline_queued, rqVars>>
           /\ pc'[c] \in {"run", "sched", "put"}
  BY <1>2, <1>4, <1>5, VainSteps DEF rqVars
<1>6. CASE loc[c].from = "idle"
  <2>1. current_thread[c] = Idle
    BY <1>1, <1>2, <1>6 DEF LocalsInv, LocalsOK, Stealing
  <2>2. PICK due \in SUBSET deadline_tree[c] :
          sched_deadline_expire_locked(c, due, state, wakeup_ticks, deadline_tree[c])
    BY <1>6 DEF Relock
  <2>3. pc'[c] = "pick"
    BY <1>1, <1>6, GotoAt DEF Relock
  <2>4. CurrentOK(c)'
    BY <1>2, <2>1, SchedConstants DEF CurrentOK
  <2>5. QED
    BY <1>2, <1>3, <1>4, <2>1, <2>2, <2>3, <2>4, PassesOwn, ExpireRest
<1>7. QED
  BY <1>1, <1>5, <1>6, GotoAt DEF Relock

LEMMA ScheduleEnterRest ==
  ASSUME ThreadsCounted, SchedInv, NEW c \in CpuIds, Local(c), ScheduleEnter(c)
  PROVE  Rest'
<1> DEFINE p == current_thread[c]
           timed == p # Idle /\ state[p] = "BLOCKED" /\ wakeup_ticks[p]
           St(passed) == IF passed THEN [state EXCEPT ![p] = "RUNNING"] ELSE state
           Wt(passed) == IF passed THEN [wakeup_ticks EXCEPT ![p] = FALSE] ELSE wakeup_ticks
           Tree(passed) == deadline_tree[c] \cup (IF timed /\ ~passed THEN {p} ELSE {})
<1>1. /\ SchedTypeOK /\ LocalsInv /\ loc \in [CpuIds -> Locals] /\ p \in Threads \cup {Idle}
      /\ state \in [Threads -> States] /\ wakeup_ticks \in [Threads -> BOOLEAN]
  BY DEF SchedInv, SchedTypeOK
<1>2. PICK passed \in BOOLEAN, due \in SUBSET (deadline_tree[c] \ {p}) :
        /\ passed => timed
        /\ sched_deadline_expire_locked(c, due, St(passed), Wt(passed), Tree(passed))
  BY DEF ScheduleEnter
<1>3. /\ pc[c] = "lock" /\ UNCHANGED <<on_cpu, current_thread, switching_from>> /\ UNCHANGED reapVars
      /\ \/ /\ pc'[c] = "steal" /\ loc' = [loc EXCEPT ![c].from = "fast"] /\ state'[p] = "RUNNING"
         \/ pc'[c] = "put" /\ UNCHANGED loc
  BY <1>1, GotoAt DEF ScheduleEnter, cpuVars
<1>4. passed => p \in Threads
  BY <1>1, <1>2
<1>5. /\ St(passed) \in [Threads -> States] /\ Wt(passed) \in [Threads -> BOOLEAN]
      /\ \A u \in Threads \ {p} : St(passed)[u] = state[u] /\ Wt(passed)[u] = wakeup_ticks[u]
      /\ p \in Threads => St(passed)[p] \in {state[p], "RUNNING"}
      /\ ~passed => St(passed) = state /\ Wt(passed) = wakeup_ticks
      /\ passed => St(passed)[p] = "RUNNING"
  <2>1. CASE passed
    <3>1. St(passed) = [state EXCEPT ![p] = "RUNNING"] /\ Wt(passed) = [wakeup_ticks EXCEPT ![p] = FALSE]
      BY <2>1
    <3>2. p \in Threads /\ "RUNNING" \in States
      BY <1>4, <2>1 DEF States
    <3>3. QED
      BY <1>1, <2>1, <3>1, <3>2
  <2>2. CASE ~passed
    BY <1>1, <2>2
  <2>3. QED
    BY <2>1, <2>2
<1>6. Passes(c, due, St(passed), Wt(passed), Tree(passed))
  <2>1. \/ Tree(passed) = deadline_tree[c]
        \/ Tree(passed) = deadline_tree[c] \cup {p} /\ p \in Threads
    <3>1. CASE timed /\ ~passed
      BY <1>1, <3>1
    <3>2. CASE ~(timed /\ ~passed)
      BY <3>2
    <3>3. QED
      BY <3>1, <3>2
  <2>2. due \subseteq deadline_tree[c]
    OBVIOUS
  <2>3. QED
    BY <1>5, <2>1, <2>2 DEF Passes
<1>7. loc[c].t = None
  BY <1>1, <1>3 DEF LocalsInv, LocalsOK, Plain
<1>8. loc'[c].t = None
  <2>1. loc' = [loc EXCEPT ![c].from = "fast"] => loc'[c].t = loc[c].t
    BY SMTT(30), <1>1 DEF Locals
  <2>2. QED
    BY <1>3, <1>7, <2>1
<1>9. CurrentOK(c)'
  <2>1. \A u \in Threads : u \notin due => /\ state'[u] = St(passed)[u] /\ wakeup_ticks'[u] = Wt(passed)[u]
                                           /\ u \in Tree(passed) => deadline_queued'[u]
    <3>1. sched_deadline_expire_locked(c, due, St(passed), Wt(passed), Tree(passed))
      BY <1>2
    <3> HIDE DEF St, Wt, Tree, timed
    <3>2. QED
      BY <1>6, <3>1, NotDue
  <2>2. ASSUME p \in Threads, state'[p] = "BLOCKED", wakeup_ticks'[p] PROVE deadline_queued'[p]
    <3>1. p \notin due
      OBVIOUS
    <3>2. St(passed)[p] = "BLOCKED" /\ Wt(passed)[p]
      BY <2>1, <2>2, <3>1
    <3>3. ~passed
      BY <1>5, <3>2
    <3>4. timed
      BY <1>5, <2>2, <3>2, <3>3, SchedConstants
    <3>5. p \in Tree(passed)
      BY <3>3, <3>4
    <3>6. QED
      BY <2>1, <2>2, <3>1, <3>5
  <2>3. ~Choosing(c)' /\ (pc'[c] \in Stealing => state'[p] = "RUNNING")
    BY SMTT(30), <1>3 DEF Choosing, Stealing
  <2>4. QED
    BY <1>3, <2>2, <2>3 DEF CurrentOK
<1>10. QED
  BY <1>2, <1>3, <1>6, <1>8, <1>9, ExpireRest

-----------------------------------------------------------------------------
(* The outgoing thread is put back or taken off the count *)

LEMMA PutEffect ==
  ASSUME ThreadsCounted, SchedInv, NEW c \in CpuIds, Local(c), PutPrev(c), NEW p, p = current_thread[c]
  PROVE  /\ tasks_tree' \in [CpuIds -> SUBSET Threads] /\ on_rq' \in [Threads -> BOOLEAN]
         /\ deadline_tree' \in [CpuIds -> SUBSET Threads] /\ deadline_queued' \in [Threads -> BOOLEAN]
         /\ runnable_count' \in [CpuIds -> Nat]
         /\ UNCHANGED cpu_index /\ TasksInv' /\ DeadlinesInv' /\ CountedInv'
         /\ \A d \in CpuIds \ {c} : tasks_tree'[d] = tasks_tree[d]
         /\ \A u \in Threads \ {p} : on_rq'[u] = on_rq[u] /\ deadline_queued'[u] = deadline_queued[u]
         /\ pc'[c] = "pick" \/ (pc'[c] = "steal" /\ p = Idle /\ tasks_tree'[c] = {})
         /\ p \in Threads => /\ on_rq'[p] \/ state[p] \in {"BLOCKED", "DEAD"}
                             /\ state[p] = "BLOCKED" => deadline_queued'[p] = deadline_queued[p]
<1>1. /\ SchedTypeOK /\ TasksInv /\ DeadlinesInv /\ ChoiceOK(c) /\ p \in Threads \cup {Idle}
      /\ tasks_tree \in [CpuIds -> SUBSET Threads] /\ deadline_tree \in [CpuIds -> SUBSET Threads]
      /\ on_rq \in [Threads -> BOOLEAN] /\ deadline_queued \in [Threads -> BOOLEAN]
      /\ cpu_index \in [Threads -> CpuIds] /\ runnable_count \in [CpuIds -> Nat]
      /\ Idle \notin Threads
  BY SchedConstants DEF SchedInv, SchedTypeOK, ChoiceInv
<1>2. /\ pc[c] = "put" /\ ~Choosing(c) /\ p \notin tasks_tree[c]
  BY <1>1 DEF PutPrev, Choosing, ChoiceOK
<1>3. p \in Threads => cpu_index[p] = c /\ ~on_rq[p]
  BY <1>1, <1>2, CurrentFacts DEF TasksInv
<1>4. /\ runnable_count[c] = Cardinality(tasks_tree[c]) + Counted(c)
      /\ Counted(c) = IF p = Idle THEN 0 ELSE 1
      /\ Cardinality(tasks_tree[c]) \in Nat /\ runnable_count[c] \in Nat
  BY <1>1, <1>2, TreesFinite DEF SchedInv, CountedInv, Counted
<1>5. UNCHANGED current_thread
  BY DEF PutPrev, cpuVars
<1>6. \A d \in CpuIds \ {c} : Counted(d)' = Counted(d)
  BY <1>5, CountedSame
<1>7. /\ tasks_tree'[c] = {} /\ Runnable(p) => pc'[c] = "steal"
      /\ ~(tasks_tree'[c] = {} /\ Runnable(p)) => pc'[c] = "pick"
  BY <1>1, GotoAt DEF PutPrev
\* A thread that does not go on: it is in no tree, and only the count changes.
<1>8. ASSUME p \in Threads, state[p] \in {"BLOCKED", "DEAD"},
             tasks_tree' = [tasks_tree EXCEPT ![c] = @ \ {p}],
             on_rq' = [on_rq EXCEPT ![p] = FALSE],
             runnable_count' = [runnable_count EXCEPT ![c] = Dec(@)],
             UNCHANGED cpu_index
      PROVE  /\ UNCHANGED <<tasks_tree, on_rq>> /\ pc'[c] = "pick" /\ TasksInv' /\ CountedInv'
             /\ runnable_count' \in [CpuIds -> Nat]
  <2>1. tasks_tree[c] \ {p} = tasks_tree[c] /\ on_rq[p] = FALSE
    BY SMTT(30), <1>1, <1>2, <1>3, <1>8
  <2>2. UNCHANGED <<tasks_tree, on_rq>>
    BY <1>1, <1>8, <2>1
  <2>3. pc'[c] = "pick"
    BY <1>1, <1>7, <1>8 DEF Runnable
  <2>4. Counted(c)' = 0
    BY <2>3 DEF Counted, Choosing
  <2>5. p # Idle /\ Counted(c) = 1
    BY <1>1, <1>4, <1>8
  <2>6. /\ Dec(runnable_count[c]) = Cardinality(tasks_tree'[c]) + Counted(c)'
        /\ Dec(runnable_count[c]) \in Nat
    BY SMTT(30), <1>4, <2>2, <2>4, <2>5 DEF Dec
  <2>7. CountedInv' /\ runnable_count' \in [CpuIds -> Nat]
    BY <1>6, <1>8, <2>2, <2>6, CountStep
  <2>8. QED
    BY <1>1, <1>8, <2>2, <2>3, <2>7, TasksFrame
<1>9. CASE /\ p # Idle /\ Dead(p)
           /\ sched_deadline_remove_locked(p, c)
           /\ tasks_tree' = [tasks_tree EXCEPT ![c] = @ \ {p}]
           /\ on_rq' = [on_rq EXCEPT ![p] = FALSE]
           /\ runnable_count' = [runnable_count EXCEPT ![c] = Dec(@)]
           /\ UNCHANGED cpu_index
  <2>1. p \in Threads /\ state[p] = "DEAD" /\ cpu_index[p] = c
    BY <1>1, <1>3, <1>9 DEF Dead
  <2>2. /\ deadline_tree' \in [CpuIds -> SUBSET Threads] /\ deadline_queued' \in [Threads -> BOOLEAN]
        /\ \A u \in Threads \ {p} : deadline_queued'[u] = deadline_queued[u]
        /\ DeadlinesInv'
    BY <1>9, <2>1, Unarm
  <2>3. /\ UNCHANGED <<tasks_tree, on_rq>> /\ pc'[c] = "pick" /\ TasksInv' /\ CountedInv'
        /\ runnable_count' \in [CpuIds -> Nat]
    BY <1>8, <1>9, <2>1
  <2>4. QED
    BY <1>1, <1>9, <2>1, <2>2, <2>3
<1>10. CASE /\ p # Idle /\ state[p] = "BLOCKED"
            /\ tasks_tree' = [tasks_tree EXCEPT ![c] = @ \ {p}]
            /\ on_rq' = [on_rq EXCEPT ![p] = FALSE]
            /\ runnable_count' = [runnable_count EXCEPT ![c] = Dec(@)]
            /\ UNCHANGED <<cpu_index, deadline_tree, deadline_queued>>
  <2>1. p \in Threads
    BY <1>1, <1>10
  <2>2. DeadlinesInv'
    BY <1>1, <1>10, DeadlinesFrame
  <2>3. /\ UNCHANGED <<tasks_tree, on_rq>> /\ pc'[c] = "pick" /\ TasksInv' /\ CountedInv'
        /\ runnable_count' \in [CpuIds -> Nat]
    BY <1>8, <1>10, <2>1
  <2>4. QED
    BY <1>1, <1>10, <2>1, <2>2, <2>3
<1>11. CASE /\ p # Idle /\ Runnable(p)
            /\ cpu_index' = [cpu_index EXCEPT ![p] = c]
            /\ tasks_tree' = [tasks_tree EXCEPT ![c] = @ \cup {p}]
            /\ on_rq' = [on_rq EXCEPT ![p] = TRUE]
            /\ UNCHANGED <<runnable_count, deadline_tree, deadline_queued>>
  <2>1. p \in Threads /\ state[p] \in {"RUNNING", "READY"} /\ cpu_index[p] = c /\ ~on_rq[p]
    BY <1>1, <1>3, <1>11 DEF Runnable
  <2>2. /\ tasks_tree' \in [CpuIds -> SUBSET Threads] /\ on_rq' \in [Threads -> BOOLEAN]
        /\ TasksInv' /\ on_rq'[p]
        /\ \A u \in Threads \ {p} : on_rq'[u] = on_rq[u]
        /\ tasks_tree'[c] = tasks_tree[c] \cup {p}
        /\ \A d \in CpuIds \ {c} : tasks_tree'[d] = tasks_tree[d]
        /\ Cardinality(tasks_tree'[c]) = Cardinality(tasks_tree[c]) + 1
    BY <1>11, <2>1, Link
  <2>3. UNCHANGED cpu_index
    BY <1>1, <1>11, <2>1
  <2>4. DeadlinesInv'
    BY <1>1, <1>11, <2>3, DeadlinesFrame
  <2>5. pc'[c] = "pick"
    BY <1>7, <2>2
  <2>6. Counted(c)' = 0 /\ Counted(c) = 1
    BY <1>4, <1>11, <2>5 DEF Counted, Choosing
  <2>7. runnable_count[c] = Cardinality(tasks_tree'[c]) + Counted(c)'
    BY SMTT(30), <1>4, <2>2, <2>6
  <2>8. CountedInv'
    <3>1. runnable_count' = [runnable_count EXCEPT ![c] = runnable_count[c]]
      BY <1>1, <1>11
    <3>2. QED
      BY <1>4, <1>6, <2>2, <2>7, <3>1, CountStep
  <2>9. QED
    BY <1>1, <1>11, <2>1, <2>2, <2>3, <2>4, <2>5, <2>8
<1>12. CASE p = Idle /\ UNCHANGED <<cpu_index, on_rq, deadline_queued, rqVars>>
  <2>1. UNCHANGED <<cpu_index, on_rq, deadline_queued, tasks_tree, deadline_tree, runnable_count>>
    BY <1>12 DEF rqVars
  <2>2. TasksInv' /\ DeadlinesInv'
    BY <1>1, <2>1, TasksFrame, DeadlinesFrame
  <2>3. Counted(c)' = Counted(c)
    BY <1>4, <1>5, <1>12 DEF Counted
  <2>4. \A d \in CpuIds : Counted(d)' = Counted(d)
    BY <1>6, <2>3
  <2>5. CountedInv'
    BY <2>1, <2>4 DEF SchedInv, CountedInv
  <2>6. QED
    BY <1>1, <1>7, <1>12, <2>1, <2>2, <2>5
<1>13. QED
  BY <1>9, <1>10, <1>11, <1>12 DEF PutPrev

LEMMA PutPrevRest ==
  ASSUME ThreadsCounted, SchedInv, NEW c \in CpuIds, Local(c), PutPrev(c)
  PROVE  Rest'
<1> DEFINE p == current_thread[c]
<1>1. /\ SchedTypeOK /\ LocalsInv /\ StackInv /\ WakeInv /\ CreationInv /\ ReapInv /\ QueuedInv
      /\ CurrentOK(c) /\ loc \in [CpuIds -> Locals] /\ None \notin freed
  BY SchedConstants DEF SchedInv, SchedTypeOK, CurrentInv
<1>2. /\ pc[c] = "put" /\ UNCHANGED <<state, wakeup_ticks, on_cpu, current_thread, switching_from>>
      /\ UNCHANGED reapVars
      /\ UNCHANGED loc \/ loc' = [loc EXCEPT ![c].from = "idle"]
  BY DEF PutPrev, cpuVars
<1>3. /\ tasks_tree' \in [CpuIds -> SUBSET Threads] /\ on_rq' \in [Threads -> BOOLEAN]
      /\ deadline_tree' \in [CpuIds -> SUBSET Threads] /\ deadline_queued' \in [Threads -> BOOLEAN]
      /\ runnable_count' \in [CpuIds -> Nat]
      /\ UNCHANGED cpu_index /\ TasksInv' /\ DeadlinesInv' /\ CountedInv'
      /\ \A d \in CpuIds \ {c} : tasks_tree'[d] = tasks_tree[d]
      /\ \A u \in Threads \ {p} : on_rq'[u] = on_rq[u] /\ deadline_queued'[u] = deadline_queued[u]
      /\ pc'[c] = "pick" \/ (pc'[c] = "steal" /\ p = Idle /\ tasks_tree'[c] = {})
      /\ p \in Threads => /\ on_rq'[p] \/ state[p] \in {"BLOCKED", "DEAD"}
                          /\ state[p] = "BLOCKED" => deadline_queued'[p] = deadline_queued[p]
  BY PutEffect
<1>4. loc[c].t = None
  BY <1>1, <1>2 DEF LocalsInv, LocalsOK, Plain
<1>5. loc'[c].t = None
  <2>1. loc' = [loc EXCEPT ![c].from = "idle"] => loc'[c].t = loc[c].t
    BY SMTT(30), <1>1 DEF Locals
  <2>2. QED
    BY <1>2, <1>4, <2>1
<1>6. /\ pc[c] \notin Leaving /\ pc'[c] \notin Leaving /\ pc[c] \in Dispatching
      /\ pc[c] # "enqueue" /\ pc'[c] # "enqueue" /\ pc'[c] # "wakestore" /\ pc'[c] # "commit"
      /\ pc[c] \notin {"reap", "free"} /\ pc'[c] \notin {"reap", "free"}
      /\ ~Choosing(c)' => p = Idle /\ tasks_tree'[c] = {}
      /\ pc'[c] \in Stealing => p = Idle
  BY SMTT(30), <1>2, <1>3 DEF Leaving, Choosing, Dispatching, Stealing
<1>7. StackInv'
  BY <1>1, <1>2, <1>3, <1>6, StackFrame
<1>8. WakeInv'
  <2>1. \A u \in Threads : ~Storing(c, u)'
    BY <1>6 DEF Storing
  <2>2. QED
    BY <1>1, <1>3, <2>1, WakeFrame
<1>9. KeepsDetached
  <2>1. \A u \in Threads, d \in CpuIds : Storing(d, u)' => Storing(d, u)
    BY <1>6 DEF Storing, Local
  <2>2. \A u \in Threads : Detached(u) => u # p
    BY CurrentFacts, OnCpuKnown
  <2>3. QED
    BY <1>2, <1>3, <2>1, <2>2 DEF KeepsDetached, Detached
<1>10. CreationInv'
  <2>1. \A u \in Threads : loc'[c].t # u
    BY <1>5, SchedConstants
  <2>2. QED
    BY <1>1, <1>2, <1>6, <1>9, <2>1, CreationFrame
<1>11. ReapInv'
  BY <1>1, <1>2, <1>5, <1>6, <1>9, ReapingKept, ReapFrame
<1>12. QueuedInv'
  <2>1. \A u \in Threads : UnderCreation(u)' <=> UnderCreation(u)
    BY <1>6 DEF UnderCreation, Local
  <2>2. \A u \in Threads : u = p => QueuedOK(u)'
    BY <1>2 DEF QueuedOK
  <2>3. \A u \in Threads \ {p} : QueuedOK(u)'
    BY <1>1, <1>2, <1>3, <2>1 DEF QueuedInv, QueuedOK
  <2>4. QED
    BY <2>2, <2>3 DEF QueuedInv
<1>13. ChoiceInv' /\ CurrentInv'
  <2>1. ChoiceOK(c)'
    BY <1>2, <1>6 DEF ChoiceOK
  <2>2. CurrentOK(c)'
    <3>1. ASSUME NEW u \in Threads, p = u
          PROVE  /\ on_rq'[u] \/ state[u] \in {"BLOCKED", "DEAD"}
                 /\ state[u] = "BLOCKED" /\ wakeup_ticks[u] => deadline_queued'[u]
                 /\ u # Idle
      BY <1>1, <1>3, <1>6, <3>1, SchedConstants DEF CurrentOK
    <3>2. QED
      BY <1>2, <1>6, <3>1 DEF CurrentOK
  <2>3. Isolated(c)
    <3>1. \A d \in CpuIds \ {c}, u \in Threads : current_thread[d] = u => u # p
      BY CurrentFacts
    <3>2. QED
      BY <1>2, <1>3, <3>1 DEF Isolated
  <2>4. QED
    BY <1>2, <2>1, <2>2, <2>3, OthersKeep DEF SchedInv
<1>14. DataTypes'
  BY <1>1, <1>2, <1>3 DEF DataTypes, SchedTypeOK, reapVars
<1>15. QED
  BY <1>3, <1>7, <1>8, <1>10, <1>11, <1>12, <1>13, <1>14 DEF Rest

-----------------------------------------------------------------------------
(* The switch *)

\* c switches from p to n, or goes on with p: what it does to itself, ...
SwitchPlaces(c, p, n) ==
  /\ \/ n # p /\ pc'[c] = "switch" /\ loc'[c].t = p /\ switching_from'[c] = p
     \/ n = p /\ pc'[c] = "run" /\ loc'[c].t = None /\ UNCHANGED switching_from
  /\ current_thread'[c] = n
  /\ \A d \in CpuIds \ {c} : /\ current_thread'[d] = current_thread[d]
                             /\ switching_from'[d] = switching_from[d]

\* ... to its tree, ...
SwitchTrees(c, n) ==
  /\ tasks_tree'[c] = tasks_tree[c] \ {n}
  /\ \A d \in CpuIds \ {c} : tasks_tree'[d] = tasks_tree[d]
  /\ \A u \in Threads \ {n} : on_rq'[u] = on_rq[u] /\ on_cpu'[u] = on_cpu[u]
  /\ \A u \in Threads : u = n => ~on_rq'[u] /\ on_cpu'[u]

\* ... and to the two threads.
SwitchStates(p, n) ==
  /\ \A u \in Threads \ {n, p} : state'[u] = state[u]
  /\ \A u \in Threads : u = p /\ p # n =>
       state'[u] = IF state[u] = "RUNNING" THEN "READY" ELSE state[u]
  /\ \A u \in Threads : u = n => state'[u] # "NEW"

Switches(c, p, n) ==
  /\ p \in Threads \cup {Idle} /\ n \in Threads \cup {Idle} /\ pc[c] = "commit"
  /\ n \in Threads => n \in tasks_tree[c] /\ on_rq[n] /\ cpu_index[n] = c
  /\ SwitchPlaces(c, p, n) /\ SwitchTrees(c, n) /\ SwitchStates(p, n)
  /\ UNCHANGED <<wakeup_ticks, cpu_index, deadline_queued, deadline_tree, runnable_count>>
  /\ UNCHANGED reapVars
  /\ tasks_tree' \in [CpuIds -> SUBSET Threads] /\ on_rq' \in [Threads -> BOOLEAN]
  /\ on_cpu' \in [Threads -> BOOLEAN] /\ state' \in [Threads -> States]

LEMMA CommitEffect ==
  ASSUME SchedInv, NEW c \in CpuIds, Local(c), Commit(c),
         NEW p, p = current_thread[c], NEW n, n = loc[c].t
  PROVE  Switches(c, p, n)
<1>1. /\ SchedTypeOK /\ LocalsInv /\ TasksInv /\ ChoiceOK(c) /\ p \in Threads \cup {Idle}
      /\ tasks_tree \in [CpuIds -> SUBSET Threads] /\ on_cpu \in [Threads -> BOOLEAN]
      /\ on_rq \in [Threads -> BOOLEAN] /\ state \in [Threads -> States]
      /\ current_thread \in [CpuIds -> Threads \cup {Idle}]
      /\ switching_from \in [CpuIds -> Threads \cup {Idle, None}]
      /\ Idle \notin Threads /\ loc \in [CpuIds -> Locals]
  BY SchedConstants DEF SchedInv, SchedTypeOK, ChoiceInv
<1>2. pc[c] = "commit" /\ n \in Threads \cup {Idle}
  BY <1>1 DEF Commit, LocalsInv, LocalsOK
<1>3. n \in Threads => n \in tasks_tree[c] /\ on_rq[n] /\ cpu_index[n] = c
  BY <1>1, <1>2 DEF ChoiceOK, TasksInv
<1>4. /\ tasks_tree' = [tasks_tree EXCEPT ![c] = @ \ {n}]
      /\ on_rq' = [t \in Threads |-> on_rq[t] /\ t # n]
      /\ state' = [t \in Threads |->
                     IF t = n /\ n # p THEN "RUNNING"
                     ELSE IF (p # Idle /\ p # n /\ state[p] = "RUNNING") /\ t = p THEN "READY" ELSE state[t]]
      /\ on_cpu' = [t \in Threads |-> on_cpu[t] \/ t = n]
      /\ UNCHANGED <<wakeup_ticks, cpu_index, deadline_queued, deadline_tree, runnable_count>>
      /\ UNCHANGED reapVars
  BY DEF Commit
<1>5. \/ /\ n # p /\ switching_from' = [switching_from EXCEPT ![c] = p]
         /\ current_thread' = [current_thread EXCEPT ![c] = n]
         /\ loc' = [loc EXCEPT ![c].t = p] /\ pc'[c] = "switch"
      \/ /\ n = p /\ loc' = [loc EXCEPT ![c] = NoLocals] /\ pc'[c] = "run"
         /\ UNCHANGED <<current_thread, switching_from>>
  BY <1>1, GotoAt DEF Commit, Return, cpuVars
<1>6. /\ loc' = [loc EXCEPT ![c].t = p] => loc'[c].t = p
      /\ loc' = [loc EXCEPT ![c] = NoLocals] => loc'[c].t = None
  BY SMTT(30), <1>1 DEF Locals, NoLocals
<1>7. /\ \/ n # p /\ pc'[c] = "switch" /\ loc'[c].t = p /\ switching_from'[c] = p
         \/ n = p /\ pc'[c] = "run" /\ loc'[c].t = None /\ UNCHANGED switching_from
      /\ current_thread'[c] = n
      /\ \A d \in CpuIds \ {c} : /\ current_thread'[d] = current_thread[d]
                                 /\ switching_from'[d] = switching_from[d]
  BY <1>1, <1>5, <1>6
<1>8. /\ tasks_tree'[c] = tasks_tree[c] \ {n}
      /\ \A d \in CpuIds \ {c} : tasks_tree'[d] = tasks_tree[d]
  BY <1>1, <1>4
<1>9. /\ on_rq' \in [Threads -> BOOLEAN] /\ on_cpu' \in [Threads -> BOOLEAN]
      /\ \A u \in Threads \ {n} : on_rq'[u] = on_rq[u] /\ on_cpu'[u] = on_cpu[u]
      /\ \A u \in Threads : u = n => ~on_rq'[u] /\ on_cpu'[u]
  <2>1. \A u \in Threads : on_rq'[u] = (on_rq[u] /\ u # n) /\ on_cpu'[u] = (on_cpu[u] \/ u = n)
    BY <1>4
  <2>2. on_rq' \in [Threads -> BOOLEAN] /\ on_cpu' \in [Threads -> BOOLEAN]
    BY SMTT(30), <1>4
  <2>3. QED
    BY SMTT(30), <1>1, <2>1, <2>2
<1>10. tasks_tree' \in [CpuIds -> SUBSET Threads]
  BY SMTT(30), <1>1, <1>4
<1>11. \A u \in Threads : state'[u] =
           IF u = n /\ n # p THEN "RUNNING"
           ELSE IF (p # Idle /\ p # n /\ state[p] = "RUNNING") /\ u = p THEN "READY" ELSE state[u]
  BY <1>4
<1>12. state' \in [Threads -> States]
  <2>1. \A u \in Threads : state'[u] \in States
    BY SMTT(30), <1>1, <1>11 DEF States
  <2>2. QED
    BY <1>4, <2>1
<1>13. /\ \A u \in Threads \ {n, p} : state'[u] = state[u]
       /\ \A u \in Threads : u = p /\ p # n =>
            state'[u] = IF state[u] = "RUNNING" THEN "READY" ELSE state[u]
  BY SMTT(30), <1>1, <1>11
<1>14. \A u \in Threads : u = n => state'[u] # "NEW"
  <2>1. \A u \in Threads : u = n => state[u] # "NEW"
    BY <1>3, OnCpuKnown
  <2>2. QED
    BY SMTT(30), <1>11, <2>1
<1>15. SwitchPlaces(c, p, n)
  BY <1>7 DEF SwitchPlaces
<1>16. SwitchTrees(c, n)
  BY <1>8, <1>9 DEF SwitchTrees
<1>17. SwitchStates(p, n)
  BY <1>13, <1>14 DEF SwitchStates
<1>18. QED
  BY <1>1, <1>2, <1>3, <1>4, <1>9, <1>10, <1>12, <1>15, <1>16, <1>17 DEF Switches

LEMMA CommitRest ==
  ASSUME ThreadsCounted, SchedInv, NEW c \in CpuIds, Local(c), Commit(c)
  PROVE  Rest'
<1>1. PICK p, n : p = current_thread[c] /\ n = loc[c].t
  OBVIOUS
<1>2. /\ p \in Threads \cup {Idle} /\ n \in Threads \cup {Idle} /\ pc[c] = "commit"
      /\ n \in Threads => n \in tasks_tree[c] /\ on_rq[n] /\ cpu_index[n] = c
      /\ SwitchPlaces(c, p, n) /\ SwitchTrees(c, n) /\ SwitchStates(p, n)
      /\ UNCHANGED <<wakeup_ticks, cpu_index, deadline_queued, deadline_tree, runnable_count>>
      /\ UNCHANGED reapVars
      /\ tasks_tree' \in [CpuIds -> SUBSET Threads] /\ on_rq' \in [Threads -> BOOLEAN]
      /\ on_cpu' \in [Threads -> BOOLEAN] /\ state' \in [Threads -> States]
  <2>1. Switches(c, p, n)
    BY <1>1, CommitEffect
  <2>2. QED
    BY <2>1 DEF Switches
<1>3. /\ SchedTypeOK /\ StackInv /\ TasksInv /\ DeadlinesInv /\ WakeInv /\ CreationInv /\ ReapInv
      /\ QueuedInv /\ CurrentOK(c) /\ ChoiceOK(c) /\ None \notin freed /\ freed \subseteq Threads
      /\ Idle \notin Threads /\ None \notin Threads
  BY SchedConstants DEF SchedInv, SchedTypeOK, CurrentInv, ChoiceInv
<1>4. /\ Choosing(c) /\ ~Choosing(c)' /\ pc[c] \notin Leaving /\ pc[c] \in Dispatching
      /\ pc'[c] \notin Dispatching /\ pc'[c] \notin Stealing
      /\ pc'[c] \in Leaving <=> n # p
      /\ pc'[c] = "switch" <=> n # p
      /\ pc'[c] # "enqueue" /\ pc'[c] # "wakestore" /\ pc'[c] # "commit" /\ pc'[c] \notin {"reap", "free"}
  BY SMTT(30), <1>2 DEF Choosing, Leaving, Dispatching, Stealing, SwitchPlaces
<1>5. p \in Threads => on_cpu[p] /\ cpu_index[p] = c /\ state[p] # "NEW" /\ p \notin freed /\ ~Detached(p)
  BY <1>1, CurrentFacts, OnCpuKnown
<1>6. StackInv'
  <2>1. \A d \in CpuIds : switching_from'[d] = IF pc'[d] = "switch" THEN loc'[d].t ELSE None
    <3>1. ASSUME NEW d \in CpuIds \ {c}
          PROVE  switching_from'[d] = IF pc'[d] = "switch" THEN loc'[d].t ELSE None
      <4>1. switching_from'[d] = switching_from[d] /\ pc'[d] = pc[d] /\ loc'[d] = loc[d]
        BY <1>2 DEF Local, SwitchPlaces
      <4>2. switching_from[d] = IF pc[d] = "switch" THEN loc[d].t ELSE None
        BY <1>3 DEF StackInv
      <4>3. QED
        BY <4>1, <4>2
    <3>2. switching_from[c] = None
      BY <1>2, <1>3 DEF StackInv
    <3>3. switching_from'[c] = IF pc'[c] = "switch" THEN loc'[c].t ELSE None
      BY <1>2, <1>4, <3>2 DEF SwitchPlaces
    <3>4. QED
      BY <3>1, <3>3
  <2>2. \A d \in CpuIds : pc'[d] \in Leaving => loc'[d].t # current_thread'[d]
    <3>1. \A d \in CpuIds \ {c} : pc'[d] \in Leaving => loc'[d].t # current_thread'[d]
      BY <1>2, <1>3 DEF StackInv, Local, SwitchPlaces
    <3>2. pc'[c] \in Leaving => loc'[c].t # current_thread'[c]
      BY <1>2, <1>4 DEF SwitchPlaces
    <3>3. QED
      BY <3>1, <3>2
  <2>3. \A d \in CpuIds \ {c}, u \in Threads : Occupies(d, u)' <=> Occupies(d, u)
    BY <1>2 DEF Occupies, Local, SwitchPlaces
  <2>4. \A u \in Threads : Occupies(c, u) <=> u = p
    BY <1>1, <1>4 DEF Occupies
  <2>5. \A u \in Threads : Occupies(c, u)' <=> u = n \/ u = p
    BY <1>2, <1>4 DEF Occupies, SwitchPlaces
  <2>6. \A u \in Threads, d \in CpuIds : Occupies(d, u)' => cpu_index'[u] = d
    <3>1. \A u \in Threads, d \in CpuIds \ {c} : Occupies(d, u)' => cpu_index'[u] = d
      BY <1>2, <1>3, <2>3 DEF StackInv
    <3>2. \A u \in Threads : Occupies(c, u)' => cpu_index'[u] = c
      BY <1>2, <1>5, <2>5
    <3>3. QED
      BY <3>1, <3>2
  <2>7. ASSUME NEW u \in Threads PROVE on_cpu'[u] <=> \E d \in CpuIds : Occupies(d, u)'
    <3>1. on_cpu[u] <=> \E d \in CpuIds : Occupies(d, u)
      BY <1>3 DEF StackInv
    <3>2. CASE u = n
      BY <1>2, <2>5, <3>2 DEF SwitchTrees
    <3>3. CASE u # n
      <4>1. on_cpu'[u] = on_cpu[u]
        BY <1>2, <3>3 DEF SwitchTrees
      <4>2. \A d \in CpuIds : Occupies(d, u)' <=> Occupies(d, u)
        BY <2>3, <2>4, <2>5, <3>3
      <4>3. QED
        BY <3>1, <4>1, <4>2
    <3>4. QED
      BY <3>2, <3>3
  <2>8. QED
    BY <2>1, <2>2, <2>6, <2>7 DEF StackInv
<1>7. TasksInv'
  <2>1. ASSUME NEW u \in Threads, NEW d \in CpuIds
        PROVE  u \in tasks_tree'[d] <=> on_rq'[u] /\ cpu_index'[u] = d
    <3>1. u \in tasks_tree[d] <=> on_rq[u] /\ cpu_index[u] = d
      BY <1>3 DEF TasksInv
    <3>2. CASE u = n
      <4>1. u \notin tasks_tree'[d]
        BY <1>2, <3>1, <3>2 DEF SwitchTrees
      <4>2. QED
        BY <1>2, <3>2, <4>1 DEF SwitchTrees
    <3>3. CASE u # n
      <4>1. u \in tasks_tree'[d] <=> u \in tasks_tree[d]
        BY <1>2, <3>3 DEF SwitchTrees
      <4>2. QED
        BY <1>2, <3>1, <3>3, <4>1 DEF SwitchTrees
    <3>4. QED
      BY <3>2, <3>3
  <2>2. QED
    BY <2>1 DEF TasksInv
<1>8. DeadlinesInv'
  BY <1>2, <1>3, DeadlinesFrame
<1>9. CountedInv' /\ runnable_count' \in [CpuIds -> Nat]
  <2>1. Cardinality(tasks_tree[c]) \in Nat /\ tasks_tree[c] \in SUBSET Threads
    BY <1>3, TreesFinite
  <2>2. Cardinality(tasks_tree'[c]) = IF n \in Threads THEN Cardinality(tasks_tree[c]) - 1 ELSE Cardinality(tasks_tree[c])
    <3>1. tasks_tree'[c] = tasks_tree[c] \ {n} /\ (n \in tasks_tree[c] <=> n \in Threads)
      BY <1>2, <2>1 DEF SwitchTrees
    <3>2. Cardinality(tasks_tree[c] \ {n})
            = IF n \in tasks_tree[c] THEN Cardinality(tasks_tree[c]) - 1 ELSE Cardinality(tasks_tree[c])
      <4>1. CASE n \in tasks_tree[c]
        BY <2>1, <4>1 DEF ThreadsCounted
      <4>2. CASE n \notin tasks_tree[c]
        <5>1. tasks_tree[c] \ {n} = tasks_tree[c]
          BY <4>2
        <5>2. QED
          BY <4>2, <5>1
      <4>3. QED
        BY <4>1, <4>2
    <3>3. QED
      BY <3>1, <3>2
  <2>3. /\ runnable_count[c] = Cardinality(tasks_tree[c]) + 0
        /\ runnable_count[c] \in Nat
    BY <1>3, <1>4 DEF SchedInv, CountedInv, Counted, SchedTypeOK
  <2>4. Counted(c)' = IF n \in Threads THEN 1 ELSE 0
    BY <1>2, <1>3, <1>4 DEF Counted, SwitchPlaces
  <2>5. runnable_count[c] = Cardinality(tasks_tree'[c]) + Counted(c)'
    BY SMTT(30), <2>1, <2>2, <2>3, <2>4
  <2>6. runnable_count' = [runnable_count EXCEPT ![c] = runnable_count[c]]
    BY <1>2, <1>3 DEF SchedTypeOK
  <2>7. \A d \in CpuIds \ {c} : tasks_tree'[d] = tasks_tree[d] /\ Counted(d)' = Counted(d)
    BY <1>2, CountedSame DEF SwitchPlaces, SwitchTrees
  <2>8. QED
    BY <2>3, <2>5, <2>6, <2>7, CountStep
<1>10. WakeInv'
  <2>1. \A u \in Threads : ~Storing(c, u)'
    BY <1>4 DEF Storing
  <2>2. QED
    BY <1>2, <1>3, <2>1, WakeFrame
<1>11. KeepsDetached
  <2>1. \A u \in Threads, d \in CpuIds : Storing(d, u)' => Storing(d, u)
    BY <1>4 DEF Storing, Local
  <2>2. ASSUME NEW u \in Threads, Detached(u) PROVE Detached(u)' /\ state'[u] = state[u]
    <3>1. u # p /\ u # n
      BY <1>2, <1>5, <2>2 DEF Detached
    <3>2. QED
      BY <1>2, <2>1, <2>2, <3>1 DEF Detached, SwitchTrees, SwitchStates
  <2>3. QED
    BY <2>2 DEF KeepsDetached
<1>12. CreationInv'
  <2>1. ASSUME NEW u \in Threads, state'[u] = "NEW" PROVE state[u] = "NEW"
    <3>1. u # n
      BY <1>2, <2>1 DEF SwitchStates
    <3>2. ASSUME u = p PROVE FALSE
      <4>1. state'[u] = IF state[u] = "RUNNING" THEN "READY" ELSE state[u]
        BY <1>2, <3>1, <3>2 DEF SwitchStates
      <4>2. state[u] # "NEW"
        BY <1>5, <3>2
      <4>3. QED
        BY <2>1, <4>1, <4>2
    <3>3. QED
      BY <1>2, <2>1, <3>1, <3>2 DEF SwitchStates
  <2>2. \A u \in Threads : loc'[c].t = u => state[u] # "NEW"
    <3>1. loc'[c].t \in {p, None}
      BY <1>2 DEF SwitchPlaces
    <3>2. p \in Threads => state[p] # "NEW"
      BY <1>5
    <3>3. QED
      BY <3>1, <3>2, SchedConstants
  <2>3. pc[c] # "enqueue"
    BY <1>2
  <2>4. QED
    BY <1>3, <1>4, <1>11, <2>1, <2>2, <2>3, CreationFrame
<1>13. ReapInv'
  <2>1. loc'[c].t \notin freed
    <3>1. loc'[c].t \in {p, None}
      BY <1>2 DEF SwitchPlaces
    <3>2. p \notin freed
      BY <1>2, <1>3, <1>5
    <3>3. QED
      BY <1>3, <3>1, <3>2
  <2>2. pc[c] \notin {"reap", "free"}
    BY <1>2
  <2>3. QED
    BY <1>2, <1>3, <1>4, <1>11, <2>1, <2>2, ReapingKept, ReapFrame
<1>14. QueuedInv'
  <2>1. \A u \in Threads : UnderCreation(u)' <=> UnderCreation(u)
    BY <1>2, <1>4 DEF UnderCreation, Local
  <2>2. ASSUME NEW u \in Threads PROVE QueuedOK(u)'
    <3>1. CASE u = n
      BY <1>2, <3>1 DEF QueuedOK, SwitchPlaces
    <3>2. CASE u = p /\ u # n
      <4>1. /\ on_rq[u] \/ state[u] \in {"BLOCKED", "DEAD"}
            /\ state[u] = "BLOCKED" /\ wakeup_ticks[u] => deadline_queued[u]
        BY <1>1, <1>3, <1>4, <3>2 DEF CurrentOK
      <4>2. state'[u] = IF state[u] = "RUNNING" THEN "READY" ELSE state[u]
        BY <1>2, <3>2 DEF SwitchStates
      <4>3. on_rq'[u] = on_rq[u]
        BY <1>2, <3>2 DEF SwitchTrees
      <4>4. /\ state'[u] \in {"READY", "RUNNING"} => on_rq'[u]
            /\ state'[u] = "BLOCKED" => state[u] = "BLOCKED"
        BY <4>1, <4>2, <4>3
      <4>5. QED
        BY <1>2, <4>1, <4>4 DEF QueuedOK
    <3>3. CASE u # p /\ u # n
      <4>1. QueuedOK(u)
        BY <1>3 DEF QueuedInv
      <4>2. (\E d \in CpuIds : current_thread[d] = u) => \E d \in CpuIds : current_thread'[d] = u
        BY <1>1, <1>2, <3>3 DEF SwitchPlaces
      <4>3. QED
        BY <1>2, <2>1, <3>3, <4>1, <4>2 DEF QueuedOK, SwitchTrees, SwitchStates
    <3>4. QED
      BY <3>1, <3>2, <3>3
  <2>3. QED
    BY <2>2 DEF QueuedInv
<1>15. ChoiceInv' /\ CurrentInv'
  <2>1. ChoiceOK(c)'
    BY <1>2, <1>4 DEF ChoiceOK, SwitchPlaces, SwitchTrees
  <2>2. CurrentOK(c)'
    BY <1>4 DEF CurrentOK
  <2>3. Isolated(c)
    <3>1. ASSUME NEW d \in CpuIds \ {c}, NEW u \in Threads, current_thread[d] = u
          PROVE  /\ state'[u] = state[u] /\ on_rq'[u] = on_rq[u]
      <4>1. cpu_index[u] = d
        BY <3>1, CurrentFacts
      <4>2. u # p /\ u # n
        BY <1>2, <1>5, <4>1
      <4>3. QED
        BY <1>2, <4>2 DEF SwitchTrees, SwitchStates
    <3>2. \A d \in CpuIds \ {c} : tasks_tree'[d] = tasks_tree[d]
      BY <1>2 DEF SwitchTrees
    <3>3. QED
      BY <1>2, <3>1, <3>2 DEF Isolated
  <2>4. QED
    BY <1>2, <2>1, <2>2, <2>3, OthersKeep DEF SchedInv, SwitchPlaces
<1>16. DataTypes'
  BY <1>2, <1>3, <1>9 DEF DataTypes, SchedTypeOK, reapVars
<1>17. QED
  BY <1>6, <1>7, <1>8, <1>9, <1>10, <1>12, <1>13, <1>14, <1>15, <1>16 DEF Rest

LEMMA LeaveRest ==
  ASSUME SchedInv, NEW c \in CpuIds, Local(c), SwitchStack(c) \/ ReleasePrev(c)
  PROVE  Rest'
<1> DEFINE q == loc[c].t
<1>1. /\ SchedTypeOK /\ LocalsInv /\ StackInv /\ TasksInv /\ DeadlinesInv /\ WakeInv /\ CreationInv
      /\ ReapInv /\ QueuedInv /\ ChoiceOK(c) /\ loc \in [CpuIds -> Locals]
      /\ on_cpu \in [Threads -> BOOLEAN] /\ None \notin freed /\ freed \subseteq Threads
      /\ switching_from \in [CpuIds -> Threads \cup {Idle, None}]
  BY SchedConstants DEF SchedInv, SchedTypeOK, ChoiceInv
<1>2. /\ UNCHANGED <<state, wakeup_ticks, cpu_index, on_rq, deadline_queued>>
      /\ UNCHANGED <<tasks_tree, deadline_tree, runnable_count, current_thread>> /\ UNCHANGED reapVars
  BY DEF SwitchStack, ReleasePrev, threadVars, rqVars, cpuVars
<1>3. \/ /\ pc[c] = "switch" /\ pc'[c] = "switched" /\ loc' = loc /\ UNCHANGED on_cpu
         /\ switching_from' = [switching_from EXCEPT ![c] = None]
      \/ /\ pc[c] = "switched" /\ pc'[c] = "run" /\ loc' = [loc EXCEPT ![c] = NoLocals]
         /\ UNCHANGED switching_from /\ on_cpu' = [t \in Threads |-> on_cpu[t] /\ t # q]
  BY <1>1, GotoAt DEF SwitchStack, ReleasePrev, Return, threadVars, cpuVars
<1>4. loc' = [loc EXCEPT ![c] = NoLocals] => loc'[c].t = None
  BY SMTT(30), <1>1 DEF NoLocals
<1>5. loc'[c].t \in {q, None}
  BY <1>3, <1>4
<1>6. /\ pc[c] \in Leaving /\ ~Choosing(c) /\ ~Choosing(c)'
      /\ pc'[c] \notin Stealing /\ pc'[c] \notin Dispatching
      /\ pc[c] # "enqueue" /\ pc'[c] # "enqueue" /\ pc'[c] # "wakestore" /\ pc'[c] # "commit"
      /\ pc[c] \notin {"reap", "free"} /\ pc'[c] \notin {"reap", "free"}
  BY SMTT(30), <1>3 DEF Leaving, Choosing, Stealing, Dispatching
<1>7. q # current_thread[c] /\ \A u \in Threads, d \in CpuIds : Occupies(d, u) => cpu_index[u] = d
  BY <1>1, <1>6 DEF StackInv
<1>8. on_cpu' \in [Threads -> BOOLEAN] /\ \A u \in Threads : on_cpu'[u] => on_cpu[u]
  <2>1. CASE UNCHANGED on_cpu
    BY <1>1, <2>1
  <2>2. CASE on_cpu' = [t \in Threads |-> on_cpu[t] /\ t # q]
    BY SMTT(30), <1>1, <2>2
  <2>3. QED
    BY <1>3, <2>1, <2>2
<1>9. StackInv'
  <2>1. \A d \in CpuIds \ {c}, u \in Threads : Occupies(d, u)' <=> Occupies(d, u)
    BY <1>2 DEF Occupies, Local
  <2>2. /\ switching_from'[c] = None
        /\ \A d \in CpuIds \ {c} : switching_from'[d] = switching_from[d]
    BY <1>1, <1>3 DEF StackInv
  <2>3. ASSUME NEW d \in CpuIds
        PROVE  switching_from'[d] = IF pc'[d] = "switch" THEN loc'[d].t ELSE None
    <3>1. CASE d = c
      BY <1>3, <2>2, <3>1
    <3>2. CASE d # c
      <4>1. pc'[d] = pc[d] /\ loc'[d] = loc[d] /\ switching_from'[d] = switching_from[d]
        BY <2>2, <3>2 DEF Local
      <4>2. switching_from[d] = IF pc[d] = "switch" THEN loc[d].t ELSE None
        BY <1>1 DEF StackInv
      <4>3. QED
        BY <4>1, <4>2
    <3>3. QED
      BY <3>1, <3>2
  <2>4. ASSUME NEW d \in CpuIds, pc'[d] \in Leaving PROVE loc'[d].t # current_thread'[d]
    <3>1. CASE d = c
      <4>1. pc'[c] # "run"
        BY <2>4, <3>1 DEF Leaving
      <4>2. QED
        BY <1>2, <1>3, <1>7, <3>1, <4>1
    <3>2. CASE d # c
      <4>1. pc'[d] = pc[d] /\ loc'[d] = loc[d]
        BY <3>2 DEF Local
      <4>2. QED
        BY <1>1, <1>2, <2>4, <4>1 DEF StackInv
    <3>3. QED
      BY <3>1, <3>2
  <2>5. \A u \in Threads, d \in CpuIds : Occupies(d, u)' => Occupies(d, u)
    <3>1. \A u \in Threads : Occupies(c, u)' => Occupies(c, u)
      <4>1. CASE pc'[c] = "switched" /\ loc' = loc
        BY <1>2, <1>6, <4>1 DEF Occupies
      <4>2. CASE pc'[c] = "run"
        BY <1>2, <4>2 DEF Occupies, Leaving
      <4>3. QED
        BY <1>3, <4>1, <4>2
    <3>2. QED
      BY <2>1, <3>1
  <2>6. ASSUME NEW u \in Threads PROVE on_cpu'[u] <=> \E d \in CpuIds : Occupies(d, u)'
    <3>1. on_cpu[u] <=> \E d \in CpuIds : Occupies(d, u)
      BY <1>1 DEF StackInv
    <3>2. CASE pc'[c] = "switched" /\ loc' = loc /\ UNCHANGED on_cpu
      <4>1. Occupies(c, u)' <=> Occupies(c, u)
        BY <1>2, <1>6, <3>2 DEF Occupies, Leaving
      <4>2. QED
        BY <2>1, <3>1, <3>2, <4>1
    <3>3. CASE pc'[c] = "run" /\ on_cpu' = [t \in Threads |-> on_cpu[t] /\ t # q]
      <4>1. on_cpu'[u] <=> on_cpu[u] /\ u # q
        BY <3>3
      <4>2. Occupies(c, u)' <=> current_thread[c] = u
        BY <1>2, <3>3 DEF Occupies, Leaving
      <4>3. CASE u = q
        <5>1. Occupies(c, u)
          BY <1>6, <4>3 DEF Occupies
        <5>2. \A d \in CpuIds \ {c} : ~Occupies(d, u)
          BY <1>7, <5>1
        <5>3. \A d \in CpuIds : ~Occupies(d, u)'
          BY <1>7, <2>1, <4>2, <4>3, <5>2
        <5>4. QED
          BY <4>1, <4>3, <5>3
      <4>4. CASE u # q
        <5>1. Occupies(c, u) <=> current_thread[c] = u
          BY <4>4 DEF Occupies
        <5>2. \A d \in CpuIds : Occupies(d, u)' <=> Occupies(d, u)
          BY <2>1, <4>2, <5>1
        <5>3. QED
          BY <3>1, <4>1, <4>4, <5>2
      <4>5. QED
        BY <4>3, <4>4
    <3>4. QED
      BY <1>3, <3>2, <3>3
  <2>7. \A u \in Threads, d \in CpuIds : Occupies(d, u)' => cpu_index'[u] = d
    BY <1>2, <1>7, <2>5
  <2>8. QED
    BY <2>3, <2>4, <2>6, <2>7 DEF StackInv
<1>10. TasksInv' /\ DeadlinesInv'
  BY <1>1, <1>2, TasksFrame, DeadlinesFrame
<1>11. CountedInv'
  <2>1. Counted(c)' = Counted(c)
    BY <1>2, <1>6 DEF Counted
  <2>2. \A d \in CpuIds : Counted(d)' = Counted(d)
    BY <1>2, <2>1, CountedSame
  <2>3. QED
    BY <1>2, <2>2 DEF SchedInv, CountedInv
<1>12. \A u \in Threads, d \in CpuIds : Storing(d, u)' => Storing(d, u)
  BY <1>6 DEF Storing, Local
<1>13. WakeInv'
  <2>1. \A u \in Threads : ~Storing(c, u)'
    BY <1>6 DEF Storing
  <2>2. QED
    BY <1>1, <1>2, <2>1, WakeFrame
<1>14. KeepsDetached
  BY <1>2, <1>8, <1>12 DEF KeepsDetached, Detached
<1>15. CreationInv'
  <2>1. \A u \in Threads : loc'[c].t = u => loc[c].t = u
    BY <1>5, SchedConstants
  <2>2. QED
    BY <1>1, <1>2, <1>6, <1>14, <2>1, CreationFrame
<1>16. ReapInv'
  <2>1. q \notin freed
    BY <1>1, <1>6 DEF ReapInv
  <2>2. QED
    BY <1>1, <1>2, <1>5, <1>6, <1>14, <2>1, ReapingKept, ReapFrame
<1>17. QueuedInv'
  <2>1. \A u \in Threads : UnderCreation(u)' <=> UnderCreation(u)
    BY <1>6 DEF UnderCreation, Local
  <2>2. \A u \in Threads : QueuedOK(u)'
    BY <1>1, <1>2, <2>1 DEF QueuedInv, QueuedOK
  <2>3. QED
    BY <2>2 DEF QueuedInv
<1>18. ChoiceInv' /\ CurrentInv'
  <2>1. ChoiceOK(c)'
    BY <1>1, <1>2, <1>6 DEF ChoiceOK
  <2>2. CurrentOK(c)'
    BY <1>6 DEF CurrentOK
  <2>3. Isolated(c)
    BY <1>2 DEF Isolated
  <2>4. QED
    BY <1>2, <2>1, <2>2, <2>3, OthersKeep DEF SchedInv
<1>19. DataTypes'
  BY <1>1, <1>2, <1>8 DEF DataTypes, SchedTypeOK, reapVars
<1>20. QED
  BY <1>9, <1>10, <1>11, <1>13, <1>15, <1>16, <1>17, <1>18, <1>19 DEF Rest

-----------------------------------------------------------------------------
(* A queued thread moves to the CPU that steals it *)

LEMMA StealRest ==
  ASSUME ThreadsCounted, SchedInv, NEW c \in CpuIds, Local(c), StealMigrate(c)
  PROVE  Rest'
<1>1. /\ SchedTypeOK /\ LocalsInv /\ StackInv /\ TasksInv /\ DeadlinesInv /\ WakeInv /\ CreationInv
      /\ ReapInv /\ QueuedInv /\ CountedInv /\ ChoiceOK(c) /\ CurrentOK(c) /\ LockInv
      /\ loc \in [CpuIds -> Locals] /\ freed \subseteq Threads /\ None \notin freed
      /\ cpu_index \in [Threads -> CpuIds] /\ tasks_tree \in [CpuIds -> SUBSET Threads]
      /\ runnable_count \in [CpuIds -> Nat]
  BY SchedConstants DEF SchedInv, SchedTypeOK, ChoiceInv, CurrentInv
<1>2. /\ pc[c] = "steal2" /\ pc'[c] = "relock"
      /\ UNCHANGED <<state, wakeup_ticks, on_cpu, deadline_queued, on_rq, deadline_tree>>
      /\ UNCHANGED <<current_thread, switching_from>> /\ UNCHANGED reapVars
      /\ loc' = [loc EXCEPT ![c].target = None]
  BY <1>1, GotoAt DEF StealMigrate, cpuVars, rqVars
<1>3. loc'[c].t = loc[c].t
  BY SMTT(30), <1>1, <1>2 DEF Locals
<1>4. PICK d \in CpuIds : loc[c].t = None /\ d = loc[c].target /\ d # c
  <2>1. LocalsOK(c) /\ pc[c] \in Stealing /\ pc[c] \in {"steal1", "steal2"}
    BY <1>1, <1>2 DEF LocalsInv, Stealing
  <2>2. loc[c].t = None /\ loc[c].target \in CpuIds \ {c}
    BY <2>1 DEF LocalsOK
  <2>3. QED
    BY <2>2
<1>5. CASE UNCHANGED <<cpu_index, tasks_tree, runnable_count>>
  BY <1>2, <1>3, <1>5, VainSteps
<1>6. CASE ~UNCHANGED <<cpu_index, tasks_tree, runnable_count>>
  <2>1. PICK t \in tasks_tree[d] :
          /\ runnable_count[d] >= 2 /\ Stealable(t, d)
          /\ tasks_tree' = [tasks_tree EXCEPT ![d] = @ \ {t}, ![c] = @ \cup {t}]
          /\ runnable_count' = [runnable_count EXCEPT ![d] = Dec(@), ![c] = @ + 1]
          /\ cpu_index' = [cpu_index EXCEPT ![t] = c]
    BY <1>4, <1>6 DEF StealMigrate, rqVars
  <2>2. t \in Threads
    BY <1>1, <1>4
  <2>3. on_rq[t] /\ cpu_index[t] = d
    BY <1>1, <1>4, <2>2 DEF TasksInv
  <2>4. ~on_cpu[t] /\ ~deadline_queued[t]
    BY <2>1 DEF Stealable
  <2>5. \A e \in CpuIds : current_thread[e] # t
    BY <2>2, <2>4, CurrentFacts
  <2>6. queue_lock[c] \in {None, c} /\ queue_lock[d] \in {None, c}
    <3>1. {FirstLock(c, d), SecondLock(c, d)} = {c, d}
      BY <1>4, Orders
    <3>2. queue_lock[FirstLock(c, d)] = c
      <4>1. Holding(c) = {FirstLock(c, d)}
        BY <1>2, <1>4, HoldingCases DEF Holds
      <4>2. FirstLock(c, d) \in CpuIds
        BY <1>4, Orders
      <4>3. QED
        BY <1>1, <4>1, <4>2 DEF LockInv
    <3>3. queue_lock[SecondLock(c, d)] = None
      BY <1>4 DEF StealMigrate, Free
    <3>4. QED
      BY <3>1, <3>2, <3>3
  <2>7. pc[d] \notin Dispatching /\ \A e \in CpuIds \ {c} : ~Storing(e, t)
    BY <1>4, <2>2, <2>3, <2>6, Excluded
  <2>8. /\ tasks_tree'[d] = tasks_tree[d] \ {t} /\ tasks_tree'[c] = tasks_tree[c] \cup {t}
        /\ \A e \in CpuIds \ {c, d} : tasks_tree'[e] = tasks_tree[e]
        /\ cpu_index'[t] = c /\ \A u \in Threads \ {t} : cpu_index'[u] = cpu_index[u]
    BY <1>1, <1>4, <2>1, <2>2
  <2>9. /\ tasks_tree' \in [CpuIds -> SUBSET Threads] /\ cpu_index' \in [Threads -> CpuIds]
        /\ runnable_count' \in [CpuIds -> Nat]
    <3>1. tasks_tree' \in [CpuIds -> SUBSET Threads]
      BY SMTT(30), <1>1, <1>4, <2>1, <2>2
    <3>2. cpu_index' \in [Threads -> CpuIds]
      BY SMTT(30), <1>1, <2>1, <2>2
    <3>3. runnable_count' \in [CpuIds -> Nat]
      BY SMTT(30), <1>1, <1>4, <2>1 DEF Dec
    <3>4. QED
      BY <3>1, <3>2, <3>3
  <2>10. /\ ~Choosing(c) /\ ~Choosing(c)' /\ pc[c] \notin Leaving /\ pc'[c] \notin Leaving
         /\ pc'[c] \notin Dispatching /\ pc[c] \in Stealing
         /\ pc[c] \notin {"reap", "free", "enqueue"} /\ pc'[c] \notin {"reap", "free", "enqueue"}
    BY SMTT(30), <1>2 DEF Choosing, Leaving, Dispatching, Stealing
  <2>11. StackInv'
    <3>1. \A u \in Threads : on_cpu[u] => cpu_index'[u] = cpu_index[u]
      BY <2>4, <2>8
    <3>2. QED
      BY <1>1, <1>2, <2>10, <3>1, StackFrame
  <2>12. TasksInv'
    <3>1. ASSUME NEW u \in Threads, NEW e \in CpuIds
          PROVE  u \in tasks_tree'[e] <=> on_rq'[u] /\ cpu_index'[u] = e
      <4>1. u \in tasks_tree[e] <=> on_rq[u] /\ cpu_index[u] = e
        BY <1>1 DEF TasksInv
      <4>2. CASE u = t
        <5>1. on_rq'[u] /\ cpu_index'[u] = c
          BY <1>2, <2>3, <2>8, <4>2
        <5>2. u \in tasks_tree'[e] <=> e = c
          BY <1>4, <2>3, <2>8, <4>1, <4>2
        <5>3. QED
          BY <5>1, <5>2
      <4>3. CASE u # t
        <5>1. u \in tasks_tree'[e] <=> u \in tasks_tree[e]
          BY <1>4, <2>8, <4>3
        <5>2. QED
          BY <1>2, <2>8, <4>1, <4>3, <5>1
      <4>4. QED
        BY <4>2, <4>3
    <3>2. QED
      BY <3>1 DEF TasksInv
  <2>13. DeadlinesInv'
    <3>1. \A u \in Threads : deadline_queued[u] => cpu_index'[u] = cpu_index[u]
      BY <2>4, <2>8
    <3>2. QED
      BY <1>1, <1>2, <3>1, DeadlinesFrame
  <2>14. WakeInv'
    <3>1. \A u \in Threads : ~Storing(c, u)'
      BY <1>2 DEF Storing
    <3>2. ASSUME NEW e \in CpuIds \ {c}, NEW u \in Threads, Storing(e, u)
          PROVE  cpu_index'[u] = cpu_index[u]
      <4>1. u # t
        BY <2>7, <3>2
      <4>2. QED
        BY <2>8, <4>1
    <3>3. QED
      BY <1>1, <3>1, <3>2, WakeFrame
  <2>15. CountedInv'
    <3>1. \A e \in CpuIds : Counted(e)' = Counted(e)
      <4>1. Counted(c)' = Counted(c)
        BY <1>2, <2>10 DEF Counted
      <4>2. QED
        BY <1>2, <4>1, CountedSame
    <3>2. \A e \in CpuIds : /\ tasks_tree[e] \in SUBSET Threads /\ Cardinality(tasks_tree[e]) \in Nat
                            /\ runnable_count[e] = Cardinality(tasks_tree[e]) + Counted(e)
      BY <1>1, TreesFinite DEF CountedInv
    <3>3. /\ runnable_count'[d] = Dec(runnable_count[d]) /\ runnable_count'[c] = runnable_count[c] + 1
          /\ \A e \in CpuIds \ {c, d} : runnable_count'[e] = runnable_count[e]
      BY <1>1, <1>4, <2>1
    <3>4. runnable_count'[d] = Cardinality(tasks_tree'[d]) + Counted(d)'
      <4>1. Cardinality(tasks_tree'[d]) = Cardinality(tasks_tree[d]) - 1
        <5>1. t \in tasks_tree[d] /\ tasks_tree[d] \in SUBSET Threads
          BY <2>1, <3>2
        <5>2. QED
          BY <2>8, <5>1 DEF ThreadsCounted
      <4>2. runnable_count'[d] = runnable_count[d] - 1
        BY SMTT(30), <1>1, <1>4, <2>1, <3>3 DEF Dec
      <4>3. Counted(d) \in {0, 1} /\ Counted(d)' = Counted(d)
        BY <1>4, <3>1, CountedNat
      <4>4. QED
        BY SMTT(30), <1>4, <3>2, <4>1, <4>2, <4>3
    <3>5. runnable_count'[c] = Cardinality(tasks_tree'[c]) + Counted(c)'
      <4>1. t \notin tasks_tree[c]
        BY <1>1, <1>4, <2>2, <2>3 DEF TasksInv
      <4>2. Cardinality(tasks_tree'[c]) = Cardinality(tasks_tree[c]) + 1
        <5>1. tasks_tree[c] \in SUBSET Threads
          BY <3>2
        <5>2. Cardinality(tasks_tree[c] \cup {t}) = Cardinality(tasks_tree[c]) + 1
          BY <2>2, <4>1, <5>1, OneMore
        <5>3. QED
          BY <2>8, <5>2
      <4>3. Counted(c) \in {0, 1} /\ Counted(c)' = Counted(c)
        BY <3>1, CountedNat
      <4>4. QED
        BY SMTT(30), <3>2, <3>3, <4>2, <4>3
    <3>6. ASSUME NEW e \in CpuIds \ {c, d}
          PROVE  runnable_count'[e] = Cardinality(tasks_tree'[e]) + Counted(e)'
      <4>1. runnable_count'[e] = runnable_count[e] /\ tasks_tree'[e] = tasks_tree[e]
        BY <2>8, <3>3
      <4>2. QED
        BY <3>1, <3>2, <4>1
    <3>7. \A e \in CpuIds : runnable_count'[e] = Cardinality(tasks_tree'[e]) + Counted(e)'
      BY <3>4, <3>5, <3>6
    <3>8. QED
      BY <3>7 DEF CountedInv
  <2>16. \A u \in Threads, e \in CpuIds : Storing(e, u)' => Storing(e, u)
    BY <1>2 DEF Storing, Local
  <2>17. KeepsDetached
    BY <1>2, <2>16 DEF KeepsDetached, Detached
  <2>18. CreationInv'
    <3>1. \A u \in Threads : loc'[c].t = u => loc[c].t = u
      BY <1>3
    <3>2. QED
      BY <1>1, <1>2, <2>10, <2>17, <3>1, CreationFrame
  <2>19. ReapInv'
    BY <1>1, <1>2, <1>3, <1>4, <2>10, <2>17, ReapingKept, ReapFrame
  <2>20. QueuedInv'
    <3>1. \A u \in Threads : UnderCreation(u)' <=> UnderCreation(u)
      BY <2>10 DEF UnderCreation, Local
    <3>2. \A u \in Threads : QueuedOK(u)'
      BY <1>1, <1>2, <3>1 DEF QueuedInv, QueuedOK
    <3>3. QED
      BY <3>2 DEF QueuedInv
  <2>21. ChoiceInv' /\ CurrentInv'
    <3>1. ChoiceOK(c)'
      <4>1. current_thread[c] \notin tasks_tree'[c]
        BY <1>1, <2>5, <2>8, <2>10 DEF ChoiceOK
      <4>2. QED
        BY <1>2, <4>1 DEF ChoiceOK
    <3>2. CurrentOK(c)'
      BY <1>1, <1>2, <2>10 DEF CurrentOK
    <3>3. Isolated(c)
      <4>1. ASSUME NEW e \in CpuIds \ {c}
            PROVE  /\ pc[e] \in Dispatching => tasks_tree'[e] = tasks_tree[e]
                   /\ current_thread[e] \in tasks_tree'[e] => current_thread[e] \in tasks_tree[e]
        <5>1. CASE e = d
          BY <2>7, <2>8, <5>1
        <5>2. CASE e # d
          BY <2>8, <5>2
        <5>3. QED
          BY <5>1, <5>2
      <4>2. QED
        BY <1>2, <4>1 DEF Isolated
    <3>4. QED
      BY <1>2, <3>1, <3>2, <3>3, OthersKeep DEF SchedInv
  <2>22. DataTypes'
    BY <1>1, <1>2, <2>9 DEF DataTypes, SchedTypeOK, reapVars
  <2>23. QED
    BY <2>11, <2>12, <2>13, <2>14, <2>15, <2>18, <2>19, <2>20, <2>21, <2>22 DEF Rest
<1>7. QED
  BY <1>5, <1>6

-----------------------------------------------------------------------------
(* A waiting thread is made runnable *)

LEMMA WakeStoreRest ==
  ASSUME ThreadsCounted, SchedInv, NEW c \in CpuIds, Local(c), WakeStore(c)
  PROVE  Rest'
<1>1. /\ SchedTypeOK /\ LocalsInv /\ StackInv /\ TasksInv /\ DeadlinesInv /\ WakeInv /\ CreationInv
      /\ ReapInv /\ QueuedInv /\ ChoiceOK(c) /\ LockInv
      /\ loc \in [CpuIds -> Locals] /\ freed \subseteq Threads /\ None \notin freed
      /\ state \in [Threads -> States] /\ wakeup_ticks \in [Threads -> BOOLEAN]
  BY SchedConstants DEF SchedInv, SchedTypeOK, ChoiceInv
<1>2. /\ pc[c] = "wakestore" /\ pc'[c] = "run"
      /\ UNCHANGED <<on_cpu, current_thread, switching_from>> /\ UNCHANGED reapVars
      /\ loc' = [loc EXCEPT ![c] = NoLocals]
  BY <1>1, GotoAt DEF WakeStore, Return, cpuVars
<1>3. loc'[c].t = None
  BY SMTT(30), <1>1, <1>2 DEF NoLocals
<1>4. CASE loc[c].st # "BLOCKED"
  <2>1. UNCHANGED <<state, wakeup_ticks, cpu_index, on_rq, deadline_queued, rqVars>>
    BY <1>4 DEF WakeStore
  <2>2. QED
    BY <1>2, <1>3, <2>1, VainSteps DEF rqVars
<1>5. CASE loc[c].st = "BLOCKED"
  <2>1. LocalsOK(c) /\ pc[c] \in Waking /\ pc[c] \in Waking \ {"wake"}
    BY <1>1, <1>2 DEF LocalsInv, Waking
  <2>2. loc[c].t \in Threads /\ loc[c].prev \in CpuIds /\ loc[c].target \in CpuIds
    BY <2>1 DEF LocalsOK
  <2>3. PICK t \in Threads, k \in CpuIds, g \in CpuIds :
          t = loc[c].t /\ k = loc[c].prev /\ g = loc[c].target
    BY <2>2
  <2>4. PICK dest : dest = WakeDest(c, t)
    OBVIOUS
  <2>5. dest \in {k, g} /\ (on_cpu[t] => dest = k)
    BY <2>3, <2>4 DEF WakeDest
  <2>6. /\ sched_deadline_remove_locked(t, k)
        /\ state' = [state EXCEPT ![t] = IF current_thread[dest] = t THEN "RUNNING" ELSE "READY"]
        /\ wakeup_ticks' = [wakeup_ticks EXCEPT ![t] = FALSE]
        /\ current_thread[dest] = t \/ on_rq[t] =>
             UNCHANGED <<cpu_index, on_rq, tasks_tree, runnable_count>>
        /\ current_thread[dest] # t /\ ~on_rq[t] =>
             Enqueue(t, dest) /\ cpu_index' = [cpu_index EXCEPT ![t] = dest]
    BY <1>5, <2>3, <2>4 DEF WakeStore, StillCurrent
  <2>7. queue_lock[k] = c /\ queue_lock[dest] = c /\ dest \in CpuIds
    <3>1. Holding(c) = {k, g}
      BY <1>2, <2>3, HoldingCases DEF Holds
    <3>2. queue_lock[k] = c /\ queue_lock[g] = c
      BY <1>1, <3>1 DEF LockInv
    <3>3. QED
      BY <2>5, <3>2
  <2>8. Storing(c, t) /\ cpu_index[t] = k
    <3>1. Storing(c, t)
      BY <1>2, <1>5, <2>3 DEF Storing
    <3>2. QED
      BY <1>1, <2>3, <3>1 DEF WakeInv
  <2>9. /\ k # c => pc[k] \notin Dispatching
        /\ \A d \in CpuIds \ {c} : ~Storing(d, t)
    <3>1. queue_lock[k] \in {None, c}
      BY <2>7
    <3>2. QED
      BY <2>8, <3>1, Excluded
  <2>10. \A d \in CpuIds : current_thread[d] = t => d = k /\ dest = k
    BY <2>5, <2>8, CurrentFacts
  <2>11. /\ state'[t] = IF current_thread[dest] = t THEN "RUNNING" ELSE "READY"
         /\ ~wakeup_ticks'[t]
         /\ \A u \in Threads \ {t} : state'[u] = state[u] /\ wakeup_ticks'[u] = wakeup_ticks[u]
    BY <1>1, <2>6
  <2>12. state' \in [Threads -> States] /\ wakeup_ticks' \in [Threads -> BOOLEAN]
    BY SMTT(30), <1>1, <2>6 DEF States
  <2>13. /\ ~Choosing(c) /\ ~Choosing(c)' /\ pc[c] \notin Leaving /\ pc'[c] \notin Leaving
         /\ pc'[c] \notin Dispatching /\ pc'[c] \notin Stealing
         /\ pc[c] \notin {"reap", "free", "enqueue"} /\ pc'[c] \notin {"reap", "free", "enqueue"}
         /\ pc[c] \in {"enqueue", "wakestore"}
    BY SMTT(30), <1>2 DEF Choosing, Leaving, Dispatching, Stealing
  <2>14. ~Detached(t) /\ state[t] # "NEW" /\ ~UnderCreation(t)
    <3>1. ~Detached(t) /\ CreationOK(t)
      BY <1>1, <2>8 DEF Detached, CreationInv
    <3>2. QED
      BY <3>1 DEF CreationOK
  \* Whether it is queued or was already, the other threads stay where they are.
  <2>15. /\ tasks_tree' \in [CpuIds -> SUBSET Threads] /\ on_rq' \in [Threads -> BOOLEAN]
         /\ cpu_index' \in [Threads -> CpuIds] /\ runnable_count' \in [CpuIds -> Nat]
         /\ StackInv' /\ TasksInv' /\ CountedInv' /\ WakeInv' /\ ChoiceOK(c)'
         /\ current_thread[dest] = t \/ on_rq'[t]
         /\ \A u \in Threads \ {t} : on_rq'[u] = on_rq[u] /\ cpu_index'[u] = cpu_index[u]
         /\ \A d \in CpuIds \ {c} :
              /\ pc[d] \in Dispatching => tasks_tree'[d] = tasks_tree[d]
              /\ current_thread[d] \in tasks_tree'[d] => current_thread[d] \in tasks_tree[d]
    <3>1. CASE current_thread[dest] = t \/ on_rq[t]
      <4>1. UNCHANGED <<cpu_index, on_rq, tasks_tree, runnable_count>>
        BY <2>6, <3>1
      <4>2. StackInv' /\ TasksInv'
        BY <1>1, <1>2, <2>13, <4>1, StackFrame, TasksFrame
      <4>3. CountedInv'
        <5>1. Counted(c)' = Counted(c)
          BY <1>2, <2>13 DEF Counted
        <5>2. \A d \in CpuIds : Counted(d)' = Counted(d)
          BY <1>2, <5>1, CountedSame
        <5>3. QED
          BY <4>1, <5>2 DEF SchedInv, CountedInv
      <4>4. WakeInv'
        <5>1. \A u \in Threads : ~Storing(c, u)'
          BY <1>2 DEF Storing
        <5>2. QED
          BY <1>1, <4>1, <5>1, WakeFrame
      <4>5. ChoiceOK(c)'
        BY <1>1, <1>2, <2>13, <4>1 DEF ChoiceOK
      <4>6. QED
        BY <1>1, <3>1, <4>1, <4>2, <4>3, <4>4, <4>5 DEF SchedTypeOK
    <3>2. CASE current_thread[dest] # t /\ ~on_rq[t]
      <4>1. Enqueue(t, dest) /\ cpu_index' = [cpu_index EXCEPT ![t] = dest]
        BY <2>6, <3>2
      <4>2. \A d \in CpuIds : current_thread[d] # t
        BY <2>10, <3>2
      <4>3. (on_cpu[t] => cpu_index[t] = dest) /\ queue_lock[dest] \in {None, c}
        BY <2>5, <2>7, <2>8
      <4>4. QED
        BY <1>2, <2>7, <2>9, <2>13, <3>2, <4>1, <4>2, <4>3, Inserted
    <3>3. QED
      BY <3>1, <3>2
  <2>16. /\ deadline_tree' \in [CpuIds -> SUBSET Threads] /\ deadline_queued' \in [Threads -> BOOLEAN]
         /\ ~deadline_queued'[t]
         /\ \A u \in Threads \ {t} : deadline_queued'[u] = deadline_queued[u]
         /\ (\A u \in Threads : deadline_queued'[u] => cpu_index'[u] = cpu_index[u]) => DeadlinesInv'
    BY <2>6, <2>8, Unarm
  <2>17. DeadlinesInv'
    <3>1. \A u \in Threads : deadline_queued'[u] => cpu_index'[u] = cpu_index[u]
      BY <2>15, <2>16
    <3>2. QED
      BY <2>16, <3>1
  <2>18. \A u \in Threads, d \in CpuIds : Storing(d, u)' => Storing(d, u)
    BY <1>2 DEF Storing, Local
  <2>19. KeepsDetached
    <3>1. ASSUME NEW u \in Threads, Detached(u) PROVE Detached(u)' /\ state'[u] = state[u]
      <4>1. u # t
        BY <2>14, <3>1
      <4>2. /\ on_rq'[u] = on_rq[u] /\ deadline_queued'[u] = deadline_queued[u]
            /\ state'[u] = state[u]
        BY <2>11, <2>15, <2>16, <4>1
      <4>3. QED
        BY <1>2, <2>18, <3>1, <4>2 DEF Detached
    <3>2. QED
      BY <3>1 DEF KeepsDetached
  <2>20. CreationInv'
    <3>1. \A u \in Threads : loc'[c].t # u
      BY <1>3, SchedConstants
    <3>2. state'[t] # "NEW"
      BY <2>11
    <3>3. \A u \in Threads : state'[u] = "NEW" => state[u] = "NEW"
      BY <2>11, <3>2
    <3>4. QED
      BY <1>1, <2>13, <2>19, <3>1, <3>3, CreationFrame
  <2>21. ReapInv'
    BY <1>1, <1>2, <1>3, <2>13, <2>19, ReapingKept, ReapFrame
  <2>22. QueuedInv'
    <3>1. QueuedOK(t)'
      <4>1. CASE current_thread[dest] = t
        BY <1>2, <2>7, <4>1 DEF QueuedOK
      <4>2. CASE on_rq'[t]
        BY <2>11, <4>2 DEF QueuedOK
      <4>3. QED
        BY <2>15, <4>1, <4>2
    <3>2. \A u \in Threads : UnderCreation(u)' <=> UnderCreation(u)
      BY <2>13 DEF UnderCreation, Local
    <3>3. ASSUME NEW u \in Threads \ {t} PROVE QueuedOK(u)'
      <4>1. /\ on_rq'[u] = on_rq[u] /\ deadline_queued'[u] = deadline_queued[u]
            /\ state'[u] = state[u] /\ wakeup_ticks'[u] = wakeup_ticks[u]
        BY <2>11, <2>15, <2>16
      <4>2. QueuedOK(u)
        BY <1>1 DEF QueuedInv
      <4>3. QED
        BY <1>2, <3>2, <4>1, <4>2 DEF QueuedOK
    <3>4. QED
      BY <3>1, <3>3 DEF QueuedInv
  <2>23. ChoiceInv' /\ CurrentInv'
    <3>1. ASSUME NEW d \in CpuIds \ {c}, NEW u \in Threads, current_thread[d] = u
          PROVE  /\ pc[d] \in Dispatching =>
                      /\ on_rq'[u] = on_rq[u] /\ deadline_queued'[u] = deadline_queued[u]
                      /\ wakeup_ticks'[u] = wakeup_ticks[u] /\ state'[u] \in {state[u], "DEAD"}
                 /\ state'[u] = "BLOCKED" => state[u] = "BLOCKED"
      <4>1. CASE u = t
        <5>1. pc[d] \notin Dispatching
          BY <2>9, <2>10, <3>1, <4>1
        <5>2. state'[u] # "BLOCKED"
          BY <2>11, <4>1
        <5>3. QED
          BY <5>1, <5>2
      <4>2. CASE u # t
        BY <2>11, <2>15, <2>16, <4>2
      <4>3. QED
        BY <4>1, <4>2
    <3>2. Isolated(c)
      BY <2>15, <3>1 DEF Isolated
    <3>3. CurrentOK(c)'
      BY <2>13 DEF CurrentOK
    <3>4. QED
      BY <1>2, <2>15, <3>2, <3>3, OthersKeep DEF SchedInv
  <2>24. DataTypes'
    BY <1>1, <1>2, <2>12, <2>15, <2>16 DEF DataTypes, SchedTypeOK, reapVars
  <2>25. QED
    BY <2>15, <2>17, <2>20, <2>21, <2>22, <2>23, <2>24 DEF Rest
<1>6. QED
  BY <1>4, <1>5

-----------------------------------------------------------------------------
(* The invariant *)

LEMMA SchedStepRest ==
  ASSUME ThreadsCounted, SchedInv, NEW c \in CpuIds, Local(c), Step(c)
  PROVE  Rest'
<1>1. current_thread[c] \in Threads \cup {Idle}
  BY DEF SchedInv, SchedTypeOK
<1>2. CASE \/ sched_queue_reap(c) \/ ReapStart(c) \/ sched_reap_thread(c) \/ ReapDone(c)
  BY <1>2, ReaperSteps
<1>3. CASE \/ ReapSkip(c) \/ StealChoose(c) \/ StealLockFirst(c) \/ WakeLocate(c)
           \/ WakeLockFirst(c) \/ WakeLockSecond(c) \/ WakeCheck(c)
  BY <1>3, QuietSteps
<1>4. CASE PickNext(c, Idle) \/ \E t \in Threads : PickNext(c, t)
  <2>1. \E t \in Threads \cup {Idle} : PickNext(c, t)
    BY <1>4
  <2>2. QED
    BY <2>1, QuietSteps
<1>5. CASE \/ \E b \in BOOLEAN : Yield(c, b)
           \/ \E t \in Threads : WakeStart(c, t)
  BY <1>5, QuietSteps
<1>6. CASE Exit(c) \/ \E b \in BOOLEAN : Block(c, b)
  <2>1. current_thread[c] # Idle
    BY <1>6 DEF Exit, Block
  <2>2. PICK t \in Threads : t = current_thread[c]
    BY <1>1, <2>1
  <2>3. QED
    BY <1>6, <2>2, BlockExitKill
<1>7. ASSUME NEW t \in Threads,
             Kill(c, t) \/ Create(c, t) \/ sched_prepare_thread_reap(c, t) \/ PickDead(c, t)
      PROVE  Rest'
  BY <1>7, BlockExitKill, CreateRest, PrepareRest, PickDeadRest
<1>8. CASE SwitchStack(c) \/ ReleasePrev(c)
  BY <1>8, LeaveRest
<1>9. CASE \/ sched_enqueue_thread(c) \/ ScheduleEnter(c) \/ PutPrev(c) \/ Commit(c)
  BY <1>9, EnqueueRest, ScheduleEnterRest, PutPrevRest, CommitRest
<1>10. CASE StealMigrate(c) \/ Relock(c) \/ sched_tick(c) \/ WakeStore(c)
  BY <1>10, StealRest, RelockRest, TickRest, WakeStoreRest
<1>11. QED
  BY <1>2, <1>3, <1>4, <1>5, <1>6, <1>7, <1>8, <1>9, <1>10 DEF Step

=============================================================================
