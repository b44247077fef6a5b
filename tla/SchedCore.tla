----------------------------- MODULE SchedCore -----------------------------
(***************************************************************************)
(* The SMP scheduler core: sched/sched.c, sched/switch.asm and the reaper  *)
(* of sched/sched_reap.c.                                                  *)
(*                                                                         *)
(* Every CPU runs its current thread (pc = "run") or is inside a scheduler *)
(* function entered with interrupts masked.  A critical section under a    *)
(* queue_lock is one step, except that it is cut wherever the code drops   *)
(* the lock and wherever it loads a thread's state and stores it later:    *)
(* sched_terminate_thread_group() and a thread about to block store their  *)
(* state without any queue_lock, so such a store can fall in between.      *)
(*                                                                         *)
(* Abstractions.  SLEEPING is BLOCKED and ZOMBIE is DEAD: the scheduler    *)
(* tests them together.  EEVFD's choice of an entity, the load comparison  *)
(* behind a wakeup's target and the passing of time are nondeterministic.  *)
(* wakeup_ticks is whether it is nonzero.  Every affinity mask is full.    *)
(***************************************************************************)
EXTENDS Integers, FiniteSets, Null

CONSTANTS CpuIds,     \* cpu_id's: a finite set of naturals
          Threads,  \* the non-idle threads
          Idle     \* stands for the idle_thread of each CPU

ASSUME SchedConstants ==
  /\ CpuIds \subseteq Nat /\ IsFiniteSet(CpuIds) /\ CpuIds # {}
  /\ IsFiniteSet(Threads) /\ Idle \notin Threads /\ None \notin Threads
  /\ Idle # None /\ None \notin CpuIds

VARIABLES
  state, wakeup_ticks, cpu_index, on_cpu, on_rq, deadline_queued, \* struct thread
  tasks_tree, deadline_tree, runnable_count, current_thread,      \* struct cpu_info
  switching_from, queue_lock,
  reap_queue, reap_queued, reap_worker_lock, freed,               \* sched_reap.c
  pc, loc                                                         \* each CPU's position and locals

threadVars == <<state, wakeup_ticks, cpu_index, on_cpu, on_rq, deadline_queued>>
rqVars     == <<tasks_tree, deadline_tree, runnable_count>>
cpuVars    == <<current_thread, switching_from>>
reapVars   == <<reap_queue, reap_queued, reap_worker_lock, freed>>
schedVars == <<threadVars, rqVars, cpuVars, queue_lock, reapVars, pc, loc>>

States == {"NEW", "READY", "RUNNING", "BLOCKED", "DEAD"}

Labels == {"run", "sched", "reap", "free", "lock", "put", "steal", "steal1", "steal2", "relock",
           "pick", "commit", "switch", "switched", "wake", "wake1", "wake2", "wakecheck",
           "wakestore", "enqueue", "queue_reap"}

NoLocals == [t |-> None, prev |-> None, target |-> None, st |-> "NEW",
             voluntary |-> FALSE, from |-> "run", todo |-> {}]

Locals == [t : Threads \cup {Idle, None}, prev : CpuIds \cup {None},
           target : CpuIds \cup {None}, st : States, voluntary : BOOLEAN,
           from : {"run", "fast", "idle", "tick"}, todo : SUBSET Threads]

\* The types of the scheduler's state: in particular a CPU always has a
\* current thread, and every lock holder and queue owner is a CPU.
SchedTypeOK ==
  /\ state \in [Threads -> States]
  /\ wakeup_ticks \in [Threads -> BOOLEAN]
  /\ cpu_index \in [Threads -> CpuIds]
  /\ on_cpu \in [Threads -> BOOLEAN]
  /\ on_rq \in [Threads -> BOOLEAN]
  /\ deadline_queued \in [Threads -> BOOLEAN]
  /\ tasks_tree \in [CpuIds -> SUBSET Threads]
  /\ deadline_tree \in [CpuIds -> SUBSET Threads]
  /\ runnable_count \in [CpuIds -> Nat]
  /\ current_thread \in [CpuIds -> Threads \cup {Idle}]
  /\ switching_from \in [CpuIds -> Threads \cup {Idle, None}]
  /\ queue_lock \in [CpuIds -> CpuIds \cup {None}]
  /\ reap_queue \subseteq Threads /\ reap_queued \subseteq Threads /\ freed \subseteq Threads
  /\ reap_worker_lock \in CpuIds \cup {None}
  /\ pc \in [CpuIds -> Labels]
  /\ loc \in [CpuIds -> Locals]

\* sched_init(): every CPU runs its idle thread; no thread exists yet.
SchedInit ==
  /\ state = [t \in Threads |-> "NEW"]
  /\ wakeup_ticks = [t \in Threads |-> FALSE]
  /\ cpu_index = [t \in Threads |-> CHOOSE c \in CpuIds : TRUE]
  /\ on_cpu = [t \in Threads |-> FALSE]
  /\ on_rq = [t \in Threads |-> FALSE]
  /\ deadline_queued = [t \in Threads |-> FALSE]
  /\ tasks_tree = [c \in CpuIds |-> {}]
  /\ deadline_tree = [c \in CpuIds |-> {}]
  /\ runnable_count = [c \in CpuIds |-> 0]
  /\ current_thread = [c \in CpuIds |-> Idle]
  /\ switching_from = [c \in CpuIds |-> None]
  /\ queue_lock = [c \in CpuIds |-> None]
  /\ reap_queue = {} /\ reap_queued = {} /\ freed = {}
  /\ reap_worker_lock = None
  /\ pc = [c \in CpuIds |-> "run"]
  /\ loc = [c \in CpuIds |-> NoLocals]

\* No state: only another module of the run moves.
SchedAbsent ==
  /\ state = None /\ wakeup_ticks = None /\ cpu_index = None /\ on_cpu = None
  /\ on_rq = None /\ deadline_queued = None /\ tasks_tree = None
  /\ deadline_tree = None /\ runnable_count = None /\ current_thread = None
  /\ switching_from = None /\ queue_lock = None /\ reap_queue = None
  /\ reap_queued = None /\ reap_worker_lock = None /\ freed = None
  /\ pc = None /\ loc = None

SchedPresent == state # None

-----------------------------------------------------------------------------
(* Helpers *)

Goto(c, l) == pc' = [pc EXCEPT ![c] = l]

\* Back to the current thread: the scheduler frame's locals are gone.
Return(c) == Goto(c, "run") /\ loc' = [loc EXCEPT ![c] = NoLocals]

Free(k) == queue_lock[k] = None
Take(c, k) == Free(k) /\ queue_lock' = [queue_lock EXCEPT ![k] = c]
Drop(ks) == queue_lock' = [k \in CpuIds |-> IF k \in ks THEN None ELSE queue_lock[k]]

Dec(n) == IF n > 0 THEN n - 1 ELSE 0

Dead(t) == t # Idle /\ state[t] = "DEAD"
Runnable(t) == t # Idle => state[t] \in {"RUNNING", "READY"}

\* eevfd_enqueue_entity() by a caller that also counts the entity runnable.
Enqueue(t, c) ==
  /\ tasks_tree' = [tasks_tree EXCEPT ![c] = @ \cup {t}]
  /\ on_rq' = [on_rq EXCEPT ![t] = TRUE]
  /\ runnable_count' = [runnable_count EXCEPT ![c] = @ + 1]

\* eevfd_dequeue_entity() does nothing unless the entity is linked.
Dequeue(t, c) ==
  IF on_rq[t]
  THEN /\ tasks_tree' = [tasks_tree EXCEPT ![c] = @ \ {t}]
       /\ on_rq' = [on_rq EXCEPT ![t] = FALSE]
       /\ runnable_count' = [runnable_count EXCEPT ![c] = Dec(@)]
  ELSE UNCHANGED <<tasks_tree, on_rq, runnable_count>>

sched_deadline_remove_locked(t, c) ==
  IF deadline_queued[t]
  THEN /\ deadline_tree' = [deadline_tree EXCEPT ![c] = @ \ {t}]
       /\ deadline_queued' = [deadline_queued EXCEPT ![t] = FALSE]
  ELSE UNCHANGED <<deadline_tree, deadline_queued>>

\* Pop the threads `due` off CPU c's deadline tree and make the waiting ones
\* runnable.  st, wt and tree are the values the caller has already updated.
sched_deadline_expire_locked(c, due, st, wt, tree) ==
  LET waking == {t \in due : st[t] = "BLOCKED"}
      linked == {t \in waking : current_thread[c] # t /\ ~on_rq[t]}
  IN /\ state' = [t \in Threads |->
                    IF t \notin waking THEN st[t]
                    ELSE IF current_thread[c] = t THEN "RUNNING" ELSE "READY"]
     /\ wakeup_ticks' = [t \in Threads |-> wt[t] /\ t \notin due]
     /\ deadline_tree' = [deadline_tree EXCEPT ![c] = tree \ due]
     /\ deadline_queued' = [t \in Threads |->
                              (deadline_queued[t] \/ t \in tree) /\ t \notin due]
     /\ cpu_index' = [t \in Threads |-> IF t \in linked THEN c ELSE cpu_index[t]]
     /\ tasks_tree' = [tasks_tree EXCEPT ![c] = @ \cup linked]
     /\ on_rq' = [t \in Threads |-> on_rq[t] \/ t \in linked]
     /\ runnable_count' = [runnable_count EXCEPT ![c] = @ + Cardinality(linked)]

\* Mutant of FirstLock: the caller's order instead of the cpu_id order.
CallerOrder(a, b) == a

\* sched_lock_two_rq(): the lower cpu_id first.
FirstLock(a, b) == IF a < b THEN a ELSE b
SecondLock(a, b) == IF FirstLock(a, b) = a THEN b ELSE a

-----------------------------------------------------------------------------
(* What the current thread of CPU c does to the scheduler *)

\* sched_create_kernel_thread() / clone_internal(): publish the thread in
\* global_thread_list, initialise it, then sched_enqueue_thread() it.
Create(c, t) ==
  /\ pc[c] = "run" /\ state[t] = "NEW"
  /\ \E k \in CpuIds : loc' = [loc EXCEPT ![c].t = t, ![c].target = k]
  /\ state' = [state EXCEPT ![t] = "READY"]
  /\ Goto(c, "enqueue")
  /\ UNCHANGED <<wakeup_ticks, cpu_index, on_cpu, on_rq, deadline_queued, rqVars, cpuVars, queue_lock, reapVars>>

sched_enqueue_thread(c) ==
  LET t == loc[c].t
      k == loc[c].target
  IN /\ pc[c] = "enqueue" /\ Free(k)
     /\ IF on_rq[t] \/ state[t] = "DEAD"
        THEN UNCHANGED <<on_rq, cpu_index, rqVars>>
        ELSE /\ Enqueue(t, k)
             /\ cpu_index' = [cpu_index EXCEPT ![t] = k]
             /\ UNCHANGED deadline_tree
     /\ Return(c)
     /\ UNCHANGED <<state, wakeup_ticks, on_cpu, deadline_queued, cpuVars, queue_lock, reapVars>>

\* A thread publishes BLOCKED (or SLEEPING), with or without a deadline, in
\* one interrupt-masked section, and calls sched_yield().
Block(c, timed) ==
  LET t == current_thread[c]
  IN /\ pc[c] = "run" /\ t # Idle
     /\ state' = [state EXCEPT ![t] = "BLOCKED"]
     /\ wakeup_ticks' = [wakeup_ticks EXCEPT ![t] = timed]
     /\ Goto(c, "sched")
     /\ UNCHANGED <<cpu_index, on_cpu, on_rq, deadline_queued, rqVars, cpuVars, queue_lock, reapVars, loc>>

\* sched_yield(), sched_yield_user() and sched_check_resched().
Yield(c, voluntary) ==
  /\ pc[c] = "run" /\ current_thread[c] # Idle
  /\ Goto(c, "sched")
  /\ loc' = [loc EXCEPT ![c].voluntary = voluntary]
  /\ UNCHANGED <<threadVars, rqVars, cpuVars, queue_lock, reapVars>>

\* thread_exit(): DEAD, then sched_queue_reap(self), then sched_yield() for good.
Exit(c) ==
  LET t == current_thread[c]
  IN /\ pc[c] = "run" /\ t # Idle
     /\ state' = [state EXCEPT ![t] = "DEAD"]
     /\ loc' = [loc EXCEPT ![c].t = t]
     /\ Goto(c, "queue_reap")
     /\ UNCHANGED <<wakeup_ticks, cpu_index, on_cpu, on_rq, deadline_queued, rqVars, cpuVars, queue_lock, reapVars>>

UnderCreation(t) == \E d \in CpuIds : pc[d] = "enqueue" /\ loc[d].t = t
InGroup(t) == \A d \in CpuIds : pc[d] = "enqueue" /\ loc[d].t = t => current_thread[d] # Idle

\* sched_terminate_thread_group(): under tid_lock but no queue_lock, mark a
\* sibling DEAD and queue it.  tid_lock keeps the sibling from being freed.
\* A thread under creation may be a sibling already: clone() sets its tgid
\* before it enqueues it.  A kernel thread made by the boot code is not.
Kill(c, t) ==
  /\ pc[c] = "run" /\ current_thread[c] \notin {Idle, t}
  /\ InGroup(t)
  /\ state[t] \notin {"NEW", "DEAD"} /\ t \notin freed
  /\ state' = [state EXCEPT ![t] = "DEAD"]
  /\ loc' = [loc EXCEPT ![c].t = t]
  /\ Goto(c, "queue_reap")
  /\ UNCHANGED <<wakeup_ticks, cpu_index, on_cpu, on_rq, deadline_queued, rqVars, cpuVars, queue_lock, reapVars>>

sched_queue_reap(c) ==
  LET t == loc[c].t
  IN /\ pc[c] = "queue_reap"
     /\ reap_queue' = IF t \in reap_queued THEN reap_queue ELSE reap_queue \cup {t}
     /\ reap_queued' = reap_queued \cup {t}
     /\ Goto(c, IF t = current_thread[c] THEN "sched" ELSE "run")
     /\ loc' = [loc EXCEPT ![c] = NoLocals]
     /\ UNCHANGED <<threadVars, rqVars, cpuVars, queue_lock, reap_worker_lock, freed>>

-----------------------------------------------------------------------------
(* sched_process_reap_queue(), at the head of sched_schedule() *)

\* Nothing queued, or another CPU is the reaper: go on to schedule.
ReapSkip(c) ==
  /\ pc[c] = "sched"
  /\ reap_queue = {} \/ reap_worker_lock # None
  /\ Goto(c, "lock")
  /\ UNCHANGED <<threadVars, rqVars, cpuVars, queue_lock, reapVars, loc>>

ReapStart(c) ==
  /\ pc[c] = "sched"
  /\ reap_queue # {} /\ reap_worker_lock = None
  /\ reap_worker_lock' = c
  /\ loc' = [loc EXCEPT ![c].todo = reap_queue \ {current_thread[c]}]
  /\ Goto(c, "reap")
  /\ UNCHANGED <<threadVars, rqVars, cpuVars, queue_lock, reap_queue, reap_queued, freed>>

\* Mutant of StillInUse: "not current" alone, without the stack hazards.
NotCurrentOnly(t, k) == state[t] # "DEAD" \/ current_thread[k] = t

\* The conditions under which sched_prepare_thread_reap() leaves t alone.
StillInUse(t, k) ==
  \/ state[t] # "DEAD" \/ on_cpu[t]
  \/ current_thread[k] = t \/ switching_from[k] = t

\* sched_prepare_thread_reap(): under the queue_lock of t's CPU, unlink t
\* unless it is still in use; the scan goes on otherwise.
sched_prepare_thread_reap(c, t) ==
  LET k == cpu_index[t]
  IN /\ pc[c] = "reap" /\ t \in loc[c].todo /\ Free(k)
     /\ \/ /\ StillInUse(t, k)
           /\ loc' = [loc EXCEPT ![c].todo = @ \ {t}]
           /\ UNCHANGED <<pc, on_rq, deadline_queued, rqVars, reap_queue>>
        \/ /\ ~StillInUse(t, k)
           /\ Dequeue(t, k)
           /\ sched_deadline_remove_locked(t, k)
           /\ reap_queue' = reap_queue \ {t}
           /\ loc' = [loc EXCEPT ![c].t = t]
           /\ Goto(c, "free")
     /\ UNCHANGED <<state, wakeup_ticks, cpu_index, on_cpu, cpuVars, queue_lock, reap_queued, reap_worker_lock, freed>>

\* A waker holds a futex_wake_claims pin on its target until sched_wakeup()
\* returns, and a killer holds tid_lock across its two steps.
Pinned(t) == \E d \in CpuIds : loc[d].t = t /\ pc[d] \in {"wake", "wake1", "wake2", "wakecheck", "wakestore"}
TidLocked == \E d \in CpuIds : pc[d] = "queue_reap"

\* sched_reap_thread(): free the thread, or put it back while it is pinned.
sched_reap_thread(c) ==
  LET t == loc[c].t
      k == cpu_index[t]
  IN /\ pc[c] = "free" /\ ~TidLocked /\ Free(k)
     /\ \/ /\ Pinned(t)
           /\ reap_queue' = reap_queue \cup {t}
           /\ reap_worker_lock' = None
           /\ loc' = [loc EXCEPT ![c].t = None, ![c].todo = {}]
           /\ Goto(c, "lock")
           /\ UNCHANGED <<freed, on_rq, deadline_queued, rqVars>>
        \/ /\ ~Pinned(t)
           /\ freed' = freed \cup {t}
           /\ Dequeue(t, k)
           /\ sched_deadline_remove_locked(t, k)
           /\ loc' = [loc EXCEPT ![c].t = None, ![c].todo = reap_queue \ {current_thread[c]}]
           /\ Goto(c, "reap")
           /\ UNCHANGED <<reap_queue, reap_worker_lock>>
     /\ UNCHANGED <<state, wakeup_ticks, cpu_index, on_cpu, cpuVars, queue_lock, reap_queued>>

ReapDone(c) ==
  /\ pc[c] = "reap" /\ loc[c].todo = {}
  /\ reap_worker_lock' = None
  /\ Goto(c, "lock")
  /\ UNCHANGED <<threadVars, rqVars, cpuVars, queue_lock, reap_queue, reap_queued, freed, loc>>

-----------------------------------------------------------------------------
(* sched_schedule() *)

\* Take the CPU's own lock, file the outgoing thread's deadline, expire the
\* due ones, and look for the fast path: a lone running thread that is only
\* being preempted tries to steal and otherwise goes on running.
ScheduleEnter(c) ==
  LET p == current_thread[c]
      timed == p # Idle /\ state[p] = "BLOCKED" /\ wakeup_ticks[p]
      lone == ~loc[c].voluntary /\ p # Idle /\ state'[p] = "RUNNING" /\ tasks_tree'[c] = {}
  IN /\ pc[c] = "lock" /\ Free(c)
     /\ \E passed \in BOOLEAN, due \in SUBSET (deadline_tree[c] \ {p}) :
          /\ passed => timed
          /\ sched_deadline_expire_locked(c, due,
               IF passed THEN [state EXCEPT ![p] = "RUNNING"] ELSE state,
               IF passed THEN [wakeup_ticks EXCEPT ![p] = FALSE] ELSE wakeup_ticks,
               deadline_tree[c] \cup (IF timed /\ ~passed THEN {p} ELSE {}))
     /\ \/ /\ lone
           /\ loc' = [loc EXCEPT ![c].from = "fast"]
           /\ Goto(c, "steal")
           /\ UNCHANGED queue_lock
        \/ /\ ~lone
           /\ Take(c, c)
           /\ Goto(c, "put")
           /\ UNCHANGED loc
     /\ UNCHANGED <<on_cpu, cpuVars, reapVars>>

\* Put the outgoing thread back on the tree, or take it off the count.
PutPrev(c) ==
  LET p == current_thread[c]
  IN /\ pc[c] = "put"
     /\ \/ /\ p # Idle /\ Dead(p)
           /\ sched_deadline_remove_locked(p, c)
           /\ tasks_tree' = [tasks_tree EXCEPT ![c] = @ \ {p}]
           /\ on_rq' = [on_rq EXCEPT ![p] = FALSE]
           /\ runnable_count' = [runnable_count EXCEPT ![c] = Dec(@)]
           /\ UNCHANGED cpu_index
        \/ /\ p # Idle /\ state[p] = "BLOCKED"
           /\ tasks_tree' = [tasks_tree EXCEPT ![c] = @ \ {p}]
           /\ on_rq' = [on_rq EXCEPT ![p] = FALSE]
           /\ runnable_count' = [runnable_count EXCEPT ![c] = Dec(@)]
           /\ UNCHANGED <<cpu_index, deadline_tree, deadline_queued>>
        \/ /\ p # Idle /\ Runnable(p)
           /\ cpu_index' = [cpu_index EXCEPT ![p] = c]
           /\ tasks_tree' = [tasks_tree EXCEPT ![c] = @ \cup {p}]
           /\ on_rq' = [on_rq EXCEPT ![p] = TRUE]
           /\ UNCHANGED <<runnable_count, deadline_tree, deadline_queued>>
        \/ /\ p = Idle
           /\ UNCHANGED <<cpu_index, on_rq, deadline_queued, rqVars>>
     /\ \/ /\ tasks_tree'[c] = {} /\ Runnable(p)
           /\ Drop({c})
           /\ loc' = [loc EXCEPT ![c].from = "idle"]
           /\ Goto(c, "steal")
        \/ /\ ~(tasks_tree'[c] = {} /\ Runnable(p))
           /\ Goto(c, "pick")
           /\ UNCHANGED <<queue_lock, loc>>
     /\ UNCHANGED <<state, wakeup_ticks, on_cpu, cpuVars, reapVars>>

\* Unlink a candidate that a remote kill made terminal while it was queued.
PickDead(c, t) ==
  /\ pc[c] = "pick" /\ t \in tasks_tree[c] /\ Dead(t)
  /\ sched_deadline_remove_locked(t, c)
  /\ Dequeue(t, c)
  /\ UNCHANGED <<state, wakeup_ticks, cpu_index, on_cpu, cpuVars, queue_lock, reapVars, pc, loc>>

\* Choose a live candidate, or the idle thread when the tree is empty.
PickNext(c, t) ==
  /\ pc[c] = "pick"
  /\ \/ t \in tasks_tree[c] /\ ~Dead(t)
     \/ t = Idle /\ tasks_tree[c] = {}
  /\ loc' = [loc EXCEPT ![c].t = t]
  /\ Goto(c, "commit")
  /\ UNCHANGED <<threadVars, rqVars, cpuVars, queue_lock, reapVars>>

\* Take the chosen thread off the tree and publish the switch, all before
\* queue_lock is released.
Commit(c) ==
  LET p == current_thread[c]
      n == loc[c].t
      preempted == p # Idle /\ p # n /\ state[p] = "RUNNING"
  IN /\ pc[c] = "commit"
     /\ tasks_tree' = [tasks_tree EXCEPT ![c] = @ \ {n}]
     /\ on_rq' = [t \in Threads |-> on_rq[t] /\ t # n]
     /\ state' = [t \in Threads |->
                    IF t = n /\ n # p THEN "RUNNING"
                    ELSE IF preempted /\ t = p THEN "READY" ELSE state[t]]
     /\ on_cpu' = [t \in Threads |-> on_cpu[t] \/ t = n]
     /\ Drop({c})
     /\ \/ /\ n # p
           /\ switching_from' = [switching_from EXCEPT ![c] = p]
           /\ current_thread' = [current_thread EXCEPT ![c] = n]
           /\ loc' = [loc EXCEPT ![c].t = p]
           /\ Goto(c, "switch")
        \/ /\ n = p
           /\ Return(c)
           /\ UNCHANGED cpuVars
     /\ UNCHANGED <<wakeup_ticks, cpu_index, deadline_queued, deadline_tree, runnable_count, reapVars>>

\* switch_context(): after rsp is the new thread's, clear switching_from ...
SwitchStack(c) ==
  /\ pc[c] = "switch"
  /\ switching_from' = [switching_from EXCEPT ![c] = None]
  /\ Goto(c, "switched")
  /\ UNCHANGED <<threadVars, rqVars, current_thread, queue_lock, reapVars, loc>>

\* ... and then the outgoing thread's on_cpu.
ReleasePrev(c) ==
  /\ pc[c] = "switched"
  /\ on_cpu' = [t \in Threads |-> on_cpu[t] /\ t # loc[c].t]
  /\ Return(c)
  /\ UNCHANGED <<state, wakeup_ticks, cpu_index, on_rq, deadline_queued, rqVars, cpuVars, queue_lock, reapVars>>

-----------------------------------------------------------------------------
(* sched_steal_one_task(), called with no queue_lock held *)

\* Choose the busiest other CPU with at least two runnable threads, if any.
StealChoose(c) ==
  LET busy == {d \in CpuIds \ {c} : /\ runnable_count[d] > 1
                                    /\ \A e \in CpuIds \ {c} : runnable_count[e] <= runnable_count[d]}
  IN /\ pc[c] = "steal"
     /\ \/ \E d \in busy : loc' = [loc EXCEPT ![c].target = d] /\ Goto(c, "steal1")
        \/ busy = {} /\ Goto(c, "relock") /\ UNCHANGED loc
     /\ UNCHANGED <<threadVars, rqVars, cpuVars, queue_lock, reapVars>>

StealLockFirst(c) ==
  /\ pc[c] = "steal1" /\ Take(c, FirstLock(c, loc[c].target))
  /\ Goto(c, "steal2")
  /\ UNCHANGED <<threadVars, rqVars, cpuVars, reapVars, loc>>

\* Mutant of Stealable: READY and not current is taken for off-stack.
StealableReady(t, d) == t # current_thread[d] /\ state[t] = "READY" /\ ~deadline_queued[t]

\* A thread another CPU may take: queued, READY, off its stack, no deadline.
Stealable(t, d) ==
  /\ t # current_thread[d] /\ ~on_cpu[t]
  /\ state[t] = "READY" /\ ~deadline_queued[t]

StealMigrate(c) ==
  LET d == loc[c].target
      cands == {t \in tasks_tree[d] : runnable_count[d] >= 2 /\ Stealable(t, d)}
  IN /\ pc[c] = "steal2" /\ Free(SecondLock(c, d))
     /\ \/ \E t \in cands :
             /\ tasks_tree' = [tasks_tree EXCEPT ![d] = @ \ {t}, ![c] = @ \cup {t}]
             /\ runnable_count' = [runnable_count EXCEPT ![d] = Dec(@), ![c] = @ + 1]
             /\ cpu_index' = [cpu_index EXCEPT ![t] = c]
             /\ UNCHANGED <<on_rq, deadline_tree>>
        \/ cands = {} /\ UNCHANGED <<cpu_index, on_rq, rqVars>>
     /\ Drop({c, d})
     /\ loc' = [loc EXCEPT ![c].target = None]
     /\ Goto(c, "relock")
     /\ UNCHANGED <<state, wakeup_ticks, on_cpu, deadline_queued, cpuVars, reapVars>>

\* Retake the CPU's own lock and go on in the function that called.
Relock(c) ==
  /\ pc[c] = "relock" /\ Free(c)
  /\ loc' = [loc EXCEPT ![c].from = "run"]
  /\ \/ /\ loc[c].from = "fast"
        /\ \/ tasks_tree[c] = {} /\ Goto(c, "run") /\ UNCHANGED queue_lock
           \/ tasks_tree[c] # {} /\ Goto(c, "put") /\ Take(c, c)
        /\ UNCHANGED <<state, wakeup_ticks, cpu_index, on_rq, deadline_queued, rqVars>>
     \/ /\ loc[c].from = "idle"
        /\ \E due \in SUBSET deadline_tree[c] :
             sched_deadline_expire_locked(c, due, state, wakeup_ticks, deadline_tree[c])
        /\ Take(c, c)
        /\ Goto(c, "pick")
     \/ /\ loc[c].from = "tick"
        /\ Goto(c, IF tasks_tree[c] # {} THEN "sched" ELSE "run")
        /\ UNCHANGED <<state, wakeup_ticks, cpu_index, on_rq, deadline_queued, rqVars, queue_lock>>
  /\ UNCHANGED <<on_cpu, cpuVars, reapVars>>

\* sched_tick(): expire deadlines; an idle CPU steals; a busy one may preempt.
sched_tick(c) ==
  /\ pc[c] = "run" /\ Free(c)
  /\ \E due \in SUBSET deadline_tree[c] :
       sched_deadline_expire_locked(c, due, state, wakeup_ticks, deadline_tree[c])
  /\ \/ /\ current_thread[c] = Idle /\ tasks_tree'[c] = {}
        /\ loc' = [loc EXCEPT ![c].from = "tick"]
        /\ Goto(c, "steal")
     \/ tasks_tree'[c] # {} /\ Goto(c, "sched") /\ UNCHANGED loc
     \/ current_thread[c] # Idle /\ UNCHANGED <<pc, loc>>
  /\ UNCHANGED <<on_cpu, cpuVars, queue_lock, reapVars>>

-----------------------------------------------------------------------------
(* sched_wakeup() *)

\* The CPUs on whose stack t may still be.
RunningOn(t) == {k \in CpuIds : current_thread[k] = t \/ switching_from[k] = t}

\* Ignore terminal threads; a thread still on a CPU is woken there, any other
\* on the CPU that load balancing prefers.
WakeStart(c, t) ==
  /\ pc[c] = "run" /\ t \notin freed /\ state[t] \notin {"NEW", "DEAD"}
  /\ \E k \in CpuIds : /\ on_cpu[t] /\ RunningOn(t) # {} => k \in RunningOn(t)
                       /\ on_cpu[t] /\ RunningOn(t) = {} => k = cpu_index[t]
                       /\ loc' = [loc EXCEPT ![c].t = t, ![c].target = k]
  /\ Goto(c, "wake")
  /\ UNCHANGED <<threadVars, rqVars, cpuVars, queue_lock, reapVars>>

\* The head of the retry loop: which CPU owns t now?
WakeLocate(c) ==
  LET t == loc[c].t
      home == IF on_cpu[t] THEN RunningOn(t) ELSE {}
  IN /\ pc[c] = "wake"
     /\ \/ home = {} /\ loc' = [loc EXCEPT ![c].prev = cpu_index[t]]
        \/ \E k \in home : loc' = [loc EXCEPT ![c].prev = k, ![c].target = k]
     /\ Goto(c, "wake1")
     /\ UNCHANGED <<threadVars, rqVars, cpuVars, queue_lock, reapVars>>

WakeLockFirst(c) ==
  LET a == loc[c].prev
      b == loc[c].target
  IN /\ pc[c] = "wake1" /\ Take(c, FirstLock(a, b))
     /\ Goto(c, IF a = b THEN "wakecheck" ELSE "wake2")
     /\ UNCHANGED <<threadVars, rqVars, cpuVars, reapVars, loc>>

WakeLockSecond(c) ==
  /\ pc[c] = "wake2" /\ Take(c, SecondLock(loc[c].prev, loc[c].target))
  /\ Goto(c, "wakecheck")
  /\ UNCHANGED <<threadVars, rqVars, cpuVars, reapVars, loc>>

\* Mutant of StillThere: trust the CPU located before the locks were taken.
TrustLocated(t, k) == TRUE

\* Under the locks: is the located CPU still t's?
StillThere(t, k) == k \in RunningOn(t) \/ (cpu_index[t] = k /\ ~on_cpu[t])

WakeCheck(c) ==
  LET t == loc[c].t
  IN /\ pc[c] = "wakecheck"
     /\ \/ /\ StillThere(t, loc[c].prev)
           /\ loc' = [loc EXCEPT ![c].st = state[t]]
           /\ Goto(c, "wakestore")
           /\ UNCHANGED queue_lock
        \/ /\ ~StillThere(t, loc[c].prev)
           /\ Drop({loc[c].prev, loc[c].target})
           /\ Goto(c, "wake")
           /\ UNCHANGED loc
     /\ UNCHANGED <<threadVars, rqVars, cpuVars, reapVars>>

\* The CPU the thread is made runnable on.
WakeDest(c, t) ==
  IF on_cpu[t] \/ loc[c].prev \in RunningOn(t) THEN loc[c].prev ELSE loc[c].target

\* Mutant of StillCurrent: a thread whose stack is in use counts as running.
StillOnStack(t, k) == k \in RunningOn(t)

\* Whether the woken thread has not been switched away from yet.
StillCurrent(t, k) == current_thread[k] = t

\* Make a waiting thread runnable: in place when it has not left its CPU yet,
\* queued otherwise.  Anything else is already runnable, or terminal.
WakeStore(c) ==
  LET t == loc[c].t
      k == loc[c].prev
      dest == WakeDest(c, t)
      still_current == StillCurrent(t, dest)
  IN /\ pc[c] = "wakestore"
     /\ \/ /\ loc[c].st = "BLOCKED"
           /\ sched_deadline_remove_locked(t, k)
           /\ state' = [state EXCEPT ![t] = IF still_current THEN "RUNNING" ELSE "READY"]
           /\ wakeup_ticks' = [wakeup_ticks EXCEPT ![t] = FALSE]
           /\ IF still_current \/ on_rq[t]
              THEN UNCHANGED <<cpu_index, on_rq, tasks_tree, runnable_count>>
              ELSE Enqueue(t, dest) /\ cpu_index' = [cpu_index EXCEPT ![t] = dest]
        \/ /\ loc[c].st # "BLOCKED"
           /\ UNCHANGED <<state, wakeup_ticks, cpu_index, on_rq, deadline_queued, rqVars>>
     /\ Drop({k, loc[c].target})
     /\ Return(c)
     /\ UNCHANGED <<on_cpu, cpuVars, reapVars>>

-----------------------------------------------------------------------------
Step(c) ==
  \/ sched_enqueue_thread(c) \/ Exit(c) \/ sched_queue_reap(c)
  \/ ReapSkip(c) \/ ReapStart(c) \/ sched_reap_thread(c) \/ ReapDone(c)
  \/ ScheduleEnter(c) \/ PutPrev(c) \/ PickNext(c, Idle) \/ Commit(c)
  \/ SwitchStack(c) \/ ReleasePrev(c)
  \/ StealChoose(c) \/ StealLockFirst(c) \/ StealMigrate(c) \/ Relock(c) \/ sched_tick(c)
  \/ WakeLocate(c) \/ WakeLockFirst(c) \/ WakeLockSecond(c) \/ WakeCheck(c) \/ WakeStore(c)
  \/ \E b \in BOOLEAN : Block(c, b) \/ Yield(c, b)
  \/ \E t \in Threads : \/ Create(c, t) \/ Kill(c, t) \/ WakeStart(c, t)
                        \/ sched_prepare_thread_reap(c, t)
                        \/ PickDead(c, t) \/ PickNext(c, t)

SchedNext == \E c \in CpuIds : Step(c)

SchedSpec == SchedInit /\ [][SchedNext]_schedVars

-----------------------------------------------------------------------------
(* Properties *)

\* No two CPUs ever execute on one kernel stack.  A CPU is on the stack of
\* switching_from until switch_context() has moved rsp, and on that of
\* current_thread from then on; a thread may only be dispatched by another
\* CPU once its rsp is saved.
Stacks(c) == {current_thread[c], switching_from[c]} \ {Idle, None}
OneCpuPerStack ==
    SchedPresent =>
    \A c, d \in CpuIds : c # d => Stacks(c) \cap Stacks(d) = {}

\* A linked entity is in exactly the trees of the CPU that cpu_index names:
\* remove_from_runqueue(), the reaper and sched_wakeup() erase a node from
\* the trees of that CPU, and erasing it from any other corrupts both.  And
\* whenever a CPU's queue_lock is free, runnable_count, which the work stealer
\* and the load balancer read without it, is the length of its runqueue plus
\* its non-idle current thread.
TreesMatchThreads ==
    SchedPresent =>
      /\ \A t \in Threads :
           /\ {c \in CpuIds : t \in tasks_tree[c]} = IF on_rq[t] THEN {cpu_index[t]} ELSE {}
           /\ {c \in CpuIds : t \in deadline_tree[c]}
                = IF deadline_queued[t] THEN {cpu_index[t]} ELSE {}
      /\ \A c \in CpuIds : Free(c) =>
           runnable_count[c] = Cardinality(tasks_tree[c])
                                 + (IF current_thread[c] = Idle THEN 0 ELSE 1)

\* No wakeup is lost: a live runnable thread is queued, or running, or about
\* to be queued by its creator; and a timed sleeper that has left its CPU has
\* a deadline armed.
NoLostThread ==
    SchedPresent =>
    \A t \in Threads :
      LET current == \E c \in CpuIds : current_thread[c] = t
      IN /\ state[t] \in {"READY", "RUNNING"} =>
              current \/ on_rq[t] \/ UnderCreation(t)
         /\ state[t] = "BLOCKED" /\ wakeup_ticks[t] /\ ~current => deadline_queued[t]

\* The reaper frees a thread only when no CPU can touch it again: it is on no
\* stack, in no tree, and no waker or dispatcher has a pointer to it.  The one
\* exception is a clone() whose child a sibling kills before it is enqueued.
FreedIsUnreachable ==
    SchedPresent =>
    \A t \in freed : /\ \A c \in CpuIds : t \notin Stacks(c) \cup tasks_tree[c] \cup deadline_tree[c]
                     /\ \A c \in CpuIds : loc[c].t = t => pc[c] = "enqueue"
                     /\ t \notin reap_queue

\* The queue_locks a CPU spins for.
Wants(c) ==
  CASE pc[c] \in {"lock", "relock"} -> {c}
    [] pc[c] = "enqueue" -> {loc[c].target}
    [] pc[c] = "steal1" -> {FirstLock(c, loc[c].target)}
    [] pc[c] = "steal2" -> {SecondLock(c, loc[c].target)}
    [] pc[c] = "wake1" -> {FirstLock(loc[c].prev, loc[c].target)}
    [] pc[c] = "wake2" -> {SecondLock(loc[c].prev, loc[c].target)}
    [] OTHER -> {}

\* No CPU spins for a queue_lock it holds, and no two for each other's:
\* stealing, waking and scheduling take two locks in cpu_id order.
NoLockCycle ==
    SchedPresent =>
    /\ \A c \in CpuIds : \A k \in Wants(c) : queue_lock[k] # c
    /\ \A c, d \in CpuIds : ~ /\ \E k \in Wants(c) : queue_lock[k] = d
                              /\ \E k \in Wants(d) : queue_lock[k] = c

-----------------------------------------------------------------------------
(* The strengthening *)

Plain       == {"run", "sched", "reap", "lock", "put", "pick"}
Dispatching == {"put", "pick", "commit"}
Stealing    == {"steal", "steal1", "steal2", "relock"}
Waking      == {"wake", "wake1", "wake2", "wakecheck", "wakestore"}
Leaving     == {"switch", "switched"}

\* The queue_locks a CPU holds, from where it is.
Holding(c) ==
  CASE pc[c] \in Dispatching -> {c}
    [] pc[c] = "steal2" -> {FirstLock(c, loc[c].target)}
    [] pc[c] = "wake2" -> {FirstLock(loc[c].prev, loc[c].target)}
    [] pc[c] \in {"wakecheck", "wakestore"} -> {loc[c].prev, loc[c].target}
    [] OTHER -> {}

LockInv == \A c, k \in CpuIds : queue_lock[k] = c <=> k \in Holding(c)

\* What the locals mean where they are used.
LocalsOK(c) ==
  /\ pc[c] \in Waking \cup {"enqueue", "queue_reap", "free"} => loc[c].t \in Threads
  /\ pc[c] \in {"commit"} \cup Leaving => loc[c].t \in Threads \cup {Idle}
  /\ pc[c] \in Plain \cup Stealing => loc[c].t = None
  /\ pc[c] \in {"steal1", "steal2"} => loc[c].target \in CpuIds \ {c}
  /\ pc[c] \in Waking \cup {"enqueue"} => loc[c].target \in CpuIds
  /\ pc[c] \in Waking \ {"wake"} => loc[c].prev \in CpuIds
  /\ pc[c] = "wake2" => loc[c].prev # loc[c].target
  /\ pc[c] \in Stealing =>
       \/ loc[c].from = "fast" /\ current_thread[c] # Idle
       \/ loc[c].from \in {"idle", "tick"} /\ current_thread[c] = Idle

LocalsInv == \A c \in CpuIds : LocalsOK(c)

\* A thread whose registers are in a CPU: its current thread, and the one it
\* is switching from until on_cpu is cleared.
Occupies(c, t) ==
  \/ current_thread[c] = t
  \/ pc[c] \in Leaving /\ loc[c].t = t

StackInv ==
  /\ \A c \in CpuIds : switching_from[c] = IF pc[c] = "switch" THEN loc[c].t ELSE None
  /\ \A c \in CpuIds : pc[c] \in Leaving => loc[c].t # current_thread[c]
  /\ \A t \in Threads : on_cpu[t] <=> \E c \in CpuIds : Occupies(c, t)
  /\ \A t \in Threads, c \in CpuIds : Occupies(c, t) => cpu_index[t] = c

TasksInv ==
  \A t \in Threads, c \in CpuIds : t \in tasks_tree[c] <=> on_rq[t] /\ cpu_index[t] = c

DeadlinesInv ==
  \A t \in Threads, c \in CpuIds :
    t \in deadline_tree[c] <=> deadline_queued[t] /\ cpu_index[t] = c

\* Between PutPrev and Commit the current thread is in its tree if runnable.
Choosing(c) == pc[c] \in {"pick", "commit"}

ChoiceOK(c) ==
  /\ ~Choosing(c) => current_thread[c] \notin tasks_tree[c]
  /\ pc[c] = "commit" => \/ loc[c].t \in tasks_tree[c]
                         \/ loc[c].t = Idle /\ tasks_tree[c] = {}

ChoiceInv == \A c \in CpuIds : ChoiceOK(c)

\* The current thread, where it is counted apart from the tree.
Counted(c) == IF current_thread[c] = Idle \/ Choosing(c) THEN 0 ELSE 1

CountedInv ==
  \A c \in CpuIds : runnable_count[c] = Cardinality(tasks_tree[c]) + Counted(c)

\* A waker about to store a state: it read BLOCKED and holds the lock of t's CPU.
Storing(c, t) == pc[c] = "wakestore" /\ loc[c].t = t /\ loc[c].st = "BLOCKED"

WakeInv == \A c \in CpuIds, t \in Threads : Storing(c, t) => cpu_index[t] = loc[c].prev

\* Known to no scheduler structure.
Detached(t) ==
  /\ ~on_rq[t] /\ ~deadline_queued[t] /\ ~on_cpu[t]
  /\ \A c \in CpuIds : ~Storing(c, t)

CreationOK(t) ==
  /\ state[t] = "NEW" => Detached(t) /\ \A c \in CpuIds : loc[c].t # t
  /\ UnderCreation(t) => Detached(t) /\ state[t] \in {"READY", "DEAD"}
  /\ \A c, d \in CpuIds : pc[c] = "enqueue" /\ pc[d] = "enqueue"
                            /\ loc[c].t = t /\ loc[d].t = t => c = d

CreationInv == \A t \in Threads : CreationOK(t)

\* A thread the reaper has unlinked, until it is put back.
Reaping(t) == t \in freed \/ \E c \in CpuIds : pc[c] = "free" /\ loc[c].t = t

ReapInv ==
  /\ \A c \in CpuIds : reap_worker_lock = c <=> pc[c] \in {"reap", "free"}
  /\ \A c \in CpuIds : pc[c] = "reap" => loc[c].todo \subseteq reap_queue
  /\ reap_queue \subseteq reap_queued
  /\ \A t \in Threads : Reaping(t) =>
       /\ Detached(t) /\ state[t] = "DEAD"
       /\ t \in reap_queued /\ t \notin reap_queue
  /\ \A t \in freed, c \in CpuIds : loc[c].t = t => pc[c] = "enqueue"

\* A runnable thread is queued, a timed sleeper has its deadline armed, unless
\* it is current.
QueuedOK(t) ==
  \/ \E c \in CpuIds : current_thread[c] = t
  \/ /\ state[t] \in {"READY", "RUNNING"} => on_rq[t] \/ UnderCreation(t)
     /\ state[t] = "BLOCKED" /\ wakeup_ticks[t] => deadline_queued[t]

QueuedInv == \A t \in Threads : QueuedOK(t)

\* ... and a current thread that its CPU is about to leave is so already.
CurrentOK(c) ==
  \A t \in Threads : current_thread[c] = t =>
    /\ Choosing(c) => on_rq[t] \/ state[t] \in {"BLOCKED", "DEAD"}
    /\ pc[c] \in Dispatching /\ state[t] = "BLOCKED" /\ wakeup_ticks[t] => deadline_queued[t]
    /\ pc[c] \in Stealing => state[t] # "BLOCKED"

CurrentInv == \A c \in CpuIds : CurrentOK(c)

SchedInv ==
  /\ SchedTypeOK /\ LockInv /\ LocalsInv /\ StackInv /\ TasksInv /\ DeadlinesInv
  /\ ChoiceInv /\ CountedInv /\ WakeInv /\ CreationInv /\ ReapInv /\ QueuedInv /\ CurrentInv

=============================================================================
