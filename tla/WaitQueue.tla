----------------------------- MODULE WaitQueue -----------------------------
(***************************************************************************)
(* Wait queues, sched/wait.c: threads that publish BLOCKED, link a         *)
(* stack-resident entry and re-check their condition before they sleep     *)
(* (the protocol of fifo_read(), eventfd_read() and the socket waits);     *)
(* wakers that detach entries under the queue's lock; the reaper that      *)
(* detaches and frees a killed thread; and an owner that closes the queue. *)
(*                                                                         *)
(* The scheduler is its contract: sched_wakeup() makes a BLOCKED thread    *)
(* RUNNING.  Each thread has one entry, so an entry is named by its        *)
(* thread, and the entry's memory lives and dies with the thread.  The     *)
(* condition is a number of tokens: an event adds one, a waiter takes one. *)
(***************************************************************************)
EXTENDS Integers, Sequences

CONSTANTS Threads,   \* threads that wait
          Wakers,    \* threads or interrupts that signal the condition
          Usages,    \* the wakes a queue may be used with: "all", "one", "handoff"
          MaxEvents, \* bound on the number of events
          None

ASSUME WaitConstants ==
  /\ Usages \subseteq {"all", "one", "handoff"} /\ MaxEvents \in Nat
  /\ None \notin Threads \cup Wakers

VARIABLES
  usage,                     \* the wake this queue's owner uses, fixed
  state,                     \* struct thread: state
  head, lock, closed,        \* struct wait_queue: list of entries, lock holder; queue memory freed
  entry_wq, entry_thread,    \* struct wait_queue_entry: wq # NULL, thread # NULL
  listed,                    \* the entry is on its thread's wait_entries list
  freed,                     \* threads whose struct and stack are freed
  tokens, events,            \* the condition, and how often it was signalled
  tpc, parked,               \* each waiter's position; waiters preempted while BLOCKED
  wpc, kind, rest, cur,      \* each waker's position and locals
  rpc, victim                \* the reaper's position and local

queueVars == <<head, lock, closed>>
entryVars == <<entry_wq, entry_thread, listed>>
wakerVars == <<wpc, kind, rest, cur>>
reapVars  == <<rpc, victim, freed>>
vars == <<usage, state, queueVars, entryVars, tokens, events, tpc, parked, wakerVars, reapVars>>

Init ==
  /\ usage \in Usages
  /\ state = [t \in Threads |-> "RUNNING"]
  /\ head = <<>> /\ lock = None /\ closed = FALSE
  /\ entry_wq = [t \in Threads |-> FALSE]
  /\ entry_thread = [t \in Threads |-> FALSE]
  /\ listed = [t \in Threads |-> FALSE]
  /\ freed = {} /\ tokens = 0 /\ events = 0
  /\ tpc = [t \in Threads |-> "test"]
  /\ parked = {}
  /\ wpc = [w \in Wakers |-> "idle"]
  /\ kind = [w \in Wakers |-> usage]
  /\ rest = [w \in Wakers |-> <<>>]
  /\ cur = [w \in Wakers |-> None]
  /\ rpc = "idle" /\ victim = None

\* The state's types; tokens never go below zero.
TypeOK ==
  /\ usage \in Usages
  /\ state \in [Threads -> {"RUNNING", "BLOCKED", "DEAD"}]
  /\ head \in Seq(Threads) /\ lock \in Wakers \cup {None} /\ closed \in BOOLEAN
  /\ entry_wq \in [Threads -> BOOLEAN] /\ entry_thread \in [Threads -> BOOLEAN]
  /\ listed \in [Threads -> BOOLEAN] /\ freed \subseteq Threads
  /\ tokens \in Nat /\ events \in 0..MaxEvents
  /\ tpc \in [Threads -> {"test", "publish", "add", "link", "recheck", "asleep",
                          "remove", "unlink", "unlist"}]
  /\ parked \subseteq Threads
  /\ wpc \in [Wakers -> {"idle", "lock", "next", "load", "scan", "wake", "clear", "unlock"}]
  /\ kind \in [Wakers -> {"all", "one", "handoff", "close"}]
  /\ rest \in [Wakers -> Seq(Threads)] /\ cur \in [Wakers -> Threads \cup {None}]
  /\ rpc \in {"idle", "entry", "unlink", "free"} /\ victim \in Threads \cup {None}

-----------------------------------------------------------------------------
(* The waiting thread.  A DEAD thread, or one switched out, takes no step. *)

At(t, l) == tpc[t] = l /\ state[t] # "DEAD" /\ t \notin parked
Step(t, l) == tpc' = [tpc EXCEPT ![t] = l]

\* The one entry of a thread leaves a list.
Unlink(s, t) ==
  IF \E i \in DOMAIN s : s[i] = t
  THEN LET i == CHOOSE i \in DOMAIN s : s[i] = t
       IN [j \in 1..(Len(s) - 1) |-> s[IF j < i THEN j ELSE j + 1]]
  ELSE s

\* The owner is destroying the queue, or has: nobody starts to use it.
Closing == closed \/ \E w \in Wakers : kind[w] = "close" /\ wpc[w] # "idle"

\* The condition holds: take a token.  Otherwise get ready to wait.
Test(t) ==
  /\ At(t, "test")
  /\ \/ tokens > 0 /\ tokens' = tokens - 1 /\ UNCHANGED tpc
     \/ tokens = 0 /\ ~Closing /\ Step(t, "publish") /\ UNCHANGED tokens
  /\ UNCHANGED <<usage, state, queueVars, entryVars, events, wakerVars, reapVars, parked>>

\* t->state = THREAD_BLOCKED, with a fresh entry on the stack.
Publish(t) ==
  /\ At(t, "publish")
  /\ state' = [state EXCEPT ![t] = "BLOCKED"]
  /\ entry_thread' = [entry_thread EXCEPT ![t] = TRUE]
  /\ Step(t, "add")
  /\ UNCHANGED <<usage, queueVars, entry_wq, listed, tokens, events, wakerVars, reapVars, parked>>

\* wait_queue_add() links at the head, wait_queue_add_tail() at the tail.
wait_queue_add(t) ==
  /\ At(t, "add") /\ lock = None
  /\ entry_wq' = [entry_wq EXCEPT ![t] = TRUE]
  /\ head' = IF usage = "handoff" THEN Append(head, t) ELSE <<t>> \o head
  /\ Step(t, "link")
  /\ UNCHANGED <<usage, state, lock, closed, entry_thread, listed, tokens, events, wakerVars, reapVars, parked>>

\* ... and then, under wait_entries_lock, on the thread's own list.
AddThreadLink(t) ==
  /\ At(t, "link")
  /\ listed' = [listed EXCEPT ![t] = TRUE]
  /\ Step(t, "recheck")
  /\ UNCHANGED <<usage, state, queueVars, entry_wq, entry_thread, tokens, events, wakerVars, reapVars, parked>>

\* Mutant of Recheck: sleep without looking at the condition again.
SleepBlindly(t) ==
  /\ At(t, "recheck")
  /\ Step(t, "asleep")
  /\ UNCHANGED <<usage, state, queueVars, entryVars, tokens, events, wakerVars, reapVars, parked>>

\* Look at the condition again now that a waker can see the entry; sleep
\* (sched_yield() with state BLOCKED) only if it still does not hold.
Recheck(t) ==
  /\ At(t, "recheck")
  /\ \/ /\ tokens > 0
        /\ state' = [state EXCEPT ![t] = "RUNNING"]
        /\ Step(t, "remove")
     \/ /\ tokens = 0
        /\ Step(t, "asleep")
        /\ UNCHANGED state
  /\ UNCHANGED <<usage, queueVars, entryVars, tokens, events, wakerVars, reapVars, parked>>

\* The scheduler runs the thread again once it is RUNNING.
Resume(t) ==
  /\ At(t, "asleep") /\ state[t] = "RUNNING"
  /\ Step(t, "remove")
  /\ UNCHANGED <<usage, state, queueVars, entryVars, tokens, events, wakerVars, reapVars, parked>>

\* A deadline or a signal makes the sleeper runnable without the queue.
TimeoutOrSignal(t) ==
  /\ At(t, "asleep") /\ state[t] = "BLOCKED"
  /\ state' = [state EXCEPT ![t] = "RUNNING"]
  /\ UNCHANGED <<usage, queueVars, entryVars, tokens, events, tpc, wakerVars, reapVars, parked>>

\* A tick preempts a thread that has published BLOCKED but not yet slept: the
\* scheduler dequeues it as if it had, and runs it again once it is RUNNING.
Park(t) ==
  /\ state[t] = "BLOCKED" /\ t \notin parked
  /\ tpc[t] \in {"add", "link", "recheck"}
  /\ parked' = parked \cup {t}
  /\ UNCHANGED <<usage, state, queueVars, entryVars, tokens, events, tpc, wakerVars, reapVars>>

Unpark(t) ==
  /\ t \in parked /\ state[t] = "RUNNING"
  /\ parked' = parked \ {t}
  /\ UNCHANGED <<usage, state, queueVars, entryVars, tokens, events, tpc, wakerVars, reapVars>>

\* wait_queue_remove(): read entry->wq without the lock ...
wait_queue_remove(t) ==
  /\ At(t, "remove")
  /\ Step(t, IF entry_wq[t] THEN "unlink" ELSE "unlist")
  /\ UNCHANGED <<usage, state, queueVars, entryVars, tokens, events, wakerVars, reapVars, parked>>

\* ... unlink the entry, if it is still linked, from the queue it named ...
RemoveUnlink(t) ==
  /\ At(t, "unlink") /\ lock = None
  /\ head' = Unlink(head, t)
  /\ entry_wq' = [entry_wq EXCEPT ![t] = FALSE]
  /\ Step(t, "unlist")
  /\ UNCHANGED <<usage, state, lock, closed, entry_thread, listed, tokens, events, wakerVars, reapVars, parked>>

\* ... and take it off the thread's own list.
RemoveThreadLink(t) ==
  /\ At(t, "unlist")
  /\ listed' = [listed EXCEPT ![t] = FALSE]
  /\ Step(t, "test")
  /\ UNCHANGED <<usage, state, queueVars, entry_wq, entry_thread, tokens, events, wakerVars, reapVars, parked>>

-----------------------------------------------------------------------------
(* The waker.  The wakes run with interrupts masked and the lock held. *)

\* An event and the wake that follows it; "close" has no event, it is a
\* destroy path (eventfd_close(), socket_destroy()): wake_all, then kfree.
\* wait_queue_handoff() publishes its event to the thread it selects.
Signal(w) ==
  /\ wpc[w] = "idle" /\ events < MaxEvents /\ ~Closing
  /\ \E k \in {usage, "close"} :
       /\ k = "close" => /\ \A u \in Wakers : wpc[u] = "idle"
                         /\ \A t \in Threads : tpc[t] \in {"test", "asleep", "remove"}
       /\ kind' = [kind EXCEPT ![w] = k]
       /\ tokens' = IF k \in {"all", "one"} THEN tokens + 1 ELSE tokens
  /\ events' = events + 1
  /\ wpc' = [wpc EXCEPT ![w] = "lock"]
  /\ UNCHANGED <<usage, state, queueVars, entryVars, tpc, rest, cur, reapVars, parked>>

\* Take the lock; wake_all detaches the whole list first.
WakeLock(w) ==
  /\ wpc[w] = "lock" /\ lock = None
  /\ lock' = w
  /\ LET all == kind[w] \in {"all", "close"} IN
       /\ rest' = [rest EXCEPT ![w] = IF all THEN head ELSE <<>>]
       /\ head' = IF all THEN <<>> ELSE head
       /\ wpc' = [wpc EXCEPT ![w] = IF all THEN "next" ELSE "scan"]
  /\ UNCHANGED <<usage, state, closed, entryVars, tokens, events, tpc, kind, cur, reapVars, parked>>

\* Mutant of wait_queue_wake_all: the detached entries keep their back-pointer.
DetachKeepsPointer(w) ==
  /\ wpc[w] = "next"
  /\ IF rest[w] = <<>>
     THEN wpc' = [wpc EXCEPT ![w] = "unlock"] /\ UNCHANGED <<rest, cur>>
     ELSE /\ cur' = [cur EXCEPT ![w] = Head(rest[w])]
          /\ rest' = [rest EXCEPT ![w] = Tail(rest[w])]
          /\ wpc' = [wpc EXCEPT ![w] = "load"]
  /\ UNCHANGED <<usage, state, queueVars, entryVars, tokens, events, tpc, kind, reapVars, parked>>

\* wait_queue_wake_all(): curr->wq = NULL for the next detached entry ...
wait_queue_wake_all(w) ==
  /\ wpc[w] = "next"
  /\ IF rest[w] = <<>>
     THEN /\ wpc' = [wpc EXCEPT ![w] = "unlock"]
          /\ UNCHANGED <<entry_wq, rest, cur>>
     ELSE /\ cur' = [cur EXCEPT ![w] = Head(rest[w])]
          /\ rest' = [rest EXCEPT ![w] = Tail(rest[w])]
          /\ entry_wq' = [entry_wq EXCEPT ![Head(rest[w])] = FALSE]
          /\ wpc' = [wpc EXCEPT ![w] = "load"]
  /\ UNCHANGED <<usage, state, queueVars, entry_thread, listed, tokens, events, tpc, kind, reapVars, parked>>

\* Mutant of WakeLoad: the loop does not advance past a dead thread's entry.
StuckOnDead(w) ==
  /\ wpc[w] = "load" /\ entry_thread[cur[w]] /\ state[cur[w]] # "DEAD"
  /\ wpc' = [wpc EXCEPT ![w] = "wake"]
  /\ UNCHANGED <<usage, state, queueVars, entryVars, tokens, events, tpc, kind, rest, cur, reapVars, parked>>

\* ... then load curr->thread and test its state.
WakeLoad(w) ==
  /\ wpc[w] = "load"
  /\ wpc' = [wpc EXCEPT ![w] =
               IF entry_thread[cur[w]] /\ state[cur[w]] # "DEAD" THEN "wake" ELSE "next"]
  /\ UNCHANGED <<usage, state, queueVars, entryVars, tokens, events, tpc, kind, rest, cur, reapVars, parked>>

Wakeable(t) == entry_thread[t] /\ state[t] # "DEAD"

\* Mutant of BackPointerAfterWake: the handoff clears the back-pointer when it
\* selects, as wake_one does.
BackPointerBeforeWake(k) == FALSE

\* wait_queue_handoff() leaves the back-pointer until the thread's last use.
BackPointerAfterWake(k) == k = "handoff"

\* wait_queue_wake_one(), wait_queue_handoff(): unlink the first live entry.
wait_queue_wake_one(w) ==
  /\ wpc[w] = "scan"
  /\ tokens' = IF kind[w] = "handoff" THEN tokens + 1 ELSE tokens
  /\ IF \E i \in DOMAIN head : Wakeable(head[i])
     THEN \E i \in DOMAIN head :
          /\ Wakeable(head[i]) /\ \A j \in 1..(i - 1) : ~Wakeable(head[j])
          /\ cur' = [cur EXCEPT ![w] = head[i]]
          /\ head' = Unlink(head, head[i])
          /\ entry_wq' = [entry_wq EXCEPT ![head[i]] = BackPointerAfterWake(kind[w])]
          /\ wpc' = [wpc EXCEPT ![w] = "wake"]
     ELSE /\ wpc' = [wpc EXCEPT ![w] = "unlock"]
          /\ UNCHANGED <<cur, head, entry_wq>>
  /\ UNCHANGED <<usage, state, lock, closed, entry_thread, listed, events, tpc, kind, rest, reapVars, parked>>

\* t->wakeup_ticks = 0; sched_wakeup(t).
Wake(w) ==
  /\ wpc[w] = "wake"
  /\ state' = [state EXCEPT ![cur[w]] = IF @ = "BLOCKED" THEN "RUNNING" ELSE @]
  /\ wpc' = [wpc EXCEPT ![w] = CASE kind[w] = "one"     -> "unlock"
                                 [] kind[w] = "handoff" -> "clear"
                                 [] OTHER               -> "next"]
  /\ UNCHANGED <<usage, queueVars, entryVars, tokens, events, tpc, kind, rest, cur, reapVars, parked>>

\* wait_queue_handoff(): curr->wq = NULL, after the last use of t.
wait_queue_handoff(w) ==
  /\ wpc[w] = "clear"
  /\ entry_wq' = [entry_wq EXCEPT ![cur[w]] = FALSE]
  /\ wpc' = [wpc EXCEPT ![w] = "unlock"]
  /\ UNCHANGED <<usage, state, queueVars, entry_thread, listed, tokens, events, tpc,
                 kind, rest, cur, reapVars, parked>>

\* Release the lock; a destroy path then frees the object the queue is in.
WakeUnlock(w) ==
  /\ wpc[w] = "unlock"
  /\ lock' = None
  /\ closed' = (closed \/ kind[w] = "close")
  /\ wpc' = [wpc EXCEPT ![w] = "idle"]
  /\ kind' = [kind EXCEPT ![w] = usage] /\ cur' = [cur EXCEPT ![w] = None]
  /\ UNCHANGED <<usage, state, head, entryVars, tokens, events, tpc, rest, reapVars, parked>>

-----------------------------------------------------------------------------
(* Killing and reaping a waiting thread. *)

\* sched_terminate_thread_group(): a thread that is switched out is marked
\* DEAD and runs no more.
Kill(t) ==
  /\ state[t] # "DEAD"
  /\ tpc[t] = "asleep" \/ t \in parked
  /\ state' = [state EXCEPT ![t] = "DEAD"]
  /\ UNCHANGED <<usage, queueVars, entryVars, tokens, events, tpc, wakerVars, reapVars, parked>>

\* wait_queue_cleanup_thread(): detach the thread's own list ...
ReapTakeList(t) ==
  /\ rpc = "idle" /\ state[t] = "DEAD" /\ t \notin freed
  /\ victim' = t
  /\ rpc' = IF listed[t] THEN "entry" ELSE "free"
  /\ listed' = [listed EXCEPT ![t] = FALSE]
  /\ UNCHANGED <<usage, state, queueVars, entry_wq, entry_thread, tokens, events, tpc, wakerVars, freed, parked>>

\* ... read the entry's back-pointer without the lock ...
wait_queue_cleanup_thread ==
  /\ rpc = "entry"
  /\ rpc' = IF entry_wq[victim] THEN "unlink" ELSE "free"
  /\ UNCHANGED <<usage, state, queueVars, entryVars, tokens, events, tpc, wakerVars, victim, freed, parked>>

\* Mutant of CleanupUnlink: clear the entry but leave it linked.
CleanupLeavesLink ==
  /\ rpc = "unlink" /\ lock = None
  /\ entry_thread' = [entry_thread EXCEPT ![victim] = FALSE]
  /\ entry_wq' = [entry_wq EXCEPT ![victim] = FALSE]
  /\ rpc' = "free"
  /\ UNCHANGED <<usage, state, queueVars, listed, tokens, events, tpc, wakerVars, victim, freed, parked>>

\* ... and unlink it from the queue the pointer named.
CleanupUnlink ==
  /\ rpc = "unlink" /\ lock = None
  /\ head' = Unlink(head, victim)
  /\ entry_thread' = [entry_thread EXCEPT ![victim] = FALSE]
  /\ entry_wq' = [entry_wq EXCEPT ![victim] = FALSE]
  /\ rpc' = "free"
  /\ UNCHANGED <<usage, state, lock, closed, listed, tokens, events, tpc, wakerVars, victim, freed, parked>>

\* sched_reap_thread(): the stack and the struct are freed.
ReapFree ==
  /\ rpc = "free"
  /\ freed' = freed \cup {victim}
  /\ rpc' = "idle" /\ victim' = None
  /\ UNCHANGED <<usage, state, queueVars, entryVars, tokens, events, tpc, wakerVars, parked>>

-----------------------------------------------------------------------------
Waiter(t) ==
  \/ Test(t) \/ Publish(t) \/ wait_queue_add(t) \/ AddThreadLink(t) \/ Recheck(t)
  \/ Resume(t) \/ Unpark(t) \/ wait_queue_remove(t) \/ RemoveUnlink(t) \/ RemoveThreadLink(t)

Waking(w) ==
  \/ WakeLock(w) \/ wait_queue_wake_all(w) \/ WakeLoad(w) \/ wait_queue_wake_one(w)
  \/ Wake(w) \/ wait_queue_handoff(w) \/ WakeUnlock(w)

Reaper ==
  \/ \E t \in Threads : ReapTakeList(t)
  \/ wait_queue_cleanup_thread \/ CleanupUnlink \/ ReapFree

Next ==
  \/ \E t \in Threads : Waiter(t) \/ Park(t) \/ TimeoutOrSignal(t) \/ Kill(t)
  \/ \E w \in Wakers : Signal(w) \/ Waking(w)
  \/ Reaper

Spec == Init /\ [][Next]_vars

\* Threads run once RUNNING, a wake that has begun completes (it runs with
\* interrupts masked), and the reaper thread keeps working.
FairSpec ==
  /\ Spec
  /\ \A t \in Threads : WF_vars(Waiter(t))
  /\ \A w \in Wakers : WF_vars(Waking(w))
  /\ WF_vars(Reaper)

-----------------------------------------------------------------------------
(* Properties. *)

\* The entry's stack frame is live: its thread has not returned or been freed.
InScope(t) == t \notin freed /\ tpc[t] \notin {"test", "publish"}

\* Killed by a tick's preemption between its two links in wait_queue_add():
\* linked to the queue but not to the thread, the entry is one that
\* wait_queue_cleanup_thread() cannot find.
Unfindable(t) == state[t] = "DEAD" /\ tpc[t] = "link"

\* "Waking under the lock keeps the thread pointer safe against a concurrent
\* wait_queue_cleanup_thread()" (wait.c): between the test of the thread's
\* state and sched_wakeup() the reaper has not freed it.
WokenThreadAlive ==
  \A w \in Wakers :
    wpc[w] = "wake" /\ ~Unfindable(cur[w]) => cur[w] \notin freed

\* wait_queue_handoff() keeps the back-pointer until its last use of the
\* thread, so the reaper has to wait for the lock: neither the thread nor the
\* entry on its stack is freed or reused under it.
HandoffUsesLiveMemory ==
  \A w \in Wakers :
    wpc[w] \in {"wake", "clear"} /\ kind[w] = "handoff" /\ ~Unfindable(cur[w])
      => InScope(cur[w])

\* No queue ever links an entry of a freed thread or of a function that
\* returned: wait_queue_remove() and wait_queue_cleanup_thread() find every
\* entry that is not Unfindable.
NoDanglingEntry ==
  LET Valid(t) == InScope(t) \/ Unfindable(t) IN
    /\ \A i \in DOMAIN head : Valid(head[i])
    /\ \A w \in Wakers : \A i \in DOMAIN rest[w] :
         wpc[w] = "next" => Valid(rest[w][i])

\* Asleep after the re-check, and switched out by a tick while BLOCKED.  The
\* latter may have been switched out before the link or the re-check: no wake
\* is promised to it.
Sleeping(t) == state[t] = "BLOCKED" /\ tpc[t] = "asleep"
Preempted(t) == state[t] = "BLOCKED" /\ t \in parked

\* Publish-BLOCKED, add, re-check against event, wake: when no wake is in
\* progress no thread sleeps while the condition it waits for holds.  wake_one
\* and handoff reach one waiter, so there another may sleep on while that one
\* is on its way, or was killed after it got the wake.
NoLostWakeup ==
  (tokens > 0 /\ \A w \in Wakers : wpc[w] = "idle")
    => \/ \A t \in Threads : ~Sleeping(t)
       \/ usage # "all" /\ \E t \in Threads : ~Sleeping(t) /\ ~Preempted(t)

\* A destroy path (wake_all, then kfree) leaves no entry pointing at the freed
\* queue: only a thread or reaper that had read the pointer before may use it.
ClosedQueueForgotten ==
  closed => head = <<>> /\ \A t \in Threads :
    entry_wq[t] => tpc[t] = "unlink" \/ (rpc = "unlink" /\ victim = t)

\* A thread asleep on a wake_all queue whose condition holds does not sleep
\* on: it wakes, dies, or another waiter takes the condition.
SleeperReleased ==
  \A t \in Threads :
    (usage = "all" /\ tpc[t] = "asleep" /\ tokens > 0)
      ~> (tpc[t] # "asleep" \/ tokens = 0 \/ state[t] = "DEAD")

-----------------------------------------------------------------------------
(* The strengthening of the four invariants that every step preserves. *)

In(s, t) == \E i \in DOMAIN s : s[i] = t
Linked(t) == In(head, t) \/ \E w \in Wakers : In(rest[w], t)

Distinct(s) == \A i, j \in DOMAIN s : s[i] = s[j] => i = j

Holding == {"next", "load", "scan", "wake", "clear", "unlock"}

\* Where a waker is says what it holds and what its locals mean; a wake_all
\* has taken the list.
WakerOK(w) ==
  /\ lock = w <=> wpc[w] \in Holding
  /\ kind[w] \in {usage, "close"} /\ (wpc[w] = "idle" => kind[w] = usage)
  /\ wpc[w] \in {"next", "load"} => kind[w] \in {"all", "close"}
  /\ wpc[w] = "scan" => kind[w] \in {"one", "handoff"}
  /\ wpc[w] = "clear" => kind[w] = "handoff"
  /\ wpc[w] \in {"load", "wake", "clear"} => cur[w] \in Threads
  /\ rest[w] # <<>> => kind[w] \in {"all", "close"} /\ wpc[w] \in {"next", "load", "wake"}
  /\ kind[w] \in {"all", "close"} /\ wpc[w] \in Holding => head = <<>>

WakersInv == \A w \in Wakers : WakerOK(w)

\* w is handing an event to t, whose entry it has unlinked.
Handing(w, t) == wpc[w] \in {"wake", "clear"} /\ kind[w] = "handoff" /\ cur[w] = t

\* The back-pointer is set exactly while the entry is linked or handed an
\* event, and its function has not returned then.
EntryOK(t) ==
  /\ Linked(t) => entry_wq[t]
  /\ \A w \in Wakers : Handing(w, t) => entry_wq[t] /\ ~Linked(t)
  /\ entry_wq[t] => Linked(t) \/ \E w \in Wakers : Handing(w, t)
  /\ entry_wq[t] => tpc[t] \in {"link", "recheck", "asleep", "remove", "unlink"}

EntriesInv ==
  /\ Distinct(head) /\ \A w \in Wakers : Distinct(rest[w])
  /\ \A t \in Threads : EntryOK(t)

\* The reaper has begun with t, or is done.
Reaped(t) == t \in freed \/ (rpc # "idle" /\ victim = t)

ThreadOK(t) ==
  /\ state[t] = "BLOCKED" => tpc[t] \in {"add", "link", "recheck", "asleep"}
  /\ t \in parked => tpc[t] \in {"add", "link", "recheck"}
  /\ state[t] = "DEAD" => tpc[t] = "asleep" \/ t \in parked
  /\ state[t] # "DEAD" /\ tpc[t] \notin {"test", "publish"} => entry_thread[t]
  /\ tpc[t] \in {"recheck", "asleep", "remove", "unlink", "unlist"} => listed[t] \/ Reaped(t)
  /\ Reaped(t) => state[t] = "DEAD"
  /\ t \in freed \/ (rpc = "free" /\ victim = t) => ~entry_wq[t] \/ tpc[t] = "link"

ThreadsInv ==
  /\ \A t \in Threads : ThreadOK(t)
  /\ rpc # "idle" => victim \in Threads \ freed

\* Who destroys the queue is alone with it.
CloseInv ==
  /\ Closing => \A t \in Threads : tpc[t] \notin {"publish", "add", "link", "recheck"}
  /\ \A w, u \in Wakers : kind[w] = "close" /\ u # w => wpc[u] = "idle"
  /\ closed => head = <<>> /\ \A w \in Wakers : wpc[w] = "idle"

\* w has t's entry in hand, and wakes the thread.
Reaching(w, t) ==
  \/ wpc[w] \in {"next", "load", "wake"} /\ In(rest[w], t)
  \/ wpc[w] \in {"load", "wake"} /\ cur[w] = t

\* A blocked thread that has linked its entry can be found; while the condition
\* holds a waker is on its way to every sleeper, or to one.
Findable(t) ==
  state[t] = "BLOCKED" /\ tpc[t] \in {"link", "recheck", "asleep"}
    => In(head, t) \/ \E w \in Wakers : Reaching(w, t)

AllCalled(t) ==
  usage = "all" /\ tokens > 0 /\ Sleeping(t)
    => \E w \in Wakers : wpc[w] = "lock" \/ Reaching(w, t)

OneCalled ==
  usage # "all" /\ tokens > 0 /\ (\E t \in Threads : Sleeping(t))
    => \/ \E w \in Wakers : wpc[w] \in {"lock", "scan"} /\ kind[w] # "close"
       \/ \E w \in Wakers : wpc[w] = "wake" /\ state[cur[w]] = "BLOCKED"
       \/ \E t \in Threads : state[t] # "BLOCKED" /\ tpc[t] # "publish"

CalledInv == (\A t \in Threads : Findable(t) /\ AllCalled(t)) /\ OneCalled

WaitInv ==
  TypeOK /\ WakersInv /\ EntriesInv /\ ThreadsInv /\ CloseInv /\ CalledInv

=============================================================================
