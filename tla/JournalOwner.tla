---------------------------- MODULE JournalOwner ----------------------------
(***************************************************************************)
(* Ownership of a mount's journal transaction, fs/ext3/ext3.c: one thread  *)
(* at a time runs a handle (ext3_journal_start() .. ext3_journal_stop());  *)
(* a finishing owner hands the still-held lock to the oldest waiter; an    *)
(* interrupted waiter forwards a grant it will not use; the reaper frees   *)
(* the transaction of a killed owner; a stopping handle may leave its      *)
(* images in the closed chain for the next owner to commit (group commit). *)
(*                                                                         *)
(* What a transaction writes is JournalCommit's subject; here a handle has *)
(* staged something or not, and the closed chain is empty or not.  Wait    *)
(* queues are taken at their contract (WaitQueue).                         *)
(***************************************************************************)
EXTENDS Integers, Sequences, FiniteSets, Null

CONSTANTS Threads, Reaper,
          MaxOps,      \* bound: handles each thread runs
          MaxKills     \* bound: threads killed

ASSUME JournalOwnerConstants ==
  /\ Reaper \notin Threads /\ None \notin Threads \cup {Reaper}
  /\ MaxOps \in Nat /\ MaxKills \in Nat

Procs == Threads \cup {Reaper}

VARIABLES
  active, owner_tid, granted_tid, depth, \* ext3_journal_state_t
  lock, sched_lock,                      \* trans->lock taken; trans->sched_lock's holder
  waiters,                               \* trans->waiters
  staged, closed_chain,                        \* txn_count # 0, closed_count # 0
  state, sig,                            \* each thread's scheduler state, pending signal
  place, ops, deferred, no_defer,           \* each thread's position and locals
  victim, reaped,                        \* the reaper's local, threads it has freed
  orphaned                               \* history: a closed chain was left behind

journalVars == <<active, owner_tid, granted_tid, depth, lock, sched_lock>>
chainVars   == <<staged, closed_chain>>
localVars   == <<ops, deferred, no_defer>>
reapVars    == <<victim, reaped>>
ownerVars == <<journalVars, waiters, chainVars, state, sig, place, localVars, reapVars, orphaned>>

\* Positions at which a process owns the transaction, and those of the grant.
Granting == {"grant", "g_active", "g_unlock"}
Owning   == {"acquired", "own0", "own1", "own", "decide", "commit",
             "forward", "forward_commit"} \cup Granting

OwnerInit ==
  /\ active = FALSE /\ owner_tid = None /\ granted_tid = None /\ depth = 0
  /\ lock = FALSE /\ sched_lock = None
  /\ waiters = <<>>
  /\ staged = FALSE /\ closed_chain = FALSE
  /\ state = [t \in Threads |-> "RUNNING"]
  /\ sig = [t \in Threads |-> FALSE]
  /\ place = [p \in Procs |-> "idle"]
  /\ ops = [t \in Threads |-> 0]
  /\ deferred = [t \in Threads |-> FALSE]
  /\ no_defer = [t \in Threads |-> FALSE]
  /\ victim = None /\ reaped = {} /\ orphaned = FALSE

\* No state: only another module of the run moves.
OwnerAbsent ==
  /\ active = None /\ owner_tid = None /\ granted_tid = None /\ depth = None
  /\ lock = None /\ sched_lock = None /\ waiters = None /\ staged = None
  /\ closed_chain = None /\ state = None /\ sig = None /\ place = None
  /\ ops = None /\ deferred = None /\ no_defer = None /\ victim = None
  /\ reaped = None /\ orphaned = None

OwnerPresent == active # None

Places == {"idle", "loop", "take", "try", "park", "regrant", "retry", "recheck", "sleep",
           "interrupted", "g_end", "post", "check", "abort"} \cup Owning

\* The state's types; the nesting depth never goes below zero.
OwnerTypeOK ==
  /\ active \in BOOLEAN /\ lock \in BOOLEAN /\ staged \in BOOLEAN /\ closed_chain \in BOOLEAN
  /\ owner_tid \in Threads \cup {None} /\ granted_tid \in Threads \cup {None}
  /\ depth \in 0..2 /\ sched_lock \in Procs \cup {None}
  /\ waiters \in Seq(Threads)
  /\ state \in [Threads -> {"RUNNING", "BLOCKED", "DEAD"}]
  /\ sig \in [Threads -> BOOLEAN]
  /\ place \in [Procs -> Places]
  /\ ops \in [Threads -> 0..MaxOps]
  /\ deferred \in [Threads -> BOOLEAN] /\ no_defer \in [Threads -> BOOLEAN]
  /\ victim \in Threads \cup {None} /\ reaped \subseteq Threads
  /\ orphaned \in BOOLEAN

-----------------------------------------------------------------------------
(* ext3_journal_start() *)

At(t, l) == place[t] = l /\ state[t] # "DEAD"
Goto(p, l) == place' = [place EXCEPT ![p] = l]

\* The one entry of a thread leaves a queue.
Unlink(s, t) ==
  IF \E i \in DOMAIN s : s[i] = t
  THEN LET i == CHOOSE i \in DOMAIN s : s[i] = t
       IN [j \in 1..(Len(s) - 1) |-> s[IF j < i THEN j ELSE j + 1]]
  ELSE s

Begin(t) ==
  /\ At(t, "idle") /\ ops[t] < MaxOps
  /\ ops' = [ops EXCEPT ![t] = @ + 1]
  /\ no_defer' = [no_defer EXCEPT ![t] = FALSE]
  /\ Goto(t, "loop")
  /\ UNCHANGED <<journalVars, waiters, chainVars, state, sig, deferred, reapVars, orphaned>>

\* ext3_take_grant() at the head of the loop: sched_lock is a raw lock, and
\* interrupts are enabled here.
TakeGrantLock(t) ==
  /\ At(t, "loop") /\ granted_tid = t /\ sched_lock = None
  /\ sched_lock' = t
  /\ Goto(t, "take")
  /\ UNCHANGED <<active, owner_tid, granted_tid, depth, lock, waiters, chainVars, state,
                 sig, localVars, reapVars, orphaned>>

ext3_take_grant(t) ==
  /\ At(t, "take")
  /\ granted_tid' = None
  /\ sched_lock' = None
  /\ Goto(t, "own0")
  /\ UNCHANGED <<active, owner_tid, depth, lock, waiters, chainVars, state, sig,
                 localVars, reapVars, orphaned>>

\* No grant: read active, and only if it is false try the lock ...
ReadActive(t) ==
  /\ At(t, "loop") /\ granted_tid # t
  /\ Goto(t, IF active THEN "park" ELSE "try")
  /\ UNCHANGED <<journalVars, waiters, chainVars, state, sig, localVars, reapVars, orphaned>>

\* Mutant of TryLock: an inactive journal is taken to be a free one.
TrustInactive(t) ==
  /\ At(t, "try")
  /\ lock' = TRUE
  /\ Goto(t, "own0")
  /\ UNCHANGED <<active, owner_tid, granted_tid, depth, sched_lock, waiters, chainVars,
                 state, sig, localVars, reapVars, orphaned>>

TryLock(t) ==
  /\ At(t, "try")
  /\ lock' = TRUE
  /\ Goto(t, IF lock THEN "park" ELSE "own0")
  /\ UNCHANGED <<active, owner_tid, granted_tid, depth, sched_lock, waiters, chainVars,
                 state, sig, localVars, reapVars, orphaned>>

\* ... otherwise, with interrupts masked: BLOCKED, and join the tail.
Park(t) ==
  /\ At(t, "park")
  /\ state' = [state EXCEPT ![t] = "BLOCKED"]
  /\ waiters' = Append(waiters, t)
  /\ Goto(t, "regrant")
  /\ UNCHANGED <<journalVars, chainVars, sig, localVars, reapVars, orphaned>>

\* Recheck the grant and the lock now that the entry is linked.
Regrant(t) ==
  /\ At(t, "regrant")
  /\ \/ /\ granted_tid = t /\ sched_lock = None
        /\ granted_tid' = None
        /\ Goto(t, "acquired")
     \/ /\ granted_tid # t
        /\ Goto(t, IF active THEN "recheck" ELSE "retry")
        /\ UNCHANGED granted_tid
  /\ UNCHANGED <<active, owner_tid, depth, lock, sched_lock, waiters, chainVars, state,
                 sig, localVars, reapVars, orphaned>>

RetryLock(t) ==
  /\ At(t, "retry")
  /\ lock' = TRUE
  /\ Goto(t, IF lock THEN "recheck" ELSE "acquired")
  /\ UNCHANGED <<active, owner_tid, granted_tid, depth, sched_lock, waiters, chainVars,
                 state, sig, localVars, reapVars, orphaned>>

Acquired(t) ==
  /\ At(t, "acquired")
  /\ state' = [state EXCEPT ![t] = "RUNNING"]
  /\ waiters' = Unlink(waiters, t)
  /\ Goto(t, "own0")
  /\ UNCHANGED <<journalVars, chainVars, sig, localVars, reapVars, orphaned>>

\* Never park while active is false.
Recheck(t) ==
  /\ At(t, "recheck")
  /\ IF active
     THEN Goto(t, "sleep") /\ UNCHANGED <<state, waiters>>
     ELSE /\ state' = [state EXCEPT ![t] = "RUNNING"]
          /\ waiters' = Unlink(waiters, t)
          /\ Goto(t, "loop")
  /\ UNCHANGED <<journalVars, chainVars, sig, localVars, reapVars, orphaned>>

\* Woken: leave the queue, then look for a signal.
Woken(t) ==
  /\ At(t, "sleep") /\ state[t] = "RUNNING"
  /\ waiters' = Unlink(waiters, t)
  /\ Goto(t, IF sig[t] THEN "interrupted" ELSE "loop")
  /\ UNCHANGED <<journalVars, chainVars, state, sig, localVars, reapVars, orphaned>>

\* Mutant of Interrupted: return EINTR without looking for a grant.
InterruptedKeepsGrant(t) ==
  /\ At(t, "interrupted") /\ sched_lock = None
  /\ Goto(t, "idle")
  /\ sig' = [sig EXCEPT ![t] = FALSE]
  /\ UNCHANGED <<journalVars, waiters, chainVars, state, localVars, reapVars, orphaned>>

\* A signal: withdraw an unused grant under sched_lock and forward it, or
\* return EINTR.
Interrupted(t) ==
  /\ At(t, "interrupted") /\ sched_lock = None
  /\ IF granted_tid = t
     THEN granted_tid' = None /\ Goto(t, "forward") /\ UNCHANGED sig
     ELSE /\ Goto(t, "idle")
          /\ sig' = [sig EXCEPT ![t] = FALSE]
          /\ UNCHANGED granted_tid
  /\ UNCHANGED <<active, owner_tid, depth, lock, sched_lock, waiters, chainVars, state,
                 localVars, reapVars, orphaned>>

\* ext3_forward_grant(): commit the chain if nobody seems to be waiting.
ext3_forward_grant(t) ==
  /\ At(t, "forward")
  /\ Goto(t, IF closed_chain /\ waiters = <<>> THEN "forward_commit" ELSE "grant")
  /\ UNCHANGED <<journalVars, waiters, chainVars, state, sig, localVars, reapVars, orphaned>>

\* The transaction is t's: publish the owner, then active.
PublishOwner(t) ==
  /\ At(t, "own0")
  /\ owner_tid' = t
  /\ Goto(t, "own1")
  /\ UNCHANGED <<active, granted_tid, depth, lock, sched_lock, waiters, chainVars, state,
                 sig, localVars, reapVars, orphaned>>

ext3_journal_start(t) ==
  /\ At(t, "own1")
  /\ active' = TRUE /\ depth' = 1
  /\ staged' = FALSE
  /\ Goto(t, "own")
  /\ UNCHANGED <<owner_tid, granted_tid, lock, sched_lock, waiters, closed_chain, state, sig,
                 localVars, reapVars, orphaned>>

NestedStart(t) ==
  /\ At(t, "own") /\ active /\ owner_tid = t /\ depth < 2
  /\ depth' = depth + 1
  /\ UNCHANGED <<active, owner_tid, granted_tid, lock, sched_lock, waiters, chainVars,
                 state, sig, place, localVars, reapVars, orphaned>>

-----------------------------------------------------------------------------
(* A handle's writes, and ext3_journal_stop() *)

\* ext3_journal_block() puts an image in the running set.
StageBlock(t) ==
  /\ At(t, "own") /\ active /\ owner_tid = t /\ ~staged /\ ~no_defer[t]
  /\ staged' = TRUE
  /\ UNCHANGED <<journalVars, waiters, closed_chain, state, sig, place, localVars, reapVars, orphaned>>

NestedStop(t) ==
  /\ At(t, "own") /\ active /\ owner_tid = t /\ depth > 1
  /\ depth' = depth - 1
  /\ UNCHANGED <<active, owner_tid, granted_tid, lock, sched_lock, waiters, chainVars,
                 state, sig, place, localVars, reapVars, orphaned>>

\* ext3_merge_running(): the running set joins the closed chain or, after a
\* failure, is discarded; a chain flushed to make room is gone either way.
MergeRunning(t) ==
  /\ At(t, "own") /\ active /\ owner_tid = t /\ depth = 1
  /\ closed_chain' \in {closed_chain \/ staged, closed_chain, closed_chain /\ ~staged}
  /\ staged' = FALSE
  /\ Goto(t, "decide")
  /\ UNCHANGED <<journalVars, waiters, state, sig, localVars, reapVars, orphaned>>

\* ext3_should_defer(): only with a waiter queued, and not when a group limit
\* (handles, age, room in the log) is reached.
ShouldDefer(t) ==
  /\ At(t, "decide")
  /\ \/ /\ closed_chain /\ waiters # <<>> /\ ~no_defer[t]
        /\ deferred' = [deferred EXCEPT ![t] = TRUE]
        /\ Goto(t, "grant")
     \/ /\ closed_chain
        /\ deferred' = [deferred EXCEPT ![t] = FALSE]
        /\ Goto(t, "commit")
     \/ /\ ~closed_chain
        /\ deferred' = [deferred EXCEPT ![t] = FALSE]
        /\ Goto(t, "grant")
  /\ UNCHANGED <<journalVars, waiters, chainVars, state, sig, ops, no_defer, reapVars, orphaned>>

\* ext3_commit_closed(): whatever its result, the closed chain is retired.
CommitChain(t) ==
  /\ At(t, "commit") \/ At(t, "forward_commit")
  /\ closed_chain' = FALSE
  /\ Goto(t, "grant")
  /\ UNCHANGED <<journalVars, waiters, staged, state, sig, localVars, reapVars, orphaned>>

\* wait_queue_handoff() skips the entries of dead threads.
Live(t) == state[t] # "DEAD"

\* Mutant of Receives: hand off to the newest waiter instead of the oldest.
NewestWaiter(w) == Live(w) /\ waiters # <<>> /\ w = waiters[Len(waiters)]

\* The waiter a grant goes to: the oldest live one.
Receives(w) ==
  \E i \in DOMAIN waiters :
    /\ waiters[i] = w /\ Live(w)
    /\ \A j \in 1..(i-1) : ~Live(waiters[j])

\* ext3_grant_next(): under sched_lock, ownership moves to the oldest live
\* waiter; with none the transaction goes idle, step by step.
ext3_grant_next(p) ==
  /\ place[p] = "grant" /\ sched_lock = None
  /\ sched_lock' = p
  /\ depth' = 0 /\ staged' = FALSE
  /\ \/ \E w \in Threads :
          /\ Receives(w)
          /\ owner_tid' = w /\ granted_tid' = w
          /\ waiters' = Unlink(waiters, w)
          /\ state' = [state EXCEPT ![w] = IF @ = "BLOCKED" THEN "RUNNING" ELSE @]
          /\ Goto(p, "g_end")
     \/ /\ ~\E w \in Threads : Receives(w)
        /\ owner_tid' = None
        /\ Goto(p, "g_active")
        /\ UNCHANGED <<granted_tid, waiters, state>>
  /\ UNCHANGED <<active, lock, closed_chain, sig, localVars, reapVars, orphaned>>

\* p is in ext3_journal_stop(), and not forwarding or aborting.
Stopping(p) == p \in Threads /\ (sig[p] => deferred[p])

GoIdle(p) ==
  \/ /\ place[p] = "g_active"
     /\ active' = FALSE
     /\ Goto(p, "g_unlock")
     /\ UNCHANGED <<owner_tid, granted_tid, depth, lock, sched_lock, waiters, chainVars,
                    state, sig, localVars, reapVars, orphaned>>
  \/ /\ place[p] = "g_unlock"
     /\ lock' = FALSE
     /\ Goto(p, "g_end")
     /\ orphaned' = (orphaned \/ (closed_chain /\ ~Stopping(p)))
     /\ UNCHANGED <<active, owner_tid, granted_tid, depth, sched_lock, waiters, chainVars,
                    state, sig, localVars, reapVars>>

\* Release sched_lock.  A forwarding thread then returns EINTR; the reaper is
\* done with its victim; a stopping one looks at the chain again.
GrantEnd(p) ==
  /\ place[p] = "g_end"
  /\ sched_lock' = None
  /\ IF p = Reaper
     THEN /\ Goto(p, "idle") /\ reaped' = reaped \cup {victim} /\ victim' = None
          /\ UNCHANGED sig
     ELSE /\ Goto(p, IF Stopping(p) THEN "post" ELSE "idle")
          /\ sig' = [sig EXCEPT ![p] = @ /\ deferred[p]]
          /\ UNCHANGED reapVars
  /\ UNCHANGED <<active, owner_tid, granted_tid, depth, lock, waiters, chainVars, state,
                 localVars, orphaned>>

\* Mutant of ext3_journal_stop: never look at the chain again.
StopForgetsChain(t) ==
  /\ At(t, "post")
  /\ Goto(t, "idle")
  /\ UNCHANGED <<journalVars, waiters, chainVars, state, sig, localVars, reapVars, orphaned>>

\* The end of ext3_journal_stop(): a deferred chain on an idle journal is
\* closed with an empty handle that must not defer.
ext3_journal_stop(t) ==
  /\ At(t, "post")
  /\ LET again == deferred[t] /\ closed_chain /\ ~active IN
       /\ Goto(t, IF again THEN "loop" ELSE "idle")
       /\ no_defer' = [no_defer EXCEPT ![t] = again]
       /\ sig' = [sig EXCEPT ![t] = @ /\ again]
  /\ deferred' = [deferred EXCEPT ![t] = FALSE]
  /\ UNCHANGED <<journalVars, waiters, chainVars, state, ops, reapVars, orphaned>>

-----------------------------------------------------------------------------
(* Signals, deadlines, kills and the reaper *)

\* A signal becomes pending and wakes a sleeping waiter.
Signal(t) ==
  /\ place[t] \in {"recheck", "sleep"} /\ Live(t) /\ ~sig[t]
  /\ sig' = [sig EXCEPT ![t] = TRUE]
  /\ state' = [state EXCEPT ![t] = IF @ = "BLOCKED" THEN "RUNNING" ELSE @]
  /\ UNCHANGED <<journalVars, waiters, chainVars, place, localVars, reapVars, orphaned>>

\* The 5 s safety deadline of a sleeping waiter.
Timeout(t) ==
  /\ place[t] = "sleep" /\ state[t] = "BLOCKED"
  /\ state' = [state EXCEPT ![t] = "RUNNING"]
  /\ UNCHANGED <<journalVars, waiters, chainVars, sig, place, localVars, reapVars, orphaned>>

\* Positions at which interrupts are enabled and t may be switched out.
Preemptible == {"loop", "take", "try", "recheck", "sleep", "acquired", "interrupted",
                "forward", "forward_commit", "own0", "own1", "own", "decide", "commit",
                "post"}

\* sched_terminate_thread_group() hits t where it can be switched out.
Kill(t) ==
  /\ Live(t) /\ place[t] \in Preemptible
  /\ Cardinality({u \in Threads : ~Live(u)}) < MaxKills
  /\ state' = [state EXCEPT ![t] = "DEAD"]
  /\ UNCHANGED <<journalVars, waiters, chainVars, sig, place, localVars, reapVars, orphaned>>

\* sched_reap_thread(): wait_queue_cleanup_thread() ...
Reap(t) ==
  /\ place[Reaper] = "idle" /\ ~Live(t) /\ t \notin reaped
  /\ victim' = t
  /\ waiters' = Unlink(waiters, t)
  /\ Goto(Reaper, "check")
  /\ UNCHANGED <<journalVars, chainVars, state, sig, localVars, reaped, orphaned>>

\* ... then ext3_journal_release_owner(): not the owner of an active
\* transaction: nothing to do.
ReleaseCheck ==
  /\ place[Reaper] = "check"
  /\ IF active /\ owner_tid = victim
     THEN Goto(Reaper, "abort") /\ UNCHANGED reapVars
     ELSE Goto(Reaper, "idle") /\ reaped' = reaped \cup {victim} /\ victim' = None
  /\ UNCHANGED <<journalVars, waiters, chainVars, state, sig, localVars, orphaned>>

\* Withdraw a grant the victim never consumed, or abort its transaction: the
\* running set is discarded; either way ownership moves on.
ext3_journal_release_owner ==
  /\ place[Reaper] = "abort" /\ sched_lock = None
  /\ IF granted_tid = victim
     THEN granted_tid' = None /\ Goto(Reaper, "grant") /\ UNCHANGED reapVars
     ELSE /\ IF lock
             THEN Goto(Reaper, "grant") /\ UNCHANGED reapVars
             ELSE Goto(Reaper, "idle") /\ reaped' = reaped \cup {victim} /\ victim' = None
          /\ UNCHANGED granted_tid
  /\ UNCHANGED <<active, owner_tid, depth, lock, sched_lock, waiters, chainVars, state,
                 sig, localVars, orphaned>>

-----------------------------------------------------------------------------
Grant(p) ==
  (p \in Threads => Live(p)) /\ (ext3_grant_next(p) \/ GoIdle(p) \/ GrantEnd(p))

Thread(t) ==
  \/ TakeGrantLock(t) \/ ext3_take_grant(t) \/ ReadActive(t) \/ TryLock(t) \/ Park(t)
  \/ Regrant(t) \/ RetryLock(t) \/ Acquired(t) \/ Recheck(t) \/ Woken(t)
  \/ Interrupted(t) \/ ext3_forward_grant(t) \/ PublishOwner(t) \/ ext3_journal_start(t)
  \/ NestedStop(t) \/ MergeRunning(t) \/ ShouldDefer(t)
  \/ CommitChain(t) \/ ext3_journal_stop(t) \/ Grant(t)

Reaping ==
  \/ \E t \in Threads : Reap(t)
  \/ ReleaseCheck \/ ext3_journal_release_owner \/ Grant(Reaper)

OwnerNext ==
  \/ \E t \in Threads :
       \/ Begin(t) \/ NestedStart(t) \/ StageBlock(t) \/ Thread(t)
       \/ Signal(t) \/ Timeout(t) \/ Kill(t)
  \/ Reaping

OwnerSpec == OwnerInit /\ [][OwnerNext]_ownerVars

-----------------------------------------------------------------------------
(* Properties. *)

\* p owns the transaction: it runs a handle, forwards or hands over one, or
\* was granted the next.
Owns(p) ==
  \/ p \in Threads /\ ((Live(p) /\ place[p] \in Owning) \/ granted_tid = p)
  \/ p = Reaper /\ place[p] \in Granting

\* Two processes never own the transaction at once: neither a fresh try-lock
\* nor a grant, a forwarded grant or the reaper's abort overlaps another owner.
OneOwner ==
  OwnerPresent => \A p, q \in Procs : Owns(p) /\ Owns(q) => p = q

\* Killed with the raw sched_lock, or with the lock of a journal that is not
\* active yet: ext3_journal_release_owner() cannot help.
Unrecognised(t) ==
  ~Live(t) /\ (place[t] = "take" \/ (~active /\ place[t] \in {"acquired", "own0", "own1"}))

\* While trans->lock is held somebody will release it: an owner that runs or
\* that the reaper has still to visit, a granted thread that is still in
\* ext3_journal_start(), or the reaper itself.  Only a thread killed in the
\* few Unrecognised positions takes the lock with it.
LockNotStranded ==
  OwnerPresent /\ lock =>
          \/ \E t \in Threads \ reaped : granted_tid = t /\ place[t] # "idle"
          \/ \E t \in Threads \ reaped : place[t] \in Owning
          \/ place[Reaper] \in Granting
          \/ \E t \in Threads : Unrecognised(t)

\* "Whoever releases the lock with no successor commits what is left": when
\* nobody owns or waits for the transaction and no handle is on its way out,
\* no finished handle's images are left uncommitted in the closed chain.
\* Excepted are a grant that was forwarded or aborted into an idle journal,
\* and a deferring thread killed on its way to look again.
NoIdleChain ==
  (OwnerPresent /\ ~lock /\ \A p \in Procs : place[p] = "idle" \/ (p \in Threads /\ ~Live(p)))
    => \/ ~closed_chain \/ orphaned
       \/ \E t \in Threads : ~Live(t) /\ (deferred[t] \/ no_defer[t])

\* No thread that queued behind a live waiter is granted the transaction.
OldestFirst ==
  \A w \in Threads :
    (granted_tid' = w /\ granted_tid # w)
      => \A i, j \in DOMAIN waiters :
           (waiters[j] = w /\ i < j) => ~Live(waiters[i])

\* Grants go to the oldest live waiter: while a waiter sleeps, no thread that
\* queued behind it is granted the transaction.
FirstComeFirstServed == [][OwnerPresent => OldestFirst]_ownerVars

-----------------------------------------------------------------------------
(* The strengthening of OneOwner that every step preserves.  A killed owner   *)
(* still keeps the transaction from the others until the reaper takes it.     *)

Holds(p) ==
  \/ Owns(p)
  \/ /\ p \in Threads \ reaped /\ place[p] \in Owning
     /\ ~(victim = p /\ place[Reaper] \in Granting \cup {"g_end"})

HolderTypes ==
  /\ active \in BOOLEAN /\ lock \in BOOLEAN
  /\ owner_tid \in Threads \cup {None} /\ granted_tid \in Threads \cup {None}
  /\ state \in [Threads -> {"RUNNING", "BLOCKED", "DEAD"}]
  /\ place \in [Procs -> Places]
  /\ victim \in Threads \cup {None} /\ reaped \subseteq Threads

\* One process has the transaction, and has it with the lock taken.
OneHolder ==
  /\ \A p, q \in Procs : Holds(p) /\ Holds(q) => p = q
  /\ \A p \in Procs : Holds(p) => lock

\* A grant stays until its receiver takes it, and the recorded owner is the
\* holder, or the victim whose transaction the reaper is about to hand over.
RecordInv ==
  /\ \A t \in Threads : /\ Live(t) /\ place[t] = "take" => granted_tid = t
                        /\ granted_tid = t => place[t] \notin Owning
  /\ \A t \in Threads \ reaped : owner_tid = t =>
       Holds(t) \/ (victim = t /\ place[Reaper] = "grant")
  /\ \A p \in Procs : place[p] \in {"g_active", "g_unlock"} /\ Holds(p) => owner_tid = None

\* The reaper works for a dead thread, and aborts only a holder.
ReapInv ==
  /\ \A t \in reaped : ~Live(t)
  /\ place[Reaper] # "idle" => victim \in Threads \ reaped /\ ~Live(victim)
  /\ place[Reaper] = "abort" => Holds(victim)

HolderInv == HolderTypes /\ OneHolder /\ RecordInv /\ ReapInv

-----------------------------------------------------------------------------
(* What FirstComeFirstServed, LockNotStranded and NoIdleChain need besides.   *)

\* A thread has at most one entry, and only where it may be parked.
Parked == {"regrant", "retry", "recheck", "sleep", "acquired"}

Distinct(s) == \A i, j \in DOMAIN s : s[i] = s[j] => i = j

WaitersInv ==
  /\ waiters \in Seq(Threads) /\ Distinct(waiters)
  /\ \A i \in DOMAIN waiters : place[waiters[i]] \in Parked

\* Where a thread may find a grant, where a holder has published itself, and
\* where it has not done so yet.
Receiving  == {"regrant", "retry", "recheck", "sleep", "loop", "interrupted", "take"}
Published  == {"own", "decide", "commit", "forward", "forward_commit", "grant"}
Publishing == {"acquired", "own0", "own1"}

\* The record is right from the moment the reaper may have to go by it, and
\* the lock has a holder unless one was killed before that.
KeptInv ==
  /\ \A t \in Threads : ~Live(t) => place[t] \in Preemptible
  /\ \A t \in Threads : granted_tid = t =>
       /\ active /\ owner_tid = t /\ t \notin reaped
       /\ place[t] \in Receiving
  /\ \A p \in Procs : Holds(p) /\ place[p] \in Published => active /\ (p \in Threads => owner_tid = p)
  /\ \A t \in Threads : Holds(t) /\ place[t] \in Publishing /\ (active \/ place[t] = "own1") =>
       owner_tid = t
  /\ \A p \in Procs : Holds(p) /\ place[p] = "g_unlock" => ~active
  /\ place[Reaper] = "abort" => active /\ owner_tid = victim
  /\ place[Reaper] \in Granting \cup {"g_end"} => granted_tid # victim
  /\ active => lock
  /\ lock => \/ \E p \in Procs : Holds(p)
             \/ ~active /\ \E t \in Threads : ~Live(t) /\ place[t] \in Publishing

\* t will look at the closed chain again, or was killed when it should have.
Looking(t) ==
  \/ ~Live(t) /\ (deferred[t] \/ no_defer[t])
  \/ deferred[t] /\ place[t] \in {"g_end", "post"}
  \/ no_defer[t] /\ place[t] \in {"loop", "try", "park", "regrant", "retry", "recheck"}

ChainTypes ==
  /\ closed_chain \in BOOLEAN /\ orphaned \in BOOLEAN /\ sig \in [Threads -> BOOLEAN]
  /\ deferred \in [Threads -> BOOLEAN] /\ no_defer \in [Threads -> BOOLEAN]

Forwarding == {"interrupted", "forward", "forward_commit"}

\* A forwarding thread has its signal; a stopping one that leaves the chain
\* behind has deferred it; and a chain nobody has left behind for good is
\* under the lock, or somebody will look at it again.
ChainInv ==
  /\ ChainTypes
  /\ \A t \in Threads : place[t] \in Forwarding => sig[t]
  /\ \A t \in Threads : Live(t) /\ place[t] \in Granting /\ closed_chain => deferred[t] \/ sig[t]
  /\ closed_chain /\ ~orphaned => lock \/ \E t \in Threads : Looking(t)

OwnerInv == HolderInv /\ WaitersInv /\ KeptInv /\ ChainInv

=============================================================================
