------------------------------- MODULE FutexPi -------------------------------
(* One priority-inheritance lock: FUTEX_LOCK_PI, FUTEX_TRYLOCK_PI and        *)
(* FUTEX_UNLOCK_PI of syscalls/sys_futex.c, the robust-list handling of      *)
(* syscalls/sys_process_exit.c, and the user's two compare-and-swaps, with   *)
(* which a thread library takes and leaves the lock when nobody waits.       *)
(*                                                                           *)
(* A compare-and-swap loop is one step.  A section under the bucket lock is  *)
(* one step, except the one that parks: it reads the word and the user's     *)
(* compare-and-swap does not take the lock.                                  *)
EXTENDS Naturals, Sequences, Null

CONSTANT Threads

ASSUME NoneIsNoThread == None \notin Threads

VARIABLES
    word,       \* owner TID, FUTEX_WAITERS, FUTEX_OWNER_DIED
    queue,      \* the waiters of the word, in order
    lock,       \* the thread that is about to park under the bucket lock
    thread,     \* where each thread is, its state, whether it was handed the lock
    holds       \* threads to which a lock call has returned 0

piVars == <<word, queue, lock, thread, holds>>

Free == [owner |-> None, waiters |-> FALSE, died |-> FALSE]

PiInit ==
    /\ word = Free
    /\ queue = <<>>
    /\ lock = None
    /\ thread = [t \in Threads |->
                   [pc |-> "user", state |-> "RUNNING", acquired |-> FALSE]]
    /\ holds = {}

At(t, pc) == thread[t].pc = pc /\ thread[t].state = "RUNNING"

Goto(t, pc) == thread' = [thread EXCEPT ![t].pc = pc]

-----------------------------------------------------------------------------
(* The user.                                                                 *)

UserLock(t) ==
    /\ At(t, "user") /\ t \notin holds
    /\ \/ /\ word = Free
          /\ word' = [word EXCEPT !.owner = t]
          /\ holds' = holds \cup {t}
          /\ UNCHANGED thread
       \/ /\ word # Free
          /\ Goto(t, "take")
          /\ UNCHANGED <<word, holds>>
    /\ UNCHANGED <<queue, lock>>

UserUnlock(t) ==
    /\ At(t, "user") /\ t \in holds
    /\ holds' = holds \ {t}
    /\ \/ /\ word = [Free EXCEPT !.owner = t]
          /\ word' = Free
          /\ UNCHANGED thread
       \/ /\ word # [Free EXCEPT !.owner = t]
          /\ Goto(t, "unlock")
          /\ UNCHANGED word
    /\ UNCHANGED <<queue, lock>>

-----------------------------------------------------------------------------
(* futex_pi_lock.                                                            *)

futex_pi_owner_gone(o) == o # None => thread[o].state = "DEAD"

\* The loop that takes a free or an orphaned lock.
PiTake(t) ==
    /\ At(t, "take")
    /\ \/ /\ futex_pi_owner_gone(word.owner)
          /\ word' = [word EXCEPT !.owner = t, !.died = word.owner # None]
          /\ holds' = holds \cup {t}
          /\ Goto(t, "user")
       \/ /\ ~futex_pi_owner_gone(word.owner)
          /\ Goto(t, "mark") \/ Goto(t, "user")     \* trylock, expired timeout
          /\ UNCHANGED <<word, holds>>
    /\ UNCHANGED <<queue, lock>>

PiMark(t) ==
    /\ At(t, "mark")
    /\ word' = [word EXCEPT !.waiters = TRUE]
    /\ Goto(t, "recheck")
    /\ UNCHANGED <<queue, lock, holds>>

PiRecheck(t) ==
    /\ At(t, "recheck")
    /\ lock = None
    /\ \/ /\ futex_pi_owner_gone(word.owner)
          /\ Goto(t, "take")
          /\ UNCHANGED lock
       \/ /\ ~futex_pi_owner_gone(word.owner)
          /\ Goto(t, "enqueue")
          /\ lock' = t
    /\ UNCHANGED <<word, queue, holds>>

PiEnqueue(t) ==
    /\ At(t, "enqueue")
    /\ lock' = None
    /\ \/ /\ queue' = Append(queue, t)
          /\ thread' = [thread EXCEPT ![t].pc = "parked", ![t].state = "BLOCKED"]
       \/ /\ Goto(t, "user")        \* the timeout is over
          /\ UNCHANGED queue
    /\ UNCHANGED <<word, holds>>

\* A deadline, a signal or a wake meant for something else.
Disturb(t) ==
    /\ thread[t].pc = "parked" /\ thread[t].state = "BLOCKED"
    /\ thread' = [thread EXCEPT ![t].state = "RUNNING"]
    /\ UNCHANGED <<word, queue, lock, holds>>

Without(s, t) == SelectSeq(s, LAMBDA u : u # t)

\* Back from the scheduler: handed the lock, interrupted, or once more.
PiBack(t) ==
    /\ At(t, "parked")
    /\ lock = None
    /\ queue' = Without(queue, t)
    /\ \/ /\ thread[t].acquired
          /\ thread' = [thread EXCEPT ![t].pc = "user", ![t].acquired = FALSE]
          /\ holds' = holds \cup {t}
       \/ /\ ~thread[t].acquired
          /\ Goto(t, "user") \/ Goto(t, "take")
          /\ UNCHANGED holds
    /\ UNCHANGED <<word, lock>>

-----------------------------------------------------------------------------
(* futex_pi_unlock.                                                          *)

Parked(s) == \E i \in DOMAIN s : thread[s[i]].state = "BLOCKED"

\* Mutant of HandedTo: the word is cleared and the waiter is left to take it.
HandedClear(t) == Free

\* The word after the lock went to t, with the mark if others stay parked.
HandedTo(t) ==
    [owner |-> t, waiters |-> Parked(Without(queue, t)), died |-> FALSE]

FirstParked(t) ==
    \E i \in DOMAIN queue :
        /\ queue[i] = t /\ thread[t].state = "BLOCKED"
        /\ \A j \in 1..(i - 1) : thread[queue[j]].state # "BLOCKED"

\* No thread is parked: the word is cleared.
PiUnlockFree(t) ==
    /\ At(t, "unlock")
    /\ lock = None
    /\ ~Parked(queue)
    /\ word' = Free
    /\ Goto(t, "user")
    /\ UNCHANGED <<queue, lock, holds>>

\* The first parked waiter gets the lock.
PiHandOver(t, next) ==
    /\ At(t, "unlock")
    /\ lock = None
    /\ FirstParked(next)
    /\ word' = HandedTo(next)
    /\ queue' = Without(queue, next)
    /\ thread' = [thread EXCEPT ![t].pc = "user",
                                ![next].acquired = TRUE,
                                ![next].state = "RUNNING"]
    /\ UNCHANGED <<lock, holds>>

-----------------------------------------------------------------------------
(* Deaths.                                                                   *)

\* process_do_exit: a lock on the robust list is marked and given up first.
Exit(t) ==
    /\ At(t, "user")
    /\ holds' = holds \ {t}
    /\ \/ /\ word.owner = t
          /\ word' = [word EXCEPT !.owner = None, !.died = TRUE]
          /\ Goto(t, "dying")
       \/ /\ thread' = [thread EXCEPT ![t].state = "DEAD"]
          /\ UNCHANGED word
    /\ UNCHANGED <<queue, lock>>

\* futex_wake_user of one waiter, whoever is first.
ExitWake(t) ==
    /\ At(t, "dying")
    /\ lock = None
    /\ queue' = IF queue = <<>> THEN queue ELSE Tail(queue)
    /\ thread' = [u \in Threads |->
                    IF u = t THEN [thread[u] EXCEPT !.state = "DEAD"]
                    ELSE IF /\ queue # <<>> /\ u = Head(queue)
                            /\ thread[u].state = "BLOCKED"
                         THEN [thread[u] EXCEPT !.state = "RUNNING"]
                         ELSE thread[u]]
    /\ UNCHANGED <<word, lock, holds>>

\* exit_group ends a thread where it is, but never under the bucket lock; the
\* reaper unlinks it.
Kill(t) ==
    /\ thread[t].state # "DEAD" /\ lock # t
    /\ thread' = [thread EXCEPT ![t].state = "DEAD"]
    /\ holds' = holds \ {t}
    /\ UNCHANGED <<word, queue, lock>>

Reap(t) ==
    /\ thread[t].state = "DEAD"
    /\ \E i \in DOMAIN queue : queue[i] = t
    /\ lock = None
    /\ queue' = Without(queue, t)
    /\ UNCHANGED <<word, lock, thread, holds>>

-----------------------------------------------------------------------------
(* The specification.                                                        *)

PiNext ==
    \E t \in Threads :
        \/ UserLock(t)
        \/ UserUnlock(t)
        \/ PiTake(t)
        \/ PiMark(t)
        \/ PiRecheck(t)
        \/ PiEnqueue(t)
        \/ Disturb(t)
        \/ PiBack(t)
        \/ PiUnlockFree(t)
        \/ \E next \in Threads : PiHandOver(t, next)
        \/ Exit(t)
        \/ ExitWake(t)
        \/ Kill(t)
        \/ Reap(t)

PiSpec == PiInit /\ [][PiNext]_piVars

-----------------------------------------------------------------------------
(* Properties.                                                               *)

\* A thread that lives and was told it has the lock, or that is about to be
\* told so by the thread that handed it over, is the owner in the word; so two
\* threads never have it at once, whatever times out or dies on the way.
PiExclusion ==
    \A t \in Threads :
        thread[t].state # "DEAD" /\ (t \in holds \/ thread[t].acquired) =>
            word.owner = t

PCs == {"user", "take", "mark", "recheck", "enqueue", "parked", "unlock", "dying"}

PiTypeOK ==
    /\ word \in [owner: Threads \cup {None}, waiters: BOOLEAN, died: BOOLEAN]
    /\ thread \in [Threads -> [pc: PCs, state: {"RUNNING", "BLOCKED", "DEAD"},
                              acquired: BOOLEAN]]
    /\ holds \subseteq Threads

\* What makes PiExclusion inductive: who may write the word.  A thread inside
\* futex_pi_unlock still is its owner, a thread that has the lock is outside
\* the kernel, and one that was handed it is no longer parked.
PiInv ==
    /\ PiTypeOK
    /\ PiExclusion
    /\ \A t \in Threads :
         /\ At(t, "unlock") => word.owner = t
         /\ t \in holds => At(t, "user")
         /\ thread[t].acquired /\ thread[t].state # "DEAD" => At(t, "parked")
         /\ thread[t].state = "BLOCKED" => thread[t].pc = "parked"

=============================================================================
