------------------------------ MODULE Spinlock ------------------------------
(***************************************************************************)
(* The kernel's test-and-test-and-set spinlock (lock/spinlock.h), with the *)
(* interrupt masking that is part of it.  Every CPU runs a task and, on    *)
(* top of it, at most one trap handler: a device interrupt, which needs    *)
(* RFLAGS.IF, or an exception, which IF does not mask.  Task and handler   *)
(* use the same locks.                                                     *)
(*                                                                         *)
(* Callers follow two rules the kernel states for its nested locks: a      *)
(* context takes locks in increasing order and releases the last one       *)
(* first.                                                                  *)
(***************************************************************************)
EXTENDS Naturals

CONSTANTS CPUs,     \* the online CPUs
          NLocks    \* number of locks, named by their place in the lock order

ASSUME NLocksAssumption == NLocks \in Nat \ {0}

Locks  == 1 .. NLocks
Levels == {"task", "trap"}

\* Program points of spinlock_acquire, spinlock_try_acquire, spinlock_release.
PCs == {"run", "tas", "retry", "open", "poll", "try", "won", "clear", "restore"}

VARIABLES locked,       \* lock->locked
          saved_flags,  \* lock->saved_flags, its IF bit
          ie,           \* RFLAGS.IF of each CPU
          trapped,      \* a trap handler is running on the CPU
          iret_ie,      \* IF in the frame the trap will return to
          masked,       \* the task is in a hal_irq_save section of its own
          pc, lk, flags,\* per context: program point, lock argument, local flags
          held          \* per context: the locks it holds

vars == <<locked, saved_flags, ie, trapped, iret_ie, masked, pc, lk, flags, held>>

Init ==
  /\ locked = [l \in Locks |-> FALSE]
  /\ saved_flags = [l \in Locks |-> FALSE]
  /\ ie = [c \in CPUs |-> TRUE]
  /\ trapped = [c \in CPUs |-> FALSE]
  /\ iret_ie = [c \in CPUs |-> FALSE]
  /\ masked = [c \in CPUs |-> FALSE]
  /\ pc = [c \in CPUs |-> [k \in Levels |-> "run"]]
  /\ lk = [c \in CPUs |-> [k \in Levels |-> 1]]
  /\ flags = [c \in CPUs |-> [k \in Levels |-> FALSE]]
  /\ held = [c \in CPUs |-> [k \in Levels |-> {}]]

\* The context the CPU is executing.
Running(c, k) == k = (IF trapped[c] THEN "trap" ELSE "task")

\* Context (c, k) is about to execute program point p; it goes on at q.
At(c, k, p) == Running(c, k) /\ pc[c][k] = p
Goto(c, k, q) == pc' = [pc EXCEPT ![c][k] = q]

\* hal_irq_restore: enables interrupts when the saved state had them enabled
\* and never disables them.
hal_irq_restore(c, f) == ie' = [ie EXCEPT ![c] = @ \/ f]

-----------------------------------------------------------------------------
(* spinlock_acquire *)

\* A lock that masks interrupts only after it has been won.
MaskLate(c, k, l) ==
  /\ At(c, k, "run")
  /\ \A h \in held[c][k] : h < l
  /\ flags' = [flags EXCEPT ![c][k] = ie[c]]
  /\ lk' = [lk EXCEPT ![c][k] = l]
  /\ Goto(c, k, "tas")
  /\ UNCHANGED <<locked, saved_flags, ie, trapped, iret_ie, masked, held>>

\* hal_irq_save before the first test-and-set.
AcquireMask(c, k, l) ==
  /\ At(c, k, "run")
  /\ \A h \in held[c][k] : h < l
  /\ flags' = [flags EXCEPT ![c][k] = ie[c]]
  /\ ie' = [ie EXCEPT ![c] = FALSE]
  /\ lk' = [lk EXCEPT ![c][k] = l]
  /\ Goto(c, k, "tas")
  /\ UNCHANGED <<locked, saved_flags, trapped, iret_ie, masked, held>>

\* __atomic_test_and_set found the lock free.
Win(c, k) ==
  /\ ~locked[lk[c][k]]
  /\ locked' = [locked EXCEPT ![lk[c][k]] = TRUE]
  /\ Goto(c, k, "won")
  /\ UNCHANGED ie

\* The uncontended attempt.
TestAndSet(c, k) ==
  /\ At(c, k, "tas")
  /\ \/ /\ locked[lk[c][k]]
        /\ Goto(c, k, "retry")
        /\ UNCHANGED <<locked, ie>>
     \/ Win(c, k)
  /\ UNCHANGED <<saved_flags, trapped, iret_ie, masked, lk, flags, held>>

\* A retry that takes the lock on the strength of the plain load it spun on.
RetryWithoutTest(c, k) ==
  /\ At(c, k, "retry")
  /\ locked' = [locked EXCEPT ![lk[c][k]] = TRUE]
  /\ Goto(c, k, "won")
  /\ UNCHANGED <<saved_flags, ie, trapped, iret_ie, masked, lk, flags, held>>

\* The test-and-set of the contended loop; on failure the waiter opens
\* interrupts if its caller had them enabled, and polls otherwise.
Retry(c, k) ==
  /\ At(c, k, "retry")
  /\ \/ Win(c, k)
     \/ /\ locked[lk[c][k]]
        /\ flags[c][k]
        /\ ie' = [ie EXCEPT ![c] = TRUE]
        /\ Goto(c, k, "open")
        /\ UNCHANGED locked
     \/ /\ locked[lk[c][k]]
        /\ ~flags[c][k]
        /\ Goto(c, k, "poll")
        /\ UNCHANGED <<locked, ie>>
  /\ UNCHANGED <<saved_flags, trapped, iret_ie, masked, lk, flags, held>>

\* The open wait saw the lock free: hal_irq_disable, then retry.
SpinOpen(c, k) ==
  /\ At(c, k, "open")
  /\ ~locked[lk[c][k]]
  /\ ie' = [ie EXCEPT ![c] = FALSE]
  /\ Goto(c, k, "retry")
  /\ UNCHANGED <<locked, saved_flags, trapped, iret_ie, masked, lk, flags, held>>

\* The masked wait saw the lock free (its polls are in TlbShootdown).
SpinPoll(c, k) ==
  /\ At(c, k, "poll")
  /\ ~locked[lk[c][k]]
  /\ Goto(c, k, "retry")
  /\ UNCHANGED <<locked, saved_flags, ie, trapped, iret_ie, masked, lk, flags, held>>

\* lock->saved_flags = flags, and the acquire returns.
StoreFlags(c, k) ==
  /\ At(c, k, "won")
  /\ saved_flags' = [saved_flags EXCEPT ![lk[c][k]] = flags[c][k]]
  /\ held' = [held EXCEPT ![c][k] = @ \cup {lk[c][k]}]
  /\ Goto(c, k, "run")
  /\ UNCHANGED <<locked, ie, trapped, iret_ie, masked, lk, flags>>

-----------------------------------------------------------------------------
(* spinlock_try_acquire *)

TryMask(c, k, l) ==
  /\ At(c, k, "run")
  /\ \A h \in held[c][k] : h < l
  /\ flags' = [flags EXCEPT ![c][k] = ie[c]]
  /\ ie' = [ie EXCEPT ![c] = FALSE]
  /\ lk' = [lk EXCEPT ![c][k] = l]
  /\ Goto(c, k, "try")
  /\ UNCHANGED <<locked, saved_flags, trapped, iret_ie, masked, held>>

\* A failed attempt that leaves interrupts masked.
TryForgetsRestore(c, k) ==
  /\ At(c, k, "try")
  /\ \/ /\ locked[lk[c][k]]
        /\ Goto(c, k, "run")
        /\ UNCHANGED <<ie, locked>>
     \/ Win(c, k)
  /\ UNCHANGED <<saved_flags, trapped, iret_ie, masked, lk, flags, held>>

TryTestAndSet(c, k) ==
  /\ At(c, k, "try")
  /\ \/ /\ locked[lk[c][k]]
        /\ hal_irq_restore(c, flags[c][k])
        /\ Goto(c, k, "run")
        /\ UNCHANGED locked
     \/ Win(c, k)
  /\ UNCHANGED <<saved_flags, trapped, iret_ie, masked, lk, flags, held>>

-----------------------------------------------------------------------------
(* spinlock_release, of the lock taken last *)

ReleaseRead(c, k, l) ==
  /\ At(c, k, "run")
  /\ l \in held[c][k]
  /\ \A h \in held[c][k] : h <= l
  /\ flags' = [flags EXCEPT ![c][k] = saved_flags[l]]
  /\ lk' = [lk EXCEPT ![c][k] = l]
  /\ Goto(c, k, "clear")
  /\ UNCHANGED <<locked, saved_flags, ie, trapped, iret_ie, masked, held>>

ReleaseClear(c, k) ==
  /\ At(c, k, "clear")
  /\ locked' = [locked EXCEPT ![lk[c][k]] = FALSE]
  /\ held' = [held EXCEPT ![c][k] = @ \ {lk[c][k]}]
  /\ Goto(c, k, "restore")
  /\ UNCHANGED <<saved_flags, ie, trapped, iret_ie, masked, lk, flags>>

ReleaseRestore(c, k) ==
  /\ At(c, k, "restore")
  /\ hal_irq_restore(c, flags[c][k])
  /\ Goto(c, k, "run")
  /\ UNCHANGED <<locked, saved_flags, trapped, iret_ie, masked, lk, flags, held>>

-----------------------------------------------------------------------------
(* What the rest of the kernel does around the locks *)

\* A task brackets code of its own with hal_irq_save ... hal_irq_restore.
TaskIrqSave(c) ==
  /\ At(c, "task", "run")
  /\ held[c]["task"] = {} /\ ~masked[c]
  /\ masked' = [masked EXCEPT ![c] = TRUE]
  /\ ie' = [ie EXCEPT ![c] = FALSE]
  /\ UNCHANGED <<locked, saved_flags, trapped, iret_ie, pc, lk, flags, held>>

TaskIrqRestore(c) ==
  /\ At(c, "task", "run")
  /\ held[c]["task"] = {} /\ masked[c]
  /\ masked' = [masked EXCEPT ![c] = FALSE]
  /\ hal_irq_restore(c, TRUE)
  /\ UNCHANGED <<locked, saved_flags, trapped, iret_ie, pc, lk, flags, held>>

\* A device interrupt: taken when IF is set, its gate clears IF.
Interrupt(c) ==
  /\ ie[c] /\ ~trapped[c]
  /\ trapped' = [trapped EXCEPT ![c] = TRUE]
  /\ iret_ie' = [iret_ie EXCEPT ![c] = TRUE]
  /\ ie' = [ie EXCEPT ![c] = FALSE]
  /\ UNCHANGED <<locked, saved_flags, masked, pc, lk, flags, held>>

\* A page fault of code that holds no lock: IF does not mask it.
Exception(c) ==
  /\ At(c, "task", "run")
  /\ held[c]["task"] = {}
  /\ trapped' = [trapped EXCEPT ![c] = TRUE]
  /\ iret_ie' = [iret_ie EXCEPT ![c] = ie[c]]
  /\ ie' = [ie EXCEPT ![c] = FALSE]
  /\ UNCHANGED <<locked, saved_flags, masked, pc, lk, flags, held>>

\* The handler returns: iretq reloads the interrupted IF.
Iret(c) ==
  /\ At(c, "trap", "run")
  /\ held[c]["trap"] = {}
  /\ trapped' = [trapped EXCEPT ![c] = FALSE]
  /\ ie' = [ie EXCEPT ![c] = iret_ie[c]]
  /\ UNCHANGED <<locked, saved_flags, iret_ie, masked, pc, lk, flags, held>>

\* The steps a context takes once it is inside a lock operation.
Continue(c, k) ==
  \/ TestAndSet(c, k) \/ Retry(c, k) \/ SpinOpen(c, k) \/ SpinPoll(c, k)
  \/ StoreFlags(c, k) \/ TryTestAndSet(c, k)
  \/ ReleaseClear(c, k) \/ ReleaseRestore(c, k)

Release(c, k) == \E l \in Locks : ReleaseRead(c, k, l)

Next ==
  \E c \in CPUs :
    \/ \E k \in Levels :
         \/ \E l \in Locks : AcquireMask(c, k, l) \/ TryMask(c, k, l)
         \/ Continue(c, k)
         \/ Release(c, k)
    \/ TaskIrqSave(c) \/ TaskIrqRestore(c)
    \/ Interrupt(c) \/ Exception(c) \/ Iret(c)

Spec == Init /\ [][Next]_vars

\* A CPU keeps executing, and a critical section ends.
Fairness ==
  \A c \in CPUs : \A k \in Levels :
    WF_vars(Continue(c, k)) /\ WF_vars(Release(c, k))

FairSpec == Spec /\ Fairness

-----------------------------------------------------------------------------
(* Properties *)

TypeOK ==
  /\ locked \in [Locks -> BOOLEAN]
  /\ saved_flags \in [Locks -> BOOLEAN]
  /\ ie \in [CPUs -> BOOLEAN]
  /\ trapped \in [CPUs -> BOOLEAN]
  /\ iret_ie \in [CPUs -> BOOLEAN]
  /\ masked \in [CPUs -> BOOLEAN]
  /\ pc \in [CPUs -> [Levels -> PCs]]
  /\ lk \in [CPUs -> [Levels -> Locks]]
  /\ flags \in [CPUs -> [Levels -> BOOLEAN]]
  /\ held \in [CPUs -> [Levels -> SUBSET Locks]]

\* Context (c, k) has won l and has not yet cleared lock->locked.
Owns(c, k, l) == l \in held[c][k] \/ (pc[c][k] = "won" /\ lk[c][k] = l)

Waits(c, k, l) == pc[c][k] \in {"retry", "open", "poll"} /\ lk[c][k] = l

\* spinlock.h, spinlock_acquire: a lock has at most one owner, over all CPUs
\* and over a task and the handler that interrupted it.
MutualExclusion ==
  \A l \in Locks : \A c, d \in CPUs : \A j, k \in Levels :
    Owns(c, j, l) /\ Owns(d, k, l) => c = d /\ j = k

\* spinlock.h: "A holder always runs with interrupts disabled", from the
\* test-and-set that wins until locked is cleared, whatever order nested
\* locks restore their saved flags in.
HolderMasked ==
  \A c \in CPUs : \A k \in Levels : \A l \in Locks : Owns(c, k, l) => ~ie[c]

\* spinlock.h: masking first closes the window in which a handler spins on a
\* lock owned by the very task it interrupted.
NoSelfDeadlock ==
  \A c \in CPUs : \A l \in Locks : ~(Waits(c, "trap", l) /\ Owns(c, "task", l))

\* A balanced sequence of lock operations leaves IF as it found it: set in a
\* task outside its own masked sections, clear in a handler.
IrqStateRestored ==
  \A c \in CPUs : \A k \in Levels :
    At(c, k, "run") /\ held[c][k] = {} => ie[c] = (k = "task" /\ ~masked[c])

\* While some lock is owned, some lock is eventually released: no cycle of
\* CPUs, tasks and handlers waits for itself.
LockProgress ==
  (\E l \in Locks : locked[l]) ~>
    (\E c \in CPUs : \E k \in Levels : pc[c][k] = "restore")

-----------------------------------------------------------------------------
(* The inductive invariant behind the safety properties *)

\* Interrupts are enabled in (c, k) outside all of its locks.
Base(c, k) == k = "task" /\ ~masked[c]

\* Flags kept by a context: only its outermost lock may hold an enabled IF.
ContextInv(c, k) ==
  /\ pc[c][k] \in {"tas", "retry", "open", "poll", "try", "won"} =>
       /\ \A h \in held[c][k] : h < lk[c][k]
       /\ flags[c][k] <=> (Base(c, k) /\ held[c][k] = {})
  /\ pc[c][k] = "clear" =>
       /\ lk[c][k] \in held[c][k]
       /\ \A h \in held[c][k] : h <= lk[c][k]
       /\ flags[c][k] <=> saved_flags[lk[c][k]]
  /\ pc[c][k] = "restore" => flags[c][k] <=> (Base(c, k) /\ held[c][k] = {})
  /\ pc[c][k] = "open" => flags[c][k]
  /\ \A l \in held[c][k] :
       saved_flags[l] <=> (Base(c, k) /\ \A h \in held[c][k] : l <= h)

\* IF of a CPU, as a function of what its running context is doing.
CpuInv(c) ==
  /\ ~trapped[c] =>
       /\ pc[c]["trap"] = "run" /\ held[c]["trap"] = {}
       /\ ie[c] <=> \/ pc[c]["task"] = "open"
                    \/ pc[c]["task"] = "run" /\ held[c]["task"] = {} /\ ~masked[c]
  /\ trapped[c] =>
       /\ pc[c]["task"] \in {"run", "open"} /\ held[c]["task"] = {}
       /\ iret_ie[c] <=> ~masked[c]
       /\ ~ie[c]

OwnedIsLocked ==
  \A c \in CPUs : \A k \in Levels : \A l \in Locks : Owns(c, k, l) => locked[l]

IInv ==
  /\ TypeOK
  /\ OwnedIsLocked
  /\ MutualExclusion
  /\ \A c \in CPUs : CpuInv(c)
  /\ \A c \in CPUs : \A k \in Levels : ContextInv(c, k)
=============================================================================
