--------------------------- MODULE LockingProofs ---------------------------
(* Proofs about Spinlock and Futex, which share no state: a lock, and what a *)
(* thread that sleeps for one is owed.                                       *)
EXTENDS Spinlock, Futex, TLAPS

-----------------------------------------------------------------------------
(* Spinlock, for every set of CPUs and every number of locks.  IInv is the   *)
(* inductive invariant: it ties RFLAGS.IF and every saved copy of it to the  *)
(* locks a context holds, so that a lock other than the outermost one never  *)
(* restores an enabled IF.                                                   *)

USE DEF Levels

\* The test-and-set that wins, common to the three places that execute it.
LEMMA WinStep ==
  ASSUME IInv, NEW c \in CPUs, NEW k \in Levels, Running(c, k),
         pc[c][k] \in {"tas", "retry", "try"}, Win(c, k),
         UNCHANGED <<saved_flags, trapped, iret_ie, masked, lk, flags, held>>
  PROVE  IInv'
<1> USE DEF IInv
<1>1. TypeOK'
  BY DEF Win, TypeOK, PCs, At, Running, Goto, hal_irq_restore
<1>2. OwnedIsLocked'
  BY DEF Win, TypeOK, PCs, At, Running, Goto, hal_irq_restore, OwnedIsLocked, MutualExclusion, Owns, ContextInv
<1>3. MutualExclusion'
  BY DEF Win, TypeOK, PCs, At, Running, Goto, hal_irq_restore, OwnedIsLocked, MutualExclusion, Owns
<1>4. ASSUME NEW d \in CPUs PROVE CpuInv(d)'
  BY DEF Win, TypeOK, PCs, At, Running, Goto, hal_irq_restore, CpuInv, ContextInv, Base
<1>5. ASSUME NEW d \in CPUs, NEW j \in Levels PROVE ContextInv(d, j)'
  BY DEF Win, TypeOK, PCs, At, Running, Goto, hal_irq_restore, ContextInv, CpuInv, Base, MutualExclusion, Owns
<1>6. QED
  BY <1>1, <1>2, <1>3, <1>4, <1>5

\* A failed test-and-set that goes on waiting with IF unchanged.
LEMMA WaitStep ==
  ASSUME IInv, NEW c \in CPUs, NEW k \in Levels, Running(c, k),
         pc[c][k] \in {"tas", "retry"}, NEW q \in {"retry", "poll"},
         Goto(c, k, q),
         UNCHANGED <<locked, saved_flags, ie, trapped, iret_ie, masked, lk, flags, held>>
  PROVE  IInv'
<1> USE DEF IInv
<1>1. TypeOK'
  BY DEF TypeOK, PCs, At, Running, Goto, hal_irq_restore
<1>2. OwnedIsLocked'
  BY DEF TypeOK, PCs, At, Running, Goto, hal_irq_restore, OwnedIsLocked, MutualExclusion, Owns, ContextInv
<1>3. MutualExclusion'
  BY DEF TypeOK, PCs, At, Running, Goto, hal_irq_restore, OwnedIsLocked, MutualExclusion, Owns
<1>4. ASSUME NEW d \in CPUs PROVE CpuInv(d)'
  BY DEF TypeOK, PCs, At, Running, Goto, hal_irq_restore, CpuInv, ContextInv, Base
<1>5. ASSUME NEW d \in CPUs, NEW j \in Levels PROVE ContextInv(d, j)'
  BY DEF TypeOK, PCs, At, Running, Goto, hal_irq_restore, ContextInv, CpuInv, Base, MutualExclusion, Owns
<1>6. QED
  BY <1>1, <1>2, <1>3, <1>4, <1>5

LEMMA TestAndSetStep ==
  ASSUME IInv, NEW c \in CPUs, NEW k \in Levels, TestAndSet(c, k)
  PROVE  IInv'
<1>1. CASE Win(c, k)
  BY <1>1, WinStep DEF TestAndSet, At
<1>2. CASE ~Win(c, k)
  <2>1. /\ Running(c, k) /\ pc[c][k] = "tas" /\ Goto(c, k, "retry")
        /\ UNCHANGED <<locked, saved_flags, ie, trapped, iret_ie, masked, lk, flags, held>>
    BY <1>2 DEF TestAndSet, At
  <2>2. QED
    BY <2>1, WaitStep
<1>3. QED
  BY <1>1, <1>2

\* The failed retry of a caller that had interrupts enabled.
LEMMA OpenStep ==
  ASSUME IInv, NEW c \in CPUs, NEW k \in Levels, At(c, k, "retry"), flags[c][k],
         ie' = [ie EXCEPT ![c] = TRUE], Goto(c, k, "open"),
         UNCHANGED <<locked, saved_flags, trapped, iret_ie, masked, lk, flags, held>>
  PROVE  IInv'
<1> USE DEF IInv
<1>1. TypeOK'
  BY DEF TypeOK, PCs, At, Running, Goto, hal_irq_restore
<1>2. OwnedIsLocked'
  BY DEF TypeOK, PCs, At, Running, Goto, hal_irq_restore, OwnedIsLocked, MutualExclusion, Owns, ContextInv
<1>3. MutualExclusion'
  BY DEF TypeOK, PCs, At, Running, Goto, hal_irq_restore, OwnedIsLocked, MutualExclusion, Owns
<1>4. ASSUME NEW d \in CPUs PROVE CpuInv(d)'
  BY DEF TypeOK, PCs, At, Running, Goto, hal_irq_restore, CpuInv, ContextInv, Base
<1>5. ASSUME NEW d \in CPUs, NEW j \in Levels PROVE ContextInv(d, j)'
  BY DEF TypeOK, PCs, At, Running, Goto, hal_irq_restore, ContextInv, CpuInv, Base, MutualExclusion, Owns
<1>6. QED
  BY <1>1, <1>2, <1>3, <1>4, <1>5

LEMMA RetryStep ==
  ASSUME IInv, NEW c \in CPUs, NEW k \in Levels, Retry(c, k)
  PROVE  IInv'
<1>1. CASE Win(c, k)
  BY <1>1, WinStep DEF Retry, At
<1>2. CASE ~Win(c, k) /\ flags[c][k]
  BY <1>2, OpenStep DEF Retry
<1>3. CASE ~Win(c, k) /\ ~flags[c][k]
  <2>1. /\ Running(c, k) /\ pc[c][k] = "retry" /\ Goto(c, k, "poll")
        /\ UNCHANGED <<locked, saved_flags, ie, trapped, iret_ie, masked, lk, flags, held>>
    BY <1>3 DEF Retry, At
  <2>2. QED
    BY <2>1, WaitStep
<1>4. QED
  BY <1>1, <1>2, <1>3

\* The failed try restores IF and gives up.
LEMMA TryFailStep ==
  ASSUME IInv, NEW c \in CPUs, NEW k \in Levels, At(c, k, "try"),
         hal_irq_restore(c, flags[c][k]), Goto(c, k, "run"),
         UNCHANGED <<locked, saved_flags, trapped, iret_ie, masked, lk, flags, held>>
  PROVE  IInv'
<1> USE DEF IInv
<1>1. TypeOK'
  BY DEF TypeOK, PCs, At, Running, Goto, hal_irq_restore
<1>2. OwnedIsLocked'
  BY DEF TypeOK, PCs, At, Running, Goto, hal_irq_restore, OwnedIsLocked, MutualExclusion, Owns, ContextInv
<1>3. MutualExclusion'
  BY DEF TypeOK, PCs, At, Running, Goto, hal_irq_restore, OwnedIsLocked, MutualExclusion, Owns
<1>4. ASSUME NEW d \in CPUs PROVE CpuInv(d)'
  BY DEF TypeOK, PCs, At, Running, Goto, hal_irq_restore, CpuInv, ContextInv, Base
<1>5. ASSUME NEW d \in CPUs, NEW j \in Levels PROVE ContextInv(d, j)'
  BY DEF TypeOK, PCs, At, Running, Goto, hal_irq_restore, ContextInv, CpuInv, Base, MutualExclusion, Owns
<1>6. QED
  BY <1>1, <1>2, <1>3, <1>4, <1>5

LEMMA TryTestAndSetStep ==
  ASSUME IInv, NEW c \in CPUs, NEW k \in Levels, TryTestAndSet(c, k)
  PROVE  IInv'
<1>1. CASE Win(c, k)
  BY <1>1, WinStep DEF TryTestAndSet, At
<1>2. CASE ~Win(c, k)
  BY <1>2, TryFailStep DEF TryTestAndSet
<1>3. QED
  BY <1>1, <1>2

LEMMA AcquireMaskStep ==
  ASSUME IInv, NEW c \in CPUs, NEW k \in Levels, NEW l \in Locks, AcquireMask(c, k, l)
  PROVE  IInv'
<1> USE DEF IInv
<1>1. TypeOK'
  BY DEF AcquireMask, TypeOK, PCs, At, Running, Goto, hal_irq_restore
<1>2. OwnedIsLocked'
  BY DEF AcquireMask, TypeOK, PCs, At, Running, Goto, hal_irq_restore, OwnedIsLocked, MutualExclusion, Owns, ContextInv
<1>3. MutualExclusion'
  BY DEF AcquireMask, TypeOK, PCs, At, Running, Goto, hal_irq_restore, OwnedIsLocked, MutualExclusion, Owns
<1>4. ASSUME NEW d \in CPUs PROVE CpuInv(d)'
  BY DEF AcquireMask, TypeOK, PCs, At, Running, Goto, hal_irq_restore, CpuInv, ContextInv, Base
<1>5. ASSUME NEW d \in CPUs, NEW j \in Levels PROVE ContextInv(d, j)'
  BY DEF AcquireMask, TypeOK, PCs, At, Running, Goto, hal_irq_restore, ContextInv, CpuInv, Base, MutualExclusion, Owns
<1>6. QED
  BY <1>1, <1>2, <1>3, <1>4, <1>5

LEMMA TryMaskStep ==
  ASSUME IInv, NEW c \in CPUs, NEW k \in Levels, NEW l \in Locks, TryMask(c, k, l)
  PROVE  IInv'
<1> USE DEF IInv
<1>1. TypeOK'
  BY DEF TryMask, TypeOK, PCs, At, Running, Goto, hal_irq_restore
<1>2. OwnedIsLocked'
  BY DEF TryMask, TypeOK, PCs, At, Running, Goto, hal_irq_restore, OwnedIsLocked, MutualExclusion, Owns, ContextInv
<1>3. MutualExclusion'
  BY DEF TryMask, TypeOK, PCs, At, Running, Goto, hal_irq_restore, OwnedIsLocked, MutualExclusion, Owns
<1>4. ASSUME NEW d \in CPUs PROVE CpuInv(d)'
  BY DEF TryMask, TypeOK, PCs, At, Running, Goto, hal_irq_restore, CpuInv, ContextInv, Base
<1>5. ASSUME NEW d \in CPUs, NEW j \in Levels PROVE ContextInv(d, j)'
  BY DEF TryMask, TypeOK, PCs, At, Running, Goto, hal_irq_restore, ContextInv, CpuInv, Base, MutualExclusion, Owns
<1>6. QED
  BY <1>1, <1>2, <1>3, <1>4, <1>5

LEMMA SpinOpenStep ==
  ASSUME IInv, NEW c \in CPUs, NEW k \in Levels, SpinOpen(c, k)
  PROVE  IInv'
<1> USE DEF IInv
<1>1. TypeOK'
  BY DEF SpinOpen, TypeOK, PCs, At, Running, Goto, hal_irq_restore
<1>2. OwnedIsLocked'
  BY DEF SpinOpen, TypeOK, PCs, At, Running, Goto, hal_irq_restore, OwnedIsLocked, MutualExclusion, Owns, ContextInv
<1>3. MutualExclusion'
  BY DEF SpinOpen, TypeOK, PCs, At, Running, Goto, hal_irq_restore, OwnedIsLocked, MutualExclusion, Owns
<1>4. ASSUME NEW d \in CPUs PROVE CpuInv(d)'
  BY DEF SpinOpen, TypeOK, PCs, At, Running, Goto, hal_irq_restore, CpuInv, ContextInv, Base
<1>5. ASSUME NEW d \in CPUs, NEW j \in Levels PROVE ContextInv(d, j)'
  BY DEF SpinOpen, TypeOK, PCs, At, Running, Goto, hal_irq_restore, ContextInv, CpuInv, Base, MutualExclusion, Owns
<1>6. QED
  BY <1>1, <1>2, <1>3, <1>4, <1>5

LEMMA SpinPollStep ==
  ASSUME IInv, NEW c \in CPUs, NEW k \in Levels, SpinPoll(c, k)
  PROVE  IInv'
<1> USE DEF IInv
<1>1. TypeOK'
  BY DEF SpinPoll, TypeOK, PCs, At, Running, Goto, hal_irq_restore
<1>2. OwnedIsLocked'
  BY DEF SpinPoll, TypeOK, PCs, At, Running, Goto, hal_irq_restore, OwnedIsLocked, MutualExclusion, Owns, ContextInv
<1>3. MutualExclusion'
  BY DEF SpinPoll, TypeOK, PCs, At, Running, Goto, hal_irq_restore, OwnedIsLocked, MutualExclusion, Owns
<1>4. ASSUME NEW d \in CPUs PROVE CpuInv(d)'
  BY DEF SpinPoll, TypeOK, PCs, At, Running, Goto, hal_irq_restore, CpuInv, ContextInv, Base
<1>5. ASSUME NEW d \in CPUs, NEW j \in Levels PROVE ContextInv(d, j)'
  BY DEF SpinPoll, TypeOK, PCs, At, Running, Goto, hal_irq_restore, ContextInv, CpuInv, Base, MutualExclusion, Owns
<1>6. QED
  BY <1>1, <1>2, <1>3, <1>4, <1>5

LEMMA StoreFlagsStep ==
  ASSUME IInv, NEW c \in CPUs, NEW k \in Levels, StoreFlags(c, k)
  PROVE  IInv'
<1> USE DEF IInv
<1>1. TypeOK'
  BY DEF StoreFlags, TypeOK, PCs, At, Running, Goto, hal_irq_restore
<1>2. OwnedIsLocked'
  BY DEF StoreFlags, TypeOK, PCs, At, Running, Goto, hal_irq_restore, OwnedIsLocked, MutualExclusion, Owns, ContextInv
<1>3. MutualExclusion'
  BY DEF StoreFlags, TypeOK, PCs, At, Running, Goto, hal_irq_restore, OwnedIsLocked, MutualExclusion, Owns
<1>a. lk[c][k] \in Locks /\ held'[c][k] = held[c][k] \cup {lk[c][k]} /\ pc'[c][k] = "run"
  BY DEF StoreFlags, TypeOK, Goto
<1>4. ASSUME NEW d \in CPUs PROVE CpuInv(d)'
  <2>1. CASE d # c
    BY <2>1 DEF StoreFlags, TypeOK, Goto, CpuInv
  <2>2. CASE d = c
    <3>1. ~ie[c] /\ held'[c][k] # {}
      BY <1>a, Zenon DEF StoreFlags, At, Running, TypeOK, CpuInv
    <3>2. QED
      BY <2>2, <3>1 DEF StoreFlags, TypeOK, PCs, At, Running, Goto, CpuInv
  <2>3. QED
    BY <2>1, <2>2
<1>5. ASSUME NEW d \in CPUs, NEW j \in Levels PROVE ContextInv(d, j)'
  <2>1. CASE d # c \/ j # k
    <3>1. /\ pc'[d][j] = pc[d][j] /\ held'[d][j] = held[d][j]
          /\ lk'[d][j] = lk[d][j] /\ flags'[d][j] = flags[d][j]
      BY <2>1 DEF StoreFlags, TypeOK, Goto
    <3>2. \A h \in held[d][j] : h # lk[c][k] /\ saved_flags'[h] = saved_flags[h]
      BY <2>1 DEF StoreFlags, At, TypeOK, MutualExclusion, Owns
    <3>3. QED
      BY <3>1, <3>2 DEF StoreFlags, ContextInv, Base
  <2>2. CASE d = c /\ j = k
    <3>1. \A h \in held[c][k] : h \in Nat /\ h < lk[c][k]
      BY DEF StoreFlags, At, TypeOK, ContextInv, Locks
    <3>2. /\ saved_flags'[lk[c][k]] <=> (Base(c, k) /\ held[c][k] = {})
          /\ \A h \in held[c][k] : saved_flags'[h] = saved_flags[h]
      BY <3>1 DEF StoreFlags, At, TypeOK, ContextInv, Locks
    <3>3. \A h \in held[c][k] : saved_flags[h] <=>
             (Base(c, k) /\ \A g \in held[c][k] : h <= g)
      BY DEF ContextInv
    <3>4. \A h \in held'[c][k] : saved_flags'[h] <=>
             (Base(c, k) /\ \A g \in held'[c][k] : h <= g)
      BY <1>a, <3>1, <3>2, <3>3 DEF Locks
    <3>5. QED
      BY <1>a, <2>2, <3>4 DEF StoreFlags, ContextInv, Base
  <2>3. QED
    BY <2>1, <2>2
<1>6. QED
  BY <1>1, <1>2, <1>3, <1>4, <1>5

LEMMA ReleaseReadStep ==
  ASSUME IInv, NEW c \in CPUs, NEW k \in Levels, NEW l \in Locks, ReleaseRead(c, k, l)
  PROVE  IInv'
<1> USE DEF IInv
<1>1. TypeOK'
  BY DEF ReleaseRead, TypeOK, PCs, At, Running, Goto, hal_irq_restore
<1>2. OwnedIsLocked'
  BY DEF ReleaseRead, TypeOK, PCs, At, Running, Goto, hal_irq_restore, OwnedIsLocked, MutualExclusion, Owns, ContextInv
<1>3. MutualExclusion'
  BY DEF ReleaseRead, TypeOK, PCs, At, Running, Goto, hal_irq_restore, OwnedIsLocked, MutualExclusion, Owns
<1>4. ASSUME NEW d \in CPUs PROVE CpuInv(d)'
  BY DEF ReleaseRead, TypeOK, PCs, At, Running, Goto, hal_irq_restore, CpuInv, ContextInv, Base
<1>5. ASSUME NEW d \in CPUs, NEW j \in Levels PROVE ContextInv(d, j)'
  BY DEF ReleaseRead, TypeOK, PCs, At, Running, Goto, hal_irq_restore, ContextInv, CpuInv, Base, MutualExclusion, Owns
<1>6. QED
  BY <1>1, <1>2, <1>3, <1>4, <1>5

LEMMA ReleaseClearStep ==
  ASSUME IInv, NEW c \in CPUs, NEW k \in Levels, ReleaseClear(c, k)
  PROVE  IInv'
<1> USE DEF IInv
<1>1. TypeOK'
  BY DEF ReleaseClear, TypeOK, PCs, At, Running, Goto, hal_irq_restore
<1>2. OwnedIsLocked'
  BY DEF ReleaseClear, TypeOK, PCs, At, Running, Goto, hal_irq_restore, OwnedIsLocked, MutualExclusion, Owns, ContextInv
<1>3. MutualExclusion'
  BY DEF ReleaseClear, TypeOK, PCs, At, Running, Goto, hal_irq_restore, OwnedIsLocked, MutualExclusion, Owns
<1>4. ASSUME NEW d \in CPUs PROVE CpuInv(d)'
  BY DEF ReleaseClear, TypeOK, PCs, At, Running, Goto, hal_irq_restore, CpuInv, ContextInv, Base
<1>a. /\ lk[c][k] \in Locks /\ held'[c][k] = held[c][k] \ {lk[c][k]}
      /\ pc'[c][k] = "restore" /\ flags'[c][k] = flags[c][k]
  BY DEF ReleaseClear, TypeOK, Goto
<1>5. ASSUME NEW d \in CPUs, NEW j \in Levels PROVE ContextInv(d, j)'
  <2>1. CASE d # c \/ j # k
    <3>1. /\ pc'[d][j] = pc[d][j] /\ held'[d][j] = held[d][j]
          /\ lk'[d][j] = lk[d][j] /\ flags'[d][j] = flags[d][j]
      BY <2>1 DEF ReleaseClear, TypeOK, Goto
    <3>2. QED
      BY <3>1 DEF ReleaseClear, ContextInv, Base
  <2>2. CASE d = c /\ j = k
    <3>1. /\ lk[c][k] \in held[c][k]
          /\ \A h \in held[c][k] : h \in Nat /\ h <= lk[c][k]
          /\ flags[c][k] <=> saved_flags[lk[c][k]]
          /\ \A h \in held[c][k] : saved_flags[h] <=>
               (Base(c, k) /\ \A g \in held[c][k] : h <= g)
      BY DEF ReleaseClear, At, TypeOK, ContextInv, Locks
    <3>2. \A h \in held'[c][k] : saved_flags[h] <=>
             (Base(c, k) /\ \A g \in held'[c][k] : h <= g)
      BY <1>a, <3>1
    <3>3. flags[c][k] <=> (Base(c, k) /\ held'[c][k] = {})
      BY <1>a, <3>1
    <3>4. QED
      BY <1>a, <2>2, <3>2, <3>3 DEF ReleaseClear, ContextInv, Base
  <2>3. QED
    BY <2>1, <2>2
<1>6. QED
  BY <1>1, <1>2, <1>3, <1>4, <1>5

LEMMA ReleaseRestoreStep ==
  ASSUME IInv, NEW c \in CPUs, NEW k \in Levels, ReleaseRestore(c, k)
  PROVE  IInv'
<1> USE DEF IInv
<1>1. TypeOK'
  BY DEF ReleaseRestore, TypeOK, PCs, At, Running, Goto, hal_irq_restore
<1>2. OwnedIsLocked'
  BY DEF ReleaseRestore, TypeOK, PCs, At, Running, Goto, hal_irq_restore, OwnedIsLocked, MutualExclusion, Owns, ContextInv
<1>3. MutualExclusion'
  BY DEF ReleaseRestore, TypeOK, PCs, At, Running, Goto, hal_irq_restore, OwnedIsLocked, MutualExclusion, Owns
<1>4. ASSUME NEW d \in CPUs PROVE CpuInv(d)'
  BY DEF ReleaseRestore, TypeOK, PCs, At, Running, Goto, hal_irq_restore, CpuInv, ContextInv, Base
<1>5. ASSUME NEW d \in CPUs, NEW j \in Levels PROVE ContextInv(d, j)'
  BY DEF ReleaseRestore, TypeOK, PCs, At, Running, Goto, hal_irq_restore, ContextInv, CpuInv, Base, MutualExclusion, Owns
<1>6. QED
  BY <1>1, <1>2, <1>3, <1>4, <1>5

LEMMA TaskIrqSaveStep ==
  ASSUME IInv, NEW c \in CPUs, TaskIrqSave(c)
  PROVE  IInv'
<1> USE DEF IInv
<1>1. TypeOK'
  BY DEF TaskIrqSave, TypeOK, PCs, At, Running, Goto, hal_irq_restore
<1>2. OwnedIsLocked'
  BY DEF TaskIrqSave, TypeOK, PCs, At, Running, Goto, hal_irq_restore, OwnedIsLocked, MutualExclusion, Owns, ContextInv
<1>3. MutualExclusion'
  BY DEF TaskIrqSave, TypeOK, PCs, At, Running, Goto, hal_irq_restore, OwnedIsLocked, MutualExclusion, Owns
<1>4. ASSUME NEW d \in CPUs PROVE CpuInv(d)'
  BY DEF TaskIrqSave, TypeOK, PCs, At, Running, Goto, hal_irq_restore, CpuInv, ContextInv, Base
<1>5. ASSUME NEW d \in CPUs, NEW j \in Levels PROVE ContextInv(d, j)'
  BY DEF TaskIrqSave, TypeOK, PCs, At, Running, Goto, hal_irq_restore, ContextInv, CpuInv, Base, MutualExclusion, Owns
<1>6. QED
  BY <1>1, <1>2, <1>3, <1>4, <1>5

LEMMA TaskIrqRestoreStep ==
  ASSUME IInv, NEW c \in CPUs, TaskIrqRestore(c)
  PROVE  IInv'
<1> USE DEF IInv
<1>1. TypeOK'
  BY DEF TaskIrqRestore, TypeOK, PCs, At, Running, Goto, hal_irq_restore
<1>2. OwnedIsLocked'
  BY DEF TaskIrqRestore, TypeOK, PCs, At, Running, Goto, hal_irq_restore, OwnedIsLocked, MutualExclusion, Owns, ContextInv
<1>3. MutualExclusion'
  BY DEF TaskIrqRestore, TypeOK, PCs, At, Running, Goto, hal_irq_restore, OwnedIsLocked, MutualExclusion, Owns
<1>4. ASSUME NEW d \in CPUs PROVE CpuInv(d)'
  BY DEF TaskIrqRestore, TypeOK, PCs, At, Running, Goto, hal_irq_restore, CpuInv, ContextInv, Base
<1>5. ASSUME NEW d \in CPUs, NEW j \in Levels PROVE ContextInv(d, j)'
  BY DEF TaskIrqRestore, TypeOK, PCs, At, Running, Goto, hal_irq_restore, ContextInv, CpuInv, Base, MutualExclusion, Owns
<1>6. QED
  BY <1>1, <1>2, <1>3, <1>4, <1>5

LEMMA InterruptStep ==
  ASSUME IInv, NEW c \in CPUs, Interrupt(c)
  PROVE  IInv'
<1> USE DEF IInv
<1>1. TypeOK'
  BY DEF Interrupt, TypeOK, PCs, At, Running, Goto, hal_irq_restore
<1>2. OwnedIsLocked'
  BY SMTT(30) DEF Interrupt, TypeOK, PCs, At, Running, Goto, hal_irq_restore, OwnedIsLocked, MutualExclusion, Owns, ContextInv
<1>3. MutualExclusion'
  BY DEF Interrupt, TypeOK, PCs, At, Running, Goto, hal_irq_restore, OwnedIsLocked, MutualExclusion, Owns
<1>4. ASSUME NEW d \in CPUs PROVE CpuInv(d)'
  BY DEF Interrupt, TypeOK, PCs, At, Running, Goto, hal_irq_restore, CpuInv, ContextInv, Base
<1>5. ASSUME NEW d \in CPUs, NEW j \in Levels PROVE ContextInv(d, j)'
  BY SMTT(30) DEF Interrupt, TypeOK, PCs, At, Running, Goto, hal_irq_restore, ContextInv, CpuInv, Base, MutualExclusion, Owns
<1>6. QED
  BY <1>1, <1>2, <1>3, <1>4, <1>5

LEMMA ExceptionStep ==
  ASSUME IInv, NEW c \in CPUs, Exception(c)
  PROVE  IInv'
<1> USE DEF IInv
<1>1. TypeOK'
  BY DEF Exception, TypeOK, PCs, At, Running, Goto, hal_irq_restore
<1>2. OwnedIsLocked'
  BY SMTT(30) DEF Exception, TypeOK, PCs, At, Running, Goto, hal_irq_restore, OwnedIsLocked, MutualExclusion, Owns, ContextInv
<1>3. MutualExclusion'
  BY DEF Exception, TypeOK, PCs, At, Running, Goto, hal_irq_restore, OwnedIsLocked, MutualExclusion, Owns
<1>4. ASSUME NEW d \in CPUs PROVE CpuInv(d)'
  BY DEF Exception, TypeOK, PCs, At, Running, Goto, hal_irq_restore, CpuInv, ContextInv, Base
<1>5. ASSUME NEW d \in CPUs, NEW j \in Levels PROVE ContextInv(d, j)'
  BY SMTT(30) DEF Exception, TypeOK, PCs, At, Running, Goto, hal_irq_restore, ContextInv, CpuInv, Base, MutualExclusion, Owns
<1>6. QED
  BY <1>1, <1>2, <1>3, <1>4, <1>5

LEMMA IretStep ==
  ASSUME IInv, NEW c \in CPUs, Iret(c)
  PROVE  IInv'
<1> USE DEF IInv
<1>1. TypeOK'
  BY DEF Iret, TypeOK, PCs, At, Running, Goto, hal_irq_restore
<1>2. OwnedIsLocked'
  BY DEF Iret, TypeOK, PCs, At, Running, Goto, hal_irq_restore, OwnedIsLocked, MutualExclusion, Owns, ContextInv
<1>3. MutualExclusion'
  BY DEF Iret, TypeOK, PCs, At, Running, Goto, hal_irq_restore, OwnedIsLocked, MutualExclusion, Owns
<1>4. ASSUME NEW d \in CPUs PROVE CpuInv(d)'
  BY DEF Iret, TypeOK, PCs, At, Running, Goto, hal_irq_restore, CpuInv, ContextInv, Base
<1>5. ASSUME NEW d \in CPUs, NEW j \in Levels PROVE ContextInv(d, j)'
  BY DEF Iret, TypeOK, PCs, At, Running, Goto, hal_irq_restore, ContextInv, CpuInv, Base, MutualExclusion, Owns
<1>6. QED
  BY <1>1, <1>2, <1>3, <1>4, <1>5

\* Every step of Next, and a stuttering step, preserves the invariant.
LEMMA NextStep == IInv /\ [Next]_vars => IInv'
<1> SUFFICES ASSUME IInv, [Next]_vars PROVE IInv'
  OBVIOUS
<1>1. CASE UNCHANGED vars
  <2>1. TypeOK' /\ OwnedIsLocked' /\ MutualExclusion'
    BY <1>1 DEF IInv, vars, TypeOK, OwnedIsLocked, MutualExclusion, Owns
  <2>2. \A c \in CPUs : CpuInv(c)'
    BY <1>1 DEF IInv, vars, CpuInv
  <2>3. \A c \in CPUs : \A k \in Levels : ContextInv(c, k)'
    BY <1>1 DEF IInv, vars, ContextInv, Base
  <2>4. QED
    BY <2>1, <2>2, <2>3 DEF IInv
<1>2. CASE Next
  <2>1. PICK c \in CPUs :
          \/ \E k \in Levels :
               \/ \E l \in Locks : AcquireMask(c, k, l) \/ TryMask(c, k, l)
               \/ Continue(c, k)
               \/ Release(c, k)
          \/ TaskIrqSave(c) \/ TaskIrqRestore(c)
          \/ Interrupt(c) \/ Exception(c) \/ Iret(c)
    BY <1>2 DEF Next
  <2>2. CASE TaskIrqSave(c) \/ TaskIrqRestore(c)
    BY <2>2, TaskIrqSaveStep, TaskIrqRestoreStep
  <2>3. CASE Interrupt(c) \/ Exception(c) \/ Iret(c)
    BY <2>3, InterruptStep, ExceptionStep, IretStep
  <2>4. ASSUME NEW k \in Levels, NEW l \in Locks,
               AcquireMask(c, k, l) \/ TryMask(c, k, l) \/ ReleaseRead(c, k, l)
        PROVE  IInv'
    BY <2>4, AcquireMaskStep, TryMaskStep, ReleaseReadStep
  <2>5. ASSUME NEW k \in Levels, Continue(c, k)
        PROVE  IInv'
    BY <2>5, TestAndSetStep, RetryStep, SpinOpenStep, SpinPollStep, StoreFlagsStep,
       TryTestAndSetStep, ReleaseClearStep, ReleaseRestoreStep DEF Continue
  <2>6. QED
    BY <2>1, <2>2, <2>3, <2>4, <2>5 DEF Release
<1>3. QED
  BY <1>1, <1>2

\* The invariant holds in the initial state: no lock is held, IF is set.
LEMMA InitInv == Init => IInv
<1> SUFFICES ASSUME Init PROVE IInv
  OBVIOUS
<1>1. TypeOK
  BY NLocksAssumption DEF Init, TypeOK, PCs, Locks
<1>2. OwnedIsLocked /\ MutualExclusion
  BY DEF Init, OwnedIsLocked, MutualExclusion, Owns
<1>3. \A c \in CPUs : CpuInv(c)
  BY DEF Init, CpuInv
<1>4. \A c \in CPUs : \A k \in Levels : ContextInv(c, k)
  BY DEF Init, ContextInv
<1>5. QED
  BY <1>1, <1>2, <1>3, <1>4 DEF IInv

LEMMA Invariance == Spec => []IInv
  BY InitInv, NextStep, PTL DEF Spec

-----------------------------------------------------------------------------

\* Every variable of the lock protocol keeps its type.
THEOREM TypeCorrect == Spec => []TypeOK
<1>1. IInv => TypeOK
  BY DEF IInv
<1>2. QED
  BY <1>1, Invariance, PTL

\* A spinlock has at most one owner, tasks and trap handlers alike.
THEOREM SpinlockMutualExclusion == Spec => []MutualExclusion
<1>1. IInv => MutualExclusion
  BY DEF IInv
<1>2. QED
  BY <1>1, Invariance, PTL

\* The owner of a spinlock runs with interrupts disabled.
THEOREM SpinlockHolderMasked == Spec => []HolderMasked
<1>1. IInv => HolderMasked
  BY DEF IInv, TypeOK, HolderMasked, Owns, CpuInv, ContextInv, Base
<1>2. QED
  BY <1>1, Invariance, PTL

\* A trap handler never waits for a lock of the task it interrupted.
THEOREM SpinlockNoSelfDeadlock == Spec => []NoSelfDeadlock
<1>1. IInv => NoSelfDeadlock
  BY Zenon DEF IInv, TypeOK, NoSelfDeadlock, Owns, Waits, CpuInv
<1>2. QED
  BY <1>1, Invariance, PTL

\* Balanced lock operations leave RFLAGS.IF as they found it.
THEOREM SpinlockIrqStateRestored == Spec => []IrqStateRestored
<1>1. IInv => IrqStateRestored
  BY DEF IInv, TypeOK, IrqStateRestored, At, Running, CpuInv, Base
<1>2. QED
  BY <1>1, Invariance, PTL

HIDE DEF Levels

-----------------------------------------------------------------------------
(* Futex, for every set of threads, words, buckets, hash functions and       *)
(* calls.  WakeInv is the inductive invariant of NoLostWake, DeadInv the one *)
(* of NoDeadWaiter.                                                          *)

\* The leaves below are first order; the ones that cite SMTT need arithmetic or
\* types.
USE ZenonT(30)

LEMMA BelowBound == \A x, y, r \in Nat : x <= y /\ y < r => x < r
BY SMTT(30)

LEMMA ReapTypes ==
    ASSUME FutexTypeOK
    PROVE  reap.victim \in Waiters \cup {None} /\ reap.bucket \in Nat
BY SMTT(30) DEF FutexTypeOK

LEMMA WithoutDomain == \A l, S : DOMAIN Without(l, S) = DOMAIN l \ S
BY DEF Without

LEMMA JoinedDomain == \A l, m : DOMAIN Joined(l, m) = DOMAIN l \cup DOMAIN m
BY DEF Joined

LEMMA FrontFacts ==
    ASSUME NEW l, NEW n \in Nat, NEW F \in Fronts(l, n)
    PROVE  /\ F \subseteq DOMAIN l /\ (Cardinality(F) = n \/ F = DOMAIN l)
           /\ Cardinality(F) \in Nat
<1>1. F \subseteq DOMAIN l /\ (Cardinality(F) = n \/ F = DOMAIN l) /\ Cardinality(F) \in 0..n
  BY DEF Fronts
<1>2. \A c \in 0..n : c \in Nat
  BY SMTT(30)
<1>3. QED
  BY <1>1, <1>2

SleeperPcs == {"user", "check", "parked", "back"}

SleeperStates == {"RUNNING", "BLOCKED", "DEAD"}

WakerPcs == {"idle", "wake", "scan", "requeue", "deliver", "done"}

Wakes == [key : Words, n : Nat]

\* One field of one record of a function.
LEMMA SleeperStores ==
    ASSUME NEW f \in [Waiters -> SleeperRecords], NEW t \in Waiters, NEW o
    PROVE  /\ \A p \in SleeperPcs : o = [f EXCEPT ![t].pc = p] =>
                /\ o \in [Waiters -> SleeperRecords] /\ \A u \in Waiters : u # t => o[u] = f[u]
                /\ o[t].pc = p /\ o[t].state = f[t].state /\ o[t].saw = f[t].saw
           /\ \A s \in SleeperStates : o = [f EXCEPT ![t].state = s] =>
                /\ o \in [Waiters -> SleeperRecords] /\ \A u \in Waiters : u # t => o[u] = f[u]
                /\ o[t].pc = f[t].pc /\ o[t].state = s /\ o[t].saw = f[t].saw
           /\ \A b \in Nat : o = [f EXCEPT ![t].saw = b] =>
                /\ o \in [Waiters -> SleeperRecords] /\ \A u \in Waiters : u # t => o[u] = f[u]
                /\ o[t].pc = f[t].pc /\ o[t].state = f[t].state /\ o[t].saw = b
BY SMTT(30) DEF SleeperRecords, SleeperPcs, SleeperStates

LEMMA SleeperReplaced ==
    ASSUME NEW f \in [Waiters -> SleeperRecords], NEW t \in Waiters, NEW r \in SleeperRecords,
           NEW o, o = [f EXCEPT ![t] = r]
    PROVE  o \in [Waiters -> SleeperRecords] /\ o[t] = r /\ \A u \in Waiters : u # t => o[u] = f[u]
BY SMTT(30)

LEMMA WaiterReplaced ==
    ASSUME NEW f \in [Waiters -> WaiterRecords], NEW t \in Waiters, NEW r \in WaiterRecords,
           NEW o, o = [f EXCEPT ![t] = r]
    PROVE  o \in [Waiters -> WaiterRecords] /\ o[t] = r /\ \A u \in Waiters : u # t => o[u] = f[u]
BY SMTT(30)

WakersOf(S) == [pc : WakerPcs, todo : S, claims : SUBSET Waiters]

LEMMA WakerPcStored ==
    ASSUME NEW S, NEW f \in [Wakers -> WakersOf(S)], NEW w \in Wakers, NEW p \in WakerPcs, NEW o,
           o = [f EXCEPT ![w].pc = p]
    PROVE  /\ o \in [Wakers -> WakersOf(S)] /\ \A v \in Wakers : v # w => o[v] = f[v]
           /\ o[w].pc = p /\ o[w].todo = f[w].todo /\ o[w].claims = f[w].claims
BY SMTT(30) DEF WakersOf, WakerPcs

LEMMA WakerTodoStored ==
    ASSUME NEW S, NEW f \in [Wakers -> WakersOf(S)], NEW w \in Wakers, NEW q \in S, NEW o,
           o = [f EXCEPT ![w].todo = q]
    PROVE  /\ o \in [Wakers -> WakersOf(S)] /\ \A v \in Wakers : v # w => o[v] = f[v]
           /\ o[w].todo = q /\ o[w].pc = f[w].pc /\ o[w].claims = f[w].claims
BY SMTT(30) DEF WakersOf, WakerPcs

\* The record of w becomes p, q, c.
WakerIs(w, p, q, c) ==
    /\ waker' \in [Wakers -> WakerRecords] /\ \A v \in Wakers : v # w => waker'[v] = waker[v]
    /\ waker'[w].pc = p /\ waker'[w].todo = q /\ waker'[w].claims = c

LEMMA WakerTypes ==
    ASSUME FutexTypeOK
    PROVE  /\ waker \in [Wakers -> WakersOf(Seq(Wakes))] /\ WakersOf(Seq(Wakes)) = WakerRecords
           /\ \A w \in Wakers : /\ waker[w].pc \in WakerPcs /\ waker[w].todo \in Seq(Wakes)
                                /\ waker[w].claims \in SUBSET Waiters
<1>1. WakersOf(Seq(Wakes)) = WakerRecords
  BY DEF WakersOf, WakerRecords, Wakes, WakerPcs
<1>2. waker \in [Wakers -> WakersOf(Seq(Wakes))]
  BY <1>1 DEF FutexTypeOK
<1>3. PICK S : S = Seq(Wakes)
  OBVIOUS
<1>4. ASSUME NEW w \in Wakers
      PROVE  waker[w].pc \in WakerPcs /\ waker[w].todo \in S /\ waker[w].claims \in SUBSET Waiters
  <2>1. waker[w] \in WakersOf(S)
    BY <1>2, <1>3
  <2>2. QED
    BY SMTT(30), <2>1 DEF WakersOf
<1>5. QED
  BY <1>1, <1>2, <1>3, <1>4

LEMMA WakerMoves ==
    ASSUME FutexTypeOK, NEW w \in Wakers, NEW p \in WakerPcs, waker' = [waker EXCEPT ![w].pc = p]
    PROVE  WakerIs(w, p, waker[w].todo, waker[w].claims)
<1>1. PICK S : S = Seq(Wakes)
  OBVIOUS
<1>2. waker \in [Wakers -> WakersOf(S)] /\ WakersOf(S) = WakerRecords
  BY <1>1, WakerTypes
<1>3. /\ waker' \in [Wakers -> WakersOf(S)] /\ \A v \in Wakers : v # w => waker'[v] = waker[v]
      /\ waker'[w].pc = p /\ waker'[w].todo = waker[w].todo /\ waker'[w].claims = waker[w].claims
  BY SMTT(30), <1>2 DEF WakersOf, WakerPcs
<1>4. QED
  BY <1>2, <1>3 DEF WakerIs

LEMMA WakerPlans ==
    ASSUME FutexTypeOK, NEW w \in Wakers, NEW p \in WakerPcs, NEW q \in Seq(Wakes),
           waker' = [waker EXCEPT ![w].pc = p, ![w].todo = q]
    PROVE  WakerIs(w, p, q, waker[w].claims)
<1>1. PICK S : S = Seq(Wakes)
  OBVIOUS
<1>2. waker \in [Wakers -> WakersOf(S)] /\ WakersOf(S) = WakerRecords /\ q \in S
  BY <1>1, WakerTypes
<1>3. PICK a : a = [waker EXCEPT ![w].pc = p]
  OBVIOUS
<1>4. waker' = [a EXCEPT ![w].todo = q]
  BY SMTT(30), <1>3
<1>5. /\ a \in [Wakers -> WakersOf(S)] /\ \A v \in Wakers : v # w => a[v] = waker[v]
      /\ a[w].pc = p /\ a[w].claims = waker[w].claims
  BY SMTT(30), <1>2, <1>3, WakerPcStored
<1>6. /\ waker' \in [Wakers -> WakersOf(S)] /\ \A v \in Wakers : v # w => waker'[v] = a[v]
      /\ waker'[w].pc = a[w].pc /\ waker'[w].todo = q /\ waker'[w].claims = a[w].claims
  <2>1. PICK o : o = waker'
    OBVIOUS
  <2>2. o = [a EXCEPT ![w].todo = q]
    BY <1>4, <2>1
  <2>3. /\ o \in [Wakers -> WakersOf(S)] /\ \A v \in Wakers : v # w => o[v] = a[v]
        /\ o[w].pc = a[w].pc /\ o[w].todo = q /\ o[w].claims = a[w].claims
    BY SMTT(30), <1>2, <1>5, <2>2, WakerTodoStored
  <2>4. QED
    BY <2>1, <2>3
<1>7. QED
  BY <1>2, <1>5, <1>6 DEF WakerIs

LEMMA WakerClaims ==
    ASSUME FutexTypeOK, NEW w \in Wakers, NEW p \in WakerPcs, NEW c \in SUBSET Waiters,
           waker' = [waker EXCEPT ![w].pc = p, ![w].claims = c]
    PROVE  WakerIs(w, p, waker[w].todo, c)
<1>1. PICK S : S = Seq(Wakes)
  OBVIOUS
<1>2. waker \in [Wakers -> WakersOf(S)] /\ WakersOf(S) = WakerRecords
  BY <1>1, WakerTypes
<1>3. PICK a : a = [waker EXCEPT ![w].pc = p]
  OBVIOUS
<1>4. waker' = [a EXCEPT ![w].claims = c]
  BY SMTT(30), <1>3
<1>5. /\ a \in [Wakers -> WakersOf(S)] /\ \A v \in Wakers : v # w => a[v] = waker[v]
      /\ a[w].pc = p /\ a[w].todo = waker[w].todo
  BY SMTT(30), <1>2, <1>3, WakerPcStored
<1>6. /\ waker' \in [Wakers -> WakersOf(S)] /\ \A v \in Wakers : v # w => waker'[v] = a[v]
      /\ waker'[w].pc = a[w].pc /\ waker'[w].todo = a[w].todo /\ waker'[w].claims = c
  <2>1. PICK o : o = waker'
    OBVIOUS
  <2>2. o = [a EXCEPT ![w].claims = c]
    BY <1>4, <2>1
  <2>3. /\ o \in [Wakers -> WakersOf(S)] /\ \A v \in Wakers : v # w => o[v] = a[v]
        /\ o[w].pc = a[w].pc /\ o[w].todo = a[w].todo /\ o[w].claims = c
    BY SMTT(30), <1>2, <1>5, <2>2 DEF WakersOf, WakerPcs
  <2>4. QED
    BY <2>1, <2>3
<1>7. QED
  BY <1>2, <1>5, <1>6 DEF WakerIs

LEMMA WakerRequeues ==
    ASSUME FutexTypeOK, NEW w \in Wakers, NEW p \in WakerPcs, NEW c \in SUBSET Waiters,
           NEW q \in Seq(Wakes),
           waker' = [waker EXCEPT ![w].pc = p, ![w].claims = c, ![w].todo = q]
    PROVE  WakerIs(w, p, q, c)
<1>1. PICK S : S = Seq(Wakes)
  OBVIOUS
<1>2. waker \in [Wakers -> WakersOf(S)] /\ WakersOf(S) = WakerRecords /\ q \in S
  BY <1>1, WakerTypes
<1>3. PICK a : a = [waker EXCEPT ![w].pc = p]
  OBVIOUS
<1>4. PICK d : d = [a EXCEPT ![w].claims = c]
  OBVIOUS
<1>5. waker' = [d EXCEPT ![w].todo = q]
  BY SMTT(30), <1>3, <1>4
<1>6. /\ a \in [Wakers -> WakersOf(S)] /\ \A v \in Wakers : v # w => a[v] = waker[v]
      /\ a[w].pc = p
  BY SMTT(30), <1>2, <1>3, WakerPcStored
<1>7. /\ d \in [Wakers -> WakersOf(S)] /\ \A v \in Wakers : v # w => d[v] = a[v]
      /\ d[w].pc = a[w].pc /\ d[w].claims = c
  BY SMTT(30), <1>2, <1>4, <1>6 DEF WakersOf, WakerPcs
<1>8. /\ waker' \in [Wakers -> WakersOf(S)] /\ \A v \in Wakers : v # w => waker'[v] = d[v]
      /\ waker'[w].pc = d[w].pc /\ waker'[w].todo = q /\ waker'[w].claims = d[w].claims
  <2>1. PICK o : o = waker'
    OBVIOUS
  <2>2. o = [d EXCEPT ![w].todo = q]
    BY <1>5, <2>1
  <2>3. /\ o \in [Wakers -> WakersOf(S)] /\ \A v \in Wakers : v # w => o[v] = d[v]
        /\ o[w].pc = d[w].pc /\ o[w].todo = q /\ o[w].claims = d[w].claims
    BY SMTT(30), <1>2, <1>7, <2>2, WakerTodoStored
  <2>4. QED
    BY <2>1, <2>3
<1>9. QED
  BY <1>2, <1>6, <1>7, <1>8 DEF WakerIs

LEMMA TallyStores ==
    ASSUME FutexTypeOK, NEW k \in Words, NEW n \in Nat, NEW c \in Nat, Counted(k, n, c)
    PROVE  /\ tally' \in [Words -> [asked : Nat, consumed : Nat]]
           /\ ~val[k] => tally' = tally
           /\ val[k] => /\ tally'[k].asked = tally[k].asked + n
                        /\ tally'[k].consumed = tally[k].consumed + c
           /\ \A j \in Words : j # k => tally'[j] = tally[j]
<1>1. tally \in [Words -> [asked : Nat, consumed : Nat]]
  BY DEF FutexTypeOK
<1>2. CASE val[k]
  <2>1. tally' = [tally EXCEPT ![k].asked = @ + n, ![k].consumed = @ + c]
    BY <1>2 DEF Counted
  <2>2. PICK a : a = [tally EXCEPT ![k].asked = @ + n]
    OBVIOUS
  <2>3. tally' = [a EXCEPT ![k].consumed = @ + c]
    BY <2>1, <2>2
  <2>4. /\ a \in [Words -> [asked : Nat, consumed : Nat]]
        /\ a[k].asked = tally[k].asked + n /\ a[k].consumed = tally[k].consumed
        /\ \A j \in Words : j # k => a[j] = tally[j]
    BY SMTT(30), <1>1, <2>2
  <2>5. /\ tally' \in [Words -> [asked : Nat, consumed : Nat]]
        /\ tally'[k].asked = a[k].asked /\ tally'[k].consumed = a[k].consumed + c
        /\ \A j \in Words : j # k => tally'[j] = a[j]
    BY SMTT(30), <2>3, <2>4
  <2>6. QED
    BY <1>2, <2>4, <2>5
<1>3. CASE ~val[k]
  BY <1>1, <1>3 DEF Counted
<1>4. QED
  BY <1>2, <1>3

-----------------------------------------------------------------------------
(* What a step may leave alone *)

\* The thread u, its waiter, the locks it has and the lists it is in.
Kept(u) ==
    /\ sleeper'[u] = sleeper[u] /\ waiter'[u] = waiter[u]
    /\ \A b \in Buckets : /\ lock'[b] = u <=> lock[b] = u
                          /\ u \in DOMAIN list'[b] <=> u \in DOMAIN list[b]

LEMMA KeptWaiter ==
    ASSUME FutexTypeOK, NEW u \in Waiters, WaiterOK(u), Kept(u), hash' = hash
    PROVE  WaiterOK(u)'
<1>1. sleeper[u].pc # "user" => waiter[u].bucket \in Buckets
  BY DEF WaiterOK, FutexTypeOK
<1>2. /\ sleeper'[u].pc = "check" =>
           /\ lock'[waiter'[u].bucket] = u /\ u \in DOMAIN list'[waiter'[u].bucket]
           /\ sleeper'[u].state = "RUNNING" /\ ~waiter'[u].moved
      /\ sleeper'[u].pc = "user" => sleeper'[u].state = "RUNNING"
      /\ sleeper'[u].pc # "user" => /\ waiter'[u].key \in Words
                                    /\ waiter'[u].bucket = hash'[waiter'[u].key]
      /\ sleeper'[u].pc = "back" => sleeper'[u].saw \in Buckets
  BY <1>1 DEF WaiterOK, Kept
<1>3. ASSUME NEW b \in Buckets
      PROVE  /\ u \in DOMAIN list'[b] => sleeper'[u].pc # "user" /\ waiter'[u].bucket = b
             /\ lock'[b] = u => sleeper'[u].pc = "check" /\ waiter'[u].bucket = b
  BY DEF WaiterOK, Kept
<1>4. QED
  BY <1>2, <1>3 DEF WaiterOK

\* Nobody new waits unseen for a word that has changed.
LEMMA WordKept ==
    ASSUME WordInv, UNCHANGED <<val, tally>>,
           \A k \in Words : val[k] => Left(k)' \subseteq Left(k)
    PROVE  WordInv'
BY DEF WordInv

\* A dead thread stays dead and unlinked, and nobody new claims it.
LEMMA DeadKept ==
    ASSUME FutexTypeOK, ReapInv, UNCHANGED <<reap, freed>>,
           \A t \in Waiters : sleeper[t].state = "DEAD" =>
               /\ sleeper'[t].state = "DEAD"
               /\ \A b \in Buckets : t \in DOMAIN list'[b] => t \in DOMAIN list[b],
           \A w \in Wakers : \A t \in waker'[w].claims : t \in waker[w].claims \/ Queued(t),
           VictimInv
    PROVE  ReapInv'
<1>1. freed \subseteq Waiters /\ reap.victim \in Waiters \cup {None}
  BY SMTT(30) DEF FutexTypeOK
<1>2. ASSUME NEW t \in freed PROVE sleeper'[t].state = "DEAD" /\ ~Queued(t)' /\ ~Claimed(t)'
  <2>1. sleeper[t].state = "DEAD" /\ ~Queued(t) /\ ~Claimed(t) /\ t \in Waiters
    BY <1>1 DEF ReapInv
  <2>2. ~Queued(t)'
    BY <2>1 DEF Queued
  <2>3. ~Claimed(t)'
    BY <2>1 DEF Claimed
  <2>4. QED
    BY <2>1, <2>2, <2>3
<1>3. ASSUME reap.victim # None, NEW b \in Buckets, b < reap.bucket
      PROVE  reap.victim \notin DOMAIN list'[b]
  BY <1>1, <1>3 DEF ReapInv, VictimInv
<1>4. QED
  BY <1>2, <1>3 DEF ReapInv

LEMMA UpwardKept ==
    ASSUME UpwardInv, UNCHANGED <<hash, waker>>
    PROVE  UpwardInv'
BY DEF UpwardInv

\* What both invariants need: the second is kept by requeues that go up.
Preserved == WakeInv' /\ (UpwardRequeues /\ ReapInv /\ UpwardInv => ReapInv' /\ UpwardInv')

\* A step that touches the thread t alone.
LEMMA ThreadTouched ==
    ASSUME WakeInv, NEW t \in Waiters, UNCHANGED <<hash, val, waker, tally>>,
           \A u \in Waiters \ {t} : Kept(u), WaiterOK(t)',
           \A k \in Words : val[k] /\ t \in Left(k)' => t \in Left(k),
           sleeper'[t].pc = "parked" /\ sleeper'[t].state = "BLOCKED" =>
               t \in DOMAIN list'[waiter'[t].bucket] \/ WakeComing(t)'
    PROVE  PlansInv' /\ WaitersInv' /\ WordInv' /\ ParkedInv'
<1>1. FutexTypeOK /\ PlansInv /\ WaitersInv /\ WordInv /\ ParkedInv /\ VictimInv
  BY DEF WakeInv
<1>2. PlansInv'
  BY <1>1 DEF PlansInv, PlanOK
<1>3. WaitersInv'
  <2>1. ASSUME NEW u \in Waiters, u # t PROVE WaiterOK(u)'
    <3>1. WaiterOK(u) /\ Kept(u)
      BY <1>1, <2>1 DEF WaitersInv
    <3>2. QED
      BY <1>1, <3>1, KeptWaiter
  <2>2. QED
    BY <2>1 DEF WaitersInv
<1>4. WordInv'
  <2>1. ASSUME NEW k \in Words, val[k], NEW u \in Left(k)' PROVE u \in Left(k)
    <3>1. CASE u = t
      BY <2>1, <3>1
    <3>2. CASE u # t
      <4>1. u \in Waiters /\ Kept(u) /\ hash[k] \in Buckets
        BY <1>1, <2>1, <3>2 DEF Left, FutexTypeOK
      <4>2. QED
        BY <2>1, <4>1 DEF Left, Kept
    <3>3. QED
      BY <3>1, <3>2
  <2>2. QED
    BY <1>1, <2>1, WordKept
<1>5. ParkedInv'
  <2>1. ASSUME NEW u \in Waiters, u # t, sleeper'[u].pc = "parked", sleeper'[u].state = "BLOCKED"
        PROVE  u \in DOMAIN list'[waiter'[u].bucket] \/ WakeComing(u)'
    <3>1. Kept(u) /\ WaiterOK(u)
      BY <1>1, <2>1 DEF WaitersInv
    <3>2. waiter[u].bucket \in Buckets
      <4>1. sleeper[u].pc # "user"
        BY <2>1, <3>1 DEF Kept
      <4>2. waiter[u].key \in Words /\ waiter[u].bucket = hash[waiter[u].key]
        BY <3>1, <4>1 DEF WaiterOK
      <4>3. QED
        BY <1>1, <4>2 DEF FutexTypeOK
    <3>3. u \in DOMAIN list[waiter[u].bucket] \/ WakeComing(u)
      BY <1>1, <2>1, <3>1 DEF ParkedInv, Kept
    <3>4. WakeComing(u) => WakeComing(u)'
      BY <3>1 DEF WakeComing, Kept
    <3>5. QED
      BY <3>1, <3>2, <3>3, <3>4 DEF Kept
  <2>2. QED
    BY <2>1 DEF ParkedInv
<1>6. QED
  BY <1>2, <1>3, <1>4, <1>5

\* A step of the thread t alone.
LEMMA ThreadStep ==
    ASSUME WakeInv, NEW t \in Waiters, UNCHANGED <<hash, val, waker, reap, freed, tally>>,
           FutexTypeOK', \A u \in Waiters \ {t} : Kept(u), WaiterOK(t)',
           \A k \in Words : val[k] /\ t \in Left(k)' => t \in Left(k),
           sleeper'[t].pc = "parked" /\ sleeper'[t].state = "BLOCKED" =>
               t \in DOMAIN list'[waiter'[t].bucket] \/ WakeComing(t)',
           sleeper[t].state = "DEAD" =>
               /\ sleeper'[t].state = "DEAD"
               /\ \A b \in Buckets : t \in DOMAIN list'[b] => t \in DOMAIN list[b]
    PROVE  Preserved
<1>1. FutexTypeOK /\ PlansInv /\ WaitersInv /\ WordInv /\ ParkedInv /\ VictimInv
  BY DEF WakeInv
<1>2. PlansInv' /\ WaitersInv' /\ WordInv' /\ ParkedInv'
  BY ThreadTouched
<1>3. \A u \in Waiters : sleeper[u].state = "DEAD" =>
        /\ sleeper'[u].state = "DEAD"
        /\ \A b \in Buckets : u \in DOMAIN list'[b] => u \in DOMAIN list[b]
  <2>1. ASSUME NEW u \in Waiters, u # t
        PROVE  /\ sleeper'[u] = sleeper[u]
               /\ \A b \in Buckets : u \in DOMAIN list'[b] <=> u \in DOMAIN list[b]
    <3>1. Kept(u)
      BY <2>1
    <3>2. QED
      BY <3>1 DEF Kept
  <2>2. QED
    BY <2>1
<1>4. VictimInv'
  <2>1. reap.victim \in Waiters \cup {None}
    BY SMTT(30), <1>1 DEF FutexTypeOK
  <2>2. QED
    BY <1>1, <1>3, <2>1 DEF VictimInv
<1>5. ASSUME ReapInv, UpwardInv PROVE ReapInv' /\ UpwardInv'
  <2>1. ReapInv'
    BY <1>1, <1>3, <1>5, DeadKept
  <2>2. QED
    BY <1>5, <2>1, UpwardKept
<1>6. QED
  BY <1>2, <1>4, <1>5 DEF WakeInv, Preserved

\* A step of the waker w that claims nobody.
LEMMA WakerStep ==
    ASSUME WakeInv, NEW w \in Wakers, NEW p, NEW q, WakerIs(w, p, q, {}), waker[w].claims = {},
           UNCHANGED <<hash, list, lock, waiter, sleeper, reap, freed>>,
           FutexTypeOK', PlanOK(waker[w])', WordInv',
           UpwardRequeues => p # "requeue" \/ hash[q[1].key] <= hash[q[2].key]
    PROVE  Preserved
<1>1. FutexTypeOK /\ PlansInv /\ WaitersInv /\ WordInv /\ ParkedInv /\ VictimInv
  BY DEF WakeInv
<1>2. /\ \A v \in Wakers : v # w => waker'[v] = waker[v]
      /\ waker'[w].pc = p /\ waker'[w].todo = q /\ waker'[w].claims = {}
  BY DEF WakerIs
<1>3. PlansInv'
  BY <1>1, <1>2 DEF PlansInv, PlanOK
<1>4. WaitersInv' /\ VictimInv'
  <2>1. ASSUME NEW u \in Waiters PROVE WaiterOK(u)'
    <3>1. WaiterOK(u) /\ Kept(u)
      BY <1>1 DEF WaitersInv, Kept
    <3>2. QED
      BY <1>1, <3>1, KeptWaiter
  <2>2. QED
    BY <1>1, <2>1 DEF WaitersInv, VictimInv
<1>5. ParkedInv'
  <2>1. ASSUME NEW u \in Waiters, WakeComing(u) PROVE WakeComing(u)'
    BY <1>2, <2>1 DEF WakeComing
  <2>2. QED
    BY <1>1, <2>1 DEF ParkedInv
<1>6. ASSUME UpwardRequeues, ReapInv, UpwardInv PROVE ReapInv' /\ UpwardInv'
  <2>1. ReapInv'
    BY <1>1, <1>2, <1>6, DeadKept
  <2>2. UpwardInv'
    BY <1>2, <1>6 DEF UpwardInv
  <2>3. QED
    BY <2>1, <2>2
<1>7. QED
  BY <1>3, <1>4, <1>5, <1>6 DEF WakeInv, Preserved

-----------------------------------------------------------------------------
(* futex_wait *)

LEMMA BucketsNat == Buckets \subseteq Nat
BY SMTT(30), FutexConstants DEF Buckets

LEMMA SleeperFields ==
    ASSUME FutexTypeOK, NEW t \in Waiters
    PROVE  /\ sleeper[t] \in SleeperRecords /\ waiter[t] \in WaiterRecords
           /\ sleeper[t].pc \in SleeperPcs /\ sleeper[t].state \in SleeperStates
           /\ sleeper[t].saw \in Nat
BY SMTT(30) DEF FutexTypeOK, SleeperRecords, SleeperPcs, SleeperStates

LEMMA ListReplaced ==
    ASSUME FutexTypeOK, NEW b \in Buckets, NEW l, list' = [list EXCEPT ![b] = l],
           DOMAIN l \subseteq Waiters
    PROVE  /\ DOMAIN list' = Buckets /\ list'[b] = l
           /\ \A c \in Buckets : c # b => list'[c] = list[c]
           /\ \A c \in Buckets : DOMAIN list'[c] \subseteq Waiters
BY DEF FutexTypeOK

LEMMA LockReplaced ==
    ASSUME FutexTypeOK, NEW b \in Buckets, NEW o \in Waiters \cup {None},
           lock' = [lock EXCEPT ![b] = o]
    PROVE  /\ lock' \in [Buckets -> Waiters \cup {None}] /\ lock'[b] = o
           /\ \A c \in Buckets : c # b => lock'[c] = lock[c]
BY DEF FutexTypeOK

LEMMA ThreadType ==
    ASSUME FutexTypeOK, UNCHANGED <<hash, val, waker, reap, freed, tally>>,
           sleeper' \in [Waiters -> SleeperRecords], waiter' \in [Waiters -> WaiterRecords],
           lock' \in [Buckets -> Waiters \cup {None}],
           DOMAIN list' = Buckets, \A b \in Buckets : DOMAIN list'[b] \subseteq Waiters
    PROVE  FutexTypeOK'
BY DEF FutexTypeOK

\* What is known of a thread inside futex_wait.
LEMMA InsideFacts ==
    ASSUME WakeInv, NEW t \in Waiters, sleeper[t].pc # "user"
    PROVE  /\ waiter[t].key \in Words /\ waiter[t].bucket = hash[waiter[t].key]
           /\ waiter[t].bucket \in Buckets
           /\ \A b \in Buckets : t \in DOMAIN list[b] => b = waiter[t].bucket
           /\ sleeper[t].pc # "check" => \A b \in Buckets : lock[b] # t
<1>1. FutexTypeOK /\ WaiterOK(t)
  BY DEF WakeInv, WaitersInv
<1>2. waiter[t].key \in Words /\ waiter[t].bucket = hash[waiter[t].key]
  BY <1>1 DEF WaiterOK
<1>3. QED
  BY <1>1, <1>2 DEF WaiterOK, FutexTypeOK

\* The record of t becomes p, s, b.
SleeperIs(t, p, s, b) ==
    /\ sleeper' \in [Waiters -> SleeperRecords]
    /\ \A u \in Waiters : u # t => sleeper'[u] = sleeper[u]
    /\ sleeper'[t].pc = p /\ sleeper'[t].state = s /\ sleeper'[t].saw = b

LEMMA SleeperPc ==
    ASSUME FutexTypeOK, NEW t \in Waiters, NEW p \in SleeperPcs,
           sleeper' = [sleeper EXCEPT ![t].pc = p]
    PROVE  SleeperIs(t, p, sleeper[t].state, sleeper[t].saw)
<1>1. sleeper \in [Waiters -> SleeperRecords]
  BY DEF FutexTypeOK
<1>2. PICK o : o = sleeper'
  OBVIOUS
<1>3. QED
  BY SMTT(30), <1>1, <1>2, SleeperStores DEF SleeperIs

LEMMA SleeperState ==
    ASSUME FutexTypeOK, NEW t \in Waiters, NEW s \in SleeperStates,
           sleeper' = [sleeper EXCEPT ![t].state = s]
    PROVE  SleeperIs(t, sleeper[t].pc, s, sleeper[t].saw)
<1>1. sleeper \in [Waiters -> SleeperRecords]
  BY DEF FutexTypeOK
<1>2. PICK o : o = sleeper'
  OBVIOUS
<1>3. QED
  BY SMTT(30), <1>1, <1>2, SleeperStores DEF SleeperIs

LEMMA SleeperParks ==
    ASSUME FutexTypeOK, NEW t \in Waiters,
           sleeper' = [sleeper EXCEPT ![t].pc = "parked", ![t].state = "BLOCKED"]
    PROVE  SleeperIs(t, "parked", "BLOCKED", sleeper[t].saw)
<1>1. PICK f : f = sleeper
  OBVIOUS
<1>2. f \in [Waiters -> SleeperRecords] /\ "parked" \in SleeperPcs /\ "BLOCKED" \in SleeperStates
  BY <1>1 DEF FutexTypeOK, SleeperPcs, SleeperStates
<1>3. PICK a : a = [f EXCEPT ![t].pc = "parked"]
  OBVIOUS
<1>4. PICK o : o = [a EXCEPT ![t].state = "BLOCKED"]
  OBVIOUS
<1>5. sleeper' = o
  BY SMTT(30), <1>1, <1>3, <1>4
<1>6. /\ a \in [Waiters -> SleeperRecords] /\ \A u \in Waiters : u # t => a[u] = f[u]
      /\ a[t].pc = "parked" /\ a[t].saw = f[t].saw
  BY SMTT(30), <1>2, <1>3, SleeperStores
<1>7. /\ o \in [Waiters -> SleeperRecords] /\ \A u \in Waiters : u # t => o[u] = a[u]
      /\ o[t].pc = a[t].pc /\ o[t].state = "BLOCKED" /\ o[t].saw = a[t].saw
  BY SMTT(30), <1>4, <1>6 DEF SleeperRecords
<1>8. QED
  BY <1>1, <1>5, <1>6, <1>7 DEF SleeperIs

LEMMA SleeperBack ==
    ASSUME FutexTypeOK, NEW t \in Waiters, NEW b \in Nat,
           sleeper' = [sleeper EXCEPT ![t].pc = "back", ![t].saw = b]
    PROVE  SleeperIs(t, "back", sleeper[t].state, b)
<1>1. PICK f : f = sleeper
  OBVIOUS
<1>2. f \in [Waiters -> SleeperRecords] /\ "back" \in SleeperPcs
  BY <1>1 DEF FutexTypeOK, SleeperPcs
<1>3. PICK a : a = [f EXCEPT ![t].pc = "back"]
  OBVIOUS
<1>4. PICK o : o = [a EXCEPT ![t].saw = b]
  OBVIOUS
<1>5. sleeper' = o
  BY SMTT(30), <1>1, <1>3, <1>4
<1>6. /\ a \in [Waiters -> SleeperRecords] /\ \A u \in Waiters : u # t => a[u] = f[u]
      /\ a[t].pc = "back" /\ a[t].state = f[t].state
  BY SMTT(30), <1>2, <1>3, SleeperStores
<1>7. /\ o \in [Waiters -> SleeperRecords] /\ \A u \in Waiters : u # t => o[u] = a[u]
      /\ o[t].pc = a[t].pc /\ o[t].state = a[t].state /\ o[t].saw = b
  BY SMTT(30), <1>4, <1>6 DEF SleeperRecords
<1>8. QED
  BY <1>1, <1>5, <1>6, <1>7 DEF SleeperIs

LEMMA EnqueueStep ==
    ASSUME WakeInv, NEW t \in Waiters, NEW k \in Words, WaitEnqueue(t, k)
    PROVE  Preserved
<1>1. FutexTypeOK /\ WaiterOK(t)
  BY DEF WakeInv, WaitersInv
<1>2. PICK b \in Buckets : b = hash[k]
  BY <1>1 DEF FutexTypeOK
<1>3. /\ sleeper[t].pc = "user" /\ sleeper[t].state = "RUNNING" /\ lock[b] = None
      /\ lock' = [lock EXCEPT ![b] = t]
      /\ list' = [list EXCEPT ![b] = Joined(list[b], [u \in {t} |-> {}])]
      /\ waiter' = [waiter EXCEPT ![t] = [key |-> k, moved |-> FALSE, bucket |-> b]]
      /\ sleeper' = [sleeper EXCEPT ![t].pc = "check"]
      /\ UNCHANGED <<hash, val, waker, reap, freed, tally>>
  BY <1>1, <1>2 DEF WaitEnqueue, FutexTypeOK
<1>4. /\ lock' \in [Buckets -> Waiters \cup {None}] /\ lock'[b] = t
      /\ \A c \in Buckets : c # b => lock'[c] = lock[c]
  BY <1>1, <1>3, LockReplaced
<1>5. /\ DOMAIN list' = Buckets /\ DOMAIN list'[b] = DOMAIN list[b] \cup {t}
      /\ \A c \in Buckets : c # b => list'[c] = list[c]
      /\ \A c \in Buckets : DOMAIN list'[c] \subseteq Waiters
  <2>1. PICK l : l = Joined(list[b], [u \in {t} |-> {}])
    OBVIOUS
  <2>2. DOMAIN l = DOMAIN list[b] \cup {t}
    BY <2>1, JoinedDomain
  <2>3. DOMAIN l \subseteq Waiters
    BY <1>1, <2>2 DEF FutexTypeOK
  <2>4. list' = [list EXCEPT ![b] = l]
    BY <1>3, <2>1
  <2>5. QED
    BY <1>1, <2>2, <2>3, <2>4, ListReplaced
<1>6. /\ waiter' \in [Waiters -> WaiterRecords] /\ \A u \in Waiters : u # t => waiter'[u] = waiter[u]
      /\ waiter'[t].key = k /\ ~waiter'[t].moved /\ waiter'[t].bucket = b
  <2>1. PICK no \in BOOLEAN : no = FALSE
    OBVIOUS
  <2>2. PICK r : r = [key |-> k, moved |-> no, bucket |-> b]
    OBVIOUS
  <2>3. r \in WaiterRecords /\ r.key = k /\ r.moved = no /\ r.bucket = b
    <3>1. b \in Nat
      BY BucketsNat
    <3>2. QED
      BY SMTT(30), <2>1, <2>2, <3>1 DEF WaiterRecords
  <2>4. waiter' = [waiter EXCEPT ![t] = r] /\ waiter \in [Waiters -> WaiterRecords]
    BY <1>1, <1>3, <2>1, <2>2 DEF FutexTypeOK
  <2>5. waiter' \in [Waiters -> WaiterRecords] /\ waiter'[t] = r
        /\ \A u \in Waiters : u # t => waiter'[u] = waiter[u]
    BY SMTT(30), <2>3, <2>4
  <2>6. QED
    BY <2>1, <2>3, <2>5
<1>7. /\ sleeper' \in [Waiters -> SleeperRecords]
      /\ \A u \in Waiters : u # t => sleeper'[u] = sleeper[u]
      /\ sleeper'[t].pc = "check" /\ sleeper'[t].state = "RUNNING"
  <2>1. "check" \in SleeperPcs
    BY DEF SleeperPcs
  <2>2. QED
    BY <1>1, <1>3, <2>1, SleeperPc DEF SleeperIs
<1>8. FutexTypeOK'
  BY <1>1, <1>3, <1>4, <1>5, <1>6, <1>7, ThreadType
<1>9. ASSUME NEW u \in Waiters \ {t} PROVE Kept(u)
  <2>1. u # None
    BY FutexConstants
  <2>2. QED
    BY <1>3, <1>4, <1>5, <1>6, <1>7, <2>1 DEF Kept
<1>10. WaiterOK(t)'
  <2>1. ASSUME NEW c \in Buckets PROVE (t \in DOMAIN list'[c] => c = b) /\ (lock'[c] = t => c = b)
    BY <1>1, <1>3, <1>4, <1>5 DEF WaiterOK
  <2>2. QED
    BY <1>2, <1>3, <1>4, <1>5, <1>6, <1>7, <2>1 DEF WaiterOK
<1>11. \A j \in Words : t \notin Left(j)'
  BY <1>7 DEF Left
<1>12. QED
  BY <1>3, <1>7, <1>8, <1>9, <1>10, <1>11, ThreadStep

LEMMA ReturnStep ==
    ASSUME WakeInv, NEW t \in Waiters, sleeper[t].pc # "user", sleeper[t].state # "DEAD",
           NEW b, b = waiter[t].bucket, Return(t, b),
           UNCHANGED <<hash, val, waker, reap, freed, tally>>,
           lock' \in [Buckets -> Waiters \cup {None}],
           \A c \in Buckets : /\ lock'[c] # t
                              /\ \A u \in Waiters \ {t} : lock'[c] = u <=> lock[c] = u
    PROVE  Preserved
<1>1. FutexTypeOK /\ WaiterOK(t)
  BY DEF WakeInv, WaitersInv
<1>2. b \in Buckets /\ \A c \in Buckets : t \in DOMAIN list[c] => c = b
  BY InsideFacts
<1>3. /\ DOMAIN list' = Buckets /\ DOMAIN list'[b] = DOMAIN list[b] \ {t}
      /\ \A c \in Buckets : c # b => list'[c] = list[c]
      /\ \A c \in Buckets : DOMAIN list'[c] \subseteq Waiters
  <2>1. PICK l : l = Without(list[b], {t})
    OBVIOUS
  <2>2. DOMAIN l = DOMAIN list[b] \ {t}
    BY <2>1, WithoutDomain
  <2>3. DOMAIN l \subseteq Waiters
    BY <1>1, <1>2, <2>2 DEF FutexTypeOK
  <2>4. list' = [list EXCEPT ![b] = l]
    BY <1>1, <1>2, <2>1 DEF Return, FutexTypeOK
  <2>5. QED
    BY <1>1, <1>2, <2>2, <2>3, <2>4, ListReplaced
<1>4. /\ waiter' \in [Waiters -> WaiterRecords]
      /\ \A u \in Waiters : u # t => waiter'[u] = waiter[u]
  <2>1. NoWaiter \in WaiterRecords
    <3>1. PICK no \in BOOLEAN : no = FALSE
      OBVIOUS
    <3>2. NoWaiter = [key |-> None, moved |-> no, bucket |-> 0]
      BY <3>1 DEF NoWaiter
    <3>3. QED
      BY SMTT(30), <3>1, <3>2 DEF WaiterRecords
  <2>2. waiter' = [waiter EXCEPT ![t] = NoWaiter] /\ waiter \in [Waiters -> WaiterRecords]
    BY <1>1 DEF Return, FutexTypeOK
  <2>3. QED
    BY SMTT(30), <2>1, <2>2
<1>5. /\ sleeper' \in [Waiters -> SleeperRecords]
      /\ \A u \in Waiters : u # t => sleeper'[u] = sleeper[u]
      /\ sleeper'[t].pc = "user" /\ sleeper'[t].state = "RUNNING"
  <2>1. PICK r : r = [pc |-> "user", state |-> "RUNNING", saw |-> 0]
    OBVIOUS
  <2>2. r \in SleeperRecords /\ r.pc = "user" /\ r.state = "RUNNING"
    BY SMTT(30), <2>1 DEF SleeperRecords
  <2>3. sleeper' = [sleeper EXCEPT ![t] = r] /\ sleeper \in [Waiters -> SleeperRecords]
    BY <1>1, <2>1 DEF Return, FutexTypeOK
  <2>4. /\ sleeper' \in [Waiters -> SleeperRecords] /\ sleeper'[t] = r
        /\ \A u \in Waiters : u # t => sleeper'[u] = sleeper[u]
    BY SMTT(30), <2>2, <2>3
  <2>5. QED
    BY <2>2, <2>4
<1>6. FutexTypeOK'
  BY <1>1, <1>3, <1>4, <1>5, ThreadType
<1>7. ASSUME NEW u \in Waiters \ {t} PROVE Kept(u)
  <2>1. ASSUME NEW c \in Buckets PROVE u \in DOMAIN list'[c] <=> u \in DOMAIN list[c]
    BY <1>3
  <2>2. QED
    BY <1>4, <1>5, <2>1 DEF Kept
<1>8. \A c \in Buckets : t \notin DOMAIN list'[c]
  BY <1>2, <1>3
<1>9. WaiterOK(t)'
  BY <1>5, <1>8 DEF WaiterOK
<1>10. \A j \in Words : t \notin Left(j)'
  <2>1. \A j \in Words : hash[j] \in Buckets
    BY <1>1 DEF FutexTypeOK
  <2>2. QED
    BY <1>8, <2>1 DEF Left
<1>11. QED
  BY <1>5, <1>6, <1>7, <1>9, <1>10, ThreadStep

\* A thread that is parked, or on its way back, moves.
LEMMA MoveStep ==
    ASSUME WakeInv, NEW t \in Waiters,
           UNCHANGED <<hash, val, list, lock, waiter, waker, reap, freed, tally>>,
           sleeper' \in [Waiters -> SleeperRecords],
           \A u \in Waiters : u # t => sleeper'[u] = sleeper[u],
           sleeper[t].pc \in {"parked", "back"}, sleeper'[t].pc \in {"parked", "back"},
           sleeper'[t].pc = "back" => sleeper'[t].saw \in Buckets,
           sleeper[t].state = "DEAD" => sleeper'[t].state = "DEAD",
           sleeper'[t].pc = "parked" /\ sleeper'[t].state = "BLOCKED" =>
               t \in DOMAIN list[waiter[t].bucket] \/ WakeComing(t)
    PROVE  Preserved
<1>1. FutexTypeOK /\ WaiterOK(t)
  BY DEF WakeInv, WaitersInv
<1>2. FutexTypeOK'
  BY <1>1 DEF FutexTypeOK
<1>3. \A u \in Waiters \ {t} : Kept(u)
  BY DEF Kept
<1>4. WaiterOK(t)'
  <2>1. sleeper[t].pc \notin {"user", "check"} /\ sleeper'[t].pc \notin {"user", "check"}
    OBVIOUS
  <2>2. waiter[t].key \in Words /\ waiter[t].bucket = hash[waiter[t].key]
    BY <1>1, <2>1 DEF WaiterOK
  <2>3. \A b \in Buckets : (t \in DOMAIN list[b] => waiter[t].bucket = b) /\ lock[b] # t
    BY <1>1, <2>1 DEF WaiterOK
  <2>4. QED
    BY <2>1, <2>2, <2>3 DEF WaiterOK
<1>5. \A k \in Words : t \in Left(k)' => t \in Left(k)
  BY DEF Left
<1>6. WakeComing(t) => WakeComing(t)'
  BY DEF WakeComing
<1>7. QED
  BY <1>2, <1>3, <1>4, <1>5, <1>6, ThreadStep

LEMMA CheckStep ==
    ASSUME WakeInv, NEW t \in Waiters, WaitCheck(t)
    PROVE  Preserved
<1>1. FutexTypeOK /\ WaiterOK(t)
  BY DEF WakeInv, WaitersInv
<1>2. /\ sleeper[t].pc = "check" /\ sleeper[t].state = "RUNNING"
      /\ UNCHANGED <<hash, val, waker, reap, freed, tally>>
  BY <1>1 DEF WaitCheck, WaiterOK
<1>3. PICK b \in Buckets : b = waiter[t].bucket
  BY <1>2, InsideFacts
<1>4. /\ waiter[t].key \in Words /\ waiter[t].bucket = hash[waiter[t].key]
      /\ lock[b] = t /\ t \in DOMAIN list[b]
      /\ \A c \in Buckets : (t \in DOMAIN list[c] => c = b) /\ (lock[c] = t => c = b)
  BY <1>1, <1>2, <1>3 DEF WaiterOK
<1>5. /\ lock' \in [Buckets -> Waiters \cup {None}] /\ lock'[b] = None
      /\ \A c \in Buckets : c # b => lock'[c] = lock[c]
  <2>1. lock' = [lock EXCEPT ![b] = None]
    BY <1>3 DEF WaitCheck
  <2>2. QED
    BY <1>1, <2>1, LockReplaced
<1>6. \A c \in Buckets : /\ lock'[c] # t
                         /\ \A u \in Waiters \ {t} : lock'[c] = u <=> lock[c] = u
  BY <1>4, <1>5, FutexConstants
<1>7. CASE Return(t, b)
  BY <1>2, <1>3, <1>5, <1>6, <1>7, ReturnStep
<1>8. CASE /\ ~val[waiter[t].key]
           /\ sleeper' = [sleeper EXCEPT ![t].pc = "parked", ![t].state = "BLOCKED"]
           /\ UNCHANGED <<list, waiter>>
  <2>1. SleeperIs(t, "parked", "BLOCKED", sleeper[t].saw)
    BY <1>1, <1>8, SleeperParks
  <2>2. FutexTypeOK'
    BY <1>1, <1>2, <1>5, <1>8, <2>1 DEF FutexTypeOK, SleeperIs
  <2>3. ASSUME NEW u \in Waiters \ {t} PROVE Kept(u)
    <3>1. sleeper'[u] = sleeper[u]
      BY <2>1 DEF SleeperIs
    <3>2. QED
      BY <1>6, <1>8, <3>1 DEF Kept
  <2>4. WaiterOK(t)'
    <3>1. sleeper'[t].pc = "parked" /\ sleeper'[t].state = "BLOCKED"
      BY <2>1 DEF SleeperIs
    <3>2. \A c \in Buckets : t \in DOMAIN list'[c] => waiter'[t].bucket = c
      BY <1>3, <1>4, <1>8
    <3>3. waiter'[t].key \in Words /\ waiter'[t].bucket = hash'[waiter'[t].key]
      BY <1>2, <1>4, <1>8
    <3>4. QED
      BY <1>6, <3>1, <3>2, <3>3 DEF WaiterOK
  <2>5. \A k \in Words : val[k] => t \notin Left(k)'
    BY <1>8 DEF Left
  <2>6. t \in DOMAIN list'[waiter'[t].bucket]
    BY <1>3, <1>4, <1>8
  <2>7. QED
    BY <1>2, <2>2, <2>3, <2>4, <2>5, <2>6, ThreadStep
<1>9. QED
  BY <1>3, <1>7, <1>8 DEF WaitCheck

LEMMA BackLoadStep ==
    ASSUME WakeInv, NEW t \in Waiters, BackLoad(t)
    PROVE  Preserved
<1>1. FutexTypeOK /\ sleeper[t].pc = "parked" /\ sleeper[t].state = "RUNNING"
  BY DEF WakeInv, BackLoad
<1>2. waiter[t].bucket \in Buckets
  BY <1>1, InsideFacts
<1>3. SleeperIs(t, "back", sleeper[t].state, waiter[t].bucket)
  BY <1>1, <1>2, BucketsNat, SleeperBack DEF BackLoad
<1>4. QED
  BY <1>1, <1>2, <1>3, MoveStep DEF SleeperIs, BackLoad

LEMMA BackLockedStep ==
    ASSUME WakeInv, NEW t \in Waiters, BackLocked(t)
    PROVE  Preserved
<1>1. FutexTypeOK /\ sleeper[t].pc = "back" /\ sleeper[t].state = "RUNNING"
  BY DEF WakeInv, BackLocked
<1>2. /\ UNCHANGED <<hash, val, waker, reap, freed, tally>> /\ lock' = lock
  BY DEF BackLocked
<1>3. CASE /\ sleeper' = [sleeper EXCEPT ![t].pc = "parked"] /\ UNCHANGED <<list, waiter>>
  <2>1. "parked" \in SleeperPcs
    BY DEF SleeperPcs
  <2>2. SleeperIs(t, "parked", sleeper[t].state, sleeper[t].saw)
    BY <1>1, <1>3, <2>1, SleeperPc
  <2>3. QED
    BY <1>1, <1>2, <1>3, <2>2, MoveStep DEF SleeperIs
<1>4. CASE /\ futex_lock_waiter(t) /\ t \in DOMAIN list[sleeper[t].saw]
           /\ sleeper' = [sleeper EXCEPT ![t].pc = "parked", ![t].state = "BLOCKED"]
           /\ UNCHANGED <<list, waiter>>
  <2>1. SleeperIs(t, "parked", "BLOCKED", sleeper[t].saw)
    BY <1>1, <1>4, SleeperParks
  <2>2. t \in DOMAIN list[waiter[t].bucket]
    BY <1>4 DEF futex_lock_waiter
  <2>3. QED
    BY <1>1, <1>2, <1>4, <2>1, <2>2, MoveStep DEF SleeperIs
<1>5. CASE futex_lock_waiter(t) /\ Return(t, sleeper[t].saw)
  <2>1. PICK b : b = sleeper[t].saw /\ b = waiter[t].bucket /\ Return(t, b)
    BY <1>5 DEF futex_lock_waiter
  <2>2. \A c \in Buckets : lock'[c] # t
    BY <1>1, <1>2, InsideFacts
  <2>3. lock' \in [Buckets -> Waiters \cup {None}]
    BY <1>1, <1>2 DEF FutexTypeOK
  <2>4. QED
    BY <1>1, <1>2, <2>1, <2>2, <2>3, ReturnStep
<1>6. QED
  BY <1>3, <1>4, <1>5 DEF BackLocked

LEMMA DisturbStep ==
    ASSUME WakeInv, NEW t \in Waiters, Disturb(t)
    PROVE  Preserved
<1>1. FutexTypeOK /\ sleeper[t].pc = "parked" /\ sleeper[t].state = "BLOCKED"
  BY DEF WakeInv, Disturb
<1>2. "RUNNING" \in SleeperStates
  BY DEF SleeperStates
<1>3. SleeperIs(t, sleeper[t].pc, "RUNNING", sleeper[t].saw)
  BY <1>1, <1>2, SleeperState DEF Disturb
<1>4. QED
  BY <1>1, <1>3, MoveStep DEF SleeperIs, Disturb

LEMMA KillStep ==
    ASSUME WakeInv, NEW t \in Waiters, Kill(t)
    PROVE  Preserved
<1>1. FutexTypeOK /\ WaiterOK(t) /\ sleeper[t].pc \in {"parked", "back"}
  BY DEF WakeInv, WaitersInv, Kill
<1>2. "DEAD" \in SleeperStates
  BY DEF SleeperStates
<1>3. SleeperIs(t, sleeper[t].pc, "DEAD", sleeper[t].saw)
  BY <1>1, <1>2, SleeperState DEF Kill
<1>4. sleeper[t].pc = "back" => sleeper[t].saw \in Buckets
  BY <1>1 DEF WaiterOK
<1>5. QED
  BY <1>1, <1>3, <1>4, MoveStep DEF SleeperIs, Kill

-----------------------------------------------------------------------------
(* Wakers *)

LEMMA PlanFacts ==
    ASSUME NEW q \in Seq(Wakes), q # <<>>
    PROVE  /\ Head(q) = q[1] /\ q[1] \in Wakes /\ Tail(q) \in Seq(Wakes)
           /\ q[1].key \in Words /\ q[1].n \in Nat
           /\ Len(q) > 1 => Tail(q) # <<>> /\ q[2] \in Wakes /\ q[2].key \in Words /\ q[2].n \in Nat
<1>1. PICK W : W = Wakes
  OBVIOUS
<1>2. Head(q) = q[1] /\ q[1] \in W /\ Tail(q) \in Seq(W)
      /\ (Len(q) > 1 => Tail(q) # <<>> /\ q[2] \in W)
  <2>1. q \in Seq(W) /\ Len(q) \in Nat /\ Len(q) # 0
    BY SMTT(30), <1>1
  <2>2. Head(q) = q[1] /\ q[1] \in W
    BY SMTT(30), <2>1
  <2>3. Tail(q) \in Seq(W) /\ Len(Tail(q)) = Len(q) - 1
    BY SMTT(30), <2>1
  <2>4. Len(q) > 1 => q[2] \in W
    BY SMTT(30), <2>1
  <2>5. Len(q) > 1 => Tail(q) # <<>>
    <3>1. PICK m \in Nat : m = Len(q)
      BY <2>1
    <3>2. Len(<<>>) = 0
      BY SMTT(30)
    <3>3. m > 1 => m - 1 # 0
      BY SMTT(30)
    <3>4. QED
      BY <2>3, <3>1, <3>2, <3>3
  <2>6. QED
    BY <2>2, <2>3, <2>4, <2>5
<1>3. \A x \in W : x.key \in Words /\ x.n \in Nat
  BY SMTT(30), <1>1 DEF Wakes
<1>4. QED
  BY <1>1, <1>2, <1>3

LEMMA WakerType ==
    ASSUME FutexTypeOK, UNCHANGED <<hash, list, lock, waiter, sleeper, reap, freed>>,
           waker' \in [Wakers -> WakerRecords], val' \in [Words -> BOOLEAN],
           tally' \in [Words -> [asked : Nat, consumed : Nat]]
    PROVE  FutexTypeOK'
BY DEF FutexTypeOK

LEMMA StoreStep ==
    ASSUME WakeInv, NEW w \in Wakers, NEW op \in Calls, StoreWord(w, op)
    PROVE  Preserved
<1>1. FutexTypeOK /\ PlanOK(waker[w]) /\ WordInv
  BY DEF WakeInv, PlansInv
<1>2. waker[w].pc = "idle" /\ waker[w].claims = {}
  BY <1>1 DEF StoreWord, PlanOK
<1>3. PICK k \in Words : k = op.store
  BY FutexConstants
<1>4. /\ op.wakes \in Seq(Wakes) /\ op.wakes # <<>>
      /\ op.move # 0 => ~op.cond /\ Len(op.wakes) > 1
  BY FutexConstants DEF Wakes
<1>5. PICK q : q = IF op.cond /\ val[k] THEN SubSeq(op.wakes, 1, 1) ELSE op.wakes
  OBVIOUS
<1>6. q \in Seq(Wakes) /\ q # <<>> /\ (op.move # 0 => q = op.wakes)
  <2>1. PICK W, s : W = Wakes /\ s = op.wakes
    OBVIOUS
  <2>2. SubSeq(s, 1, 1) \in Seq(W) /\ SubSeq(s, 1, 1) # <<>>
    BY SMTT(30), <1>4, <2>1
  <2>3. QED
    BY <1>4, <1>5, <2>1, <2>2
<1>7. PICK p \in WakerPcs : /\ p = IF op.move = 0 THEN "wake" ELSE "requeue"
  BY DEF WakerPcs
<1>8. /\ val' = [val EXCEPT ![k] = TRUE]
      /\ waker' = [waker EXCEPT ![w].pc = p, ![w].todo = q]
      /\ UNCHANGED <<hash, list, lock, waiter, sleeper, reap, freed, tally>>
  BY <1>3, <1>5, <1>7 DEF StoreWord
<1>9. WakerIs(w, p, q, {})
  BY <1>1, <1>2, <1>6, <1>8, WakerPlans
<1>10. val \in [Words -> BOOLEAN]
  BY <1>1 DEF FutexTypeOK
<1>11. /\ val' \in [Words -> BOOLEAN] /\ val'[k] /\ \A j \in Words : j # k => val'[j] = val[j]
  BY <1>8, <1>10
<1>12. FutexTypeOK'
  <2>1. tally' \in [Words -> [asked : Nat, consumed : Nat]] /\ waker' \in [Wakers -> WakerRecords]
    BY <1>1, <1>8, <1>9 DEF FutexTypeOK, WakerIs
  <2>2. QED
    BY <1>1, <1>8, <1>11, <2>1, WakerType
<1>13. PlanOK(waker[w])'
  <2>1. waker'[w].pc = p /\ waker'[w].todo = q /\ waker'[w].claims = {}
    BY <1>9 DEF WakerIs
  <2>2. CASE op.move = 0
    BY <1>6, <1>7, <2>1, <2>2 DEF PlanOK
  <2>3. CASE op.move # 0
    BY <1>4, <1>6, <1>7, <2>1, <2>3 DEF PlanOK
  <2>4. QED
    BY <2>2, <2>3
<1>14. WordInv'
  <2>1. \A j \in Words : Left(j)' = Left(j)
    BY <1>8 DEF Left
  <2>2. ASSUME ~val[k] PROVE tally[k].consumed = tally[k].asked
    <3>1. tally[k] = [asked |-> 0, consumed |-> 0]
      BY <1>1, <2>2 DEF WordInv
    <3>2. QED
      BY SMTT(30), <3>1
  <2>3. QED
    BY <1>1, <1>8, <1>10, <1>11, <2>1, <2>2 DEF WordInv
<1>15. UpwardRequeues => p # "requeue" \/ hash[q[1].key] <= hash[q[2].key]
  BY <1>1, <1>6, <1>7 DEF UpwardRequeues, FutexTypeOK
<1>16. QED
  BY <1>2, <1>8, <1>9, <1>12, <1>13, <1>14, <1>15, WakerStep

\* The waker goes on to the next key of its call.
LEMMA FollowingStep ==
    ASSUME WakeInv, NEW w \in Wakers, waker[w].pc \in {"wake", "deliver"}, waker[w].claims = {},
           waker' = [waker EXCEPT ![w].pc = Following(w), ![w].todo = Tail(@)],
           UNCHANGED <<hash, val, list, lock, waiter, sleeper, reap, freed>>,
           tally' \in [Words -> [asked : Nat, consumed : Nat]], WordInv'
    PROVE  Preserved
<1>1. FutexTypeOK /\ PlanOK(waker[w])
  BY DEF WakeInv, PlansInv
<1>2. PICK q \in Seq(Wakes) : q = waker[w].todo /\ q # <<>>
  BY <1>1, WakerTypes DEF PlanOK
<1>3. PICK r \in Seq(Wakes) : r = Tail(q) /\ (Len(q) > 1 => r # <<>>)
  BY <1>2, PlanFacts
<1>4. PICK p \in WakerPcs : p = Following(w)
  BY DEF Following, WakerPcs
<1>5. waker' = [waker EXCEPT ![w].pc = p, ![w].todo = r]
  BY <1>2, <1>3, <1>4
<1>6. WakerIs(w, p, r, {})
  <2>1. WakerIs(w, p, r, waker[w].claims)
    BY <1>1, <1>5, WakerPlans
  <2>2. QED
    BY <2>1
<1>7. p \in {"wake", "done"} /\ (p = "wake" => r # <<>>)
  BY <1>2, <1>3, <1>4 DEF Following
<1>8. PlanOK(waker[w])'
  BY <1>6, <1>7 DEF PlanOK, WakerIs
<1>9. FutexTypeOK'
  <2>1. waker' \in [Wakers -> WakerRecords] /\ val' \in [Words -> BOOLEAN]
    BY <1>1, <1>6 DEF FutexTypeOK, WakerIs
  <2>2. QED
    BY <1>1, <2>1, WakerType
<1>10. QED
  BY <1>6, <1>7, <1>8, <1>9, WakerStep

LEMMA SameWord ==
    ASSUME WordInv, UNCHANGED <<hash, val, list, waiter, sleeper, tally>>
    PROVE  WordInv'
<1>1. \A k \in Words : Left(k)' = Left(k)
  BY DEF Left
<1>2. QED
  BY <1>1, WordKept

LEMMA FastStep ==
    ASSUME WakeInv, NEW w \in Wakers, WakeFast(w)
    PROVE  Preserved
<1>1. FutexTypeOK /\ PlanOK(waker[w]) /\ WordInv
  BY DEF WakeInv, PlansInv
<1>2. /\ waker[w].pc = "wake" /\ waker[w].claims = {}
      /\ UNCHANGED <<hash, val, list, lock, waiter, sleeper, reap, freed>>
  BY <1>1 DEF WakeFast, PlanOK
<1>3. PICK q \in Seq(Wakes) : q = waker[w].todo /\ q # <<>>
  BY <1>1, <1>2, WakerTypes DEF PlanOK
<1>4. PICK k \in Words, n \in Nat : k = Head(q).key /\ n = Head(q).n
  BY <1>3, PlanFacts
<1>5. CASE /\ NoWaiters(hash[k]) /\ Counted(k, n, 0)
           /\ waker' = [waker EXCEPT ![w].pc = Following(w), ![w].todo = Tail(@)]
  <2>1. 0 \in Nat
    BY SMTT(30)
  <2>2. /\ tally' \in [Words -> [asked : Nat, consumed : Nat]]
        /\ ~val[k] => tally' = tally
        /\ \A j \in Words : j # k => tally'[j] = tally[j]
    BY <1>1, <1>5, <2>1, TallyStores
  <2>3. \A j \in Words : Left(j)' = Left(j)
    BY <1>2 DEF Left
  <2>4. Left(k) = {}
    BY <1>5 DEF Left, NoWaiters
  <2>5. WordInv'
    BY <1>1, <1>2, <2>2, <2>3, <2>4 DEF WordInv
  <2>6. QED
    BY <1>2, <1>5, <2>2, <2>5, FollowingStep
<1>6. CASE /\ waker' = [waker EXCEPT ![w].pc = "scan"] /\ UNCHANGED tally
  <2>1. WakerIs(w, "scan", q, {})
    <3>1. "scan" \in WakerPcs
      BY DEF WakerPcs
    <3>2. QED
      BY <1>1, <1>2, <1>3, <1>6, <3>1, WakerMoves
  <2>2. PlanOK(waker[w])'
    BY <1>3, <2>1 DEF PlanOK, WakerIs
  <2>3. FutexTypeOK'
    BY <1>1, <1>2, <1>6, <2>1 DEF FutexTypeOK, WakerIs
  <2>4. WordInv'
    BY <1>1, <1>2, <1>6, SameWord
  <2>5. QED
    BY <1>2, <2>1, <2>2, <2>3, <2>4, WakerStep
<1>7. QED
  BY <1>3, <1>4, <1>5, <1>6 DEF WakeFast

LEMMA RefusedStep ==
    ASSUME WakeInv, NEW w \in Wakers, RequeueRefused(w)
    PROVE  Preserved
<1>1. FutexTypeOK /\ PlanOK(waker[w]) /\ WordInv
  BY DEF WakeInv, PlansInv
<1>2. /\ waker[w].pc = "requeue" /\ waker[w].claims = {}
      /\ UNCHANGED <<hash, val, list, lock, waiter, sleeper, reap, freed, tally>>
  BY <1>1 DEF RequeueRefused, PlanOK
<1>3. PICK q \in Seq(Wakes) : q = <<>>
  <2>1. PICK W : W = Wakes
    OBVIOUS
  <2>2. <<>> \in Seq(W)
    BY SMTT(30)
  <2>3. QED
    BY <2>1, <2>2
<1>4. WakerIs(w, "done", q, {})
  <2>1. "done" \in WakerPcs
    BY DEF WakerPcs
  <2>2. waker' = [waker EXCEPT ![w].pc = "done", ![w].todo = q]
    BY <1>3 DEF RequeueRefused
  <2>3. QED
    BY <1>1, <1>2, <2>1, <2>2, WakerPlans
<1>5. PlanOK(waker[w])'
  BY <1>4 DEF PlanOK, WakerIs
<1>6. FutexTypeOK'
  BY <1>1, <1>2, <1>4 DEF FutexTypeOK, WakerIs
<1>7. WordInv'
  BY <1>1, <1>2, SameWord
<1>8. QED
  BY <1>2, <1>4, <1>5, <1>6, <1>7, WakerStep

LEMMA DeliveredStep ==
    ASSUME WakeInv, NEW w \in Wakers, Delivered(w)
    PROVE  Preserved
<1>1. FutexTypeOK /\ WordInv
  BY DEF WakeInv
<1>2. tally' \in [Words -> [asked : Nat, consumed : Nat]]
  BY <1>1 DEF FutexTypeOK, Delivered
<1>3. WordInv'
  BY <1>1, SameWord DEF Delivered
<1>4. QED
  BY <1>2, <1>3, FollowingStep DEF Delivered

LEMMA DeliverStep ==
    ASSUME WakeInv, NEW w \in Wakers, NEW t \in Waiters, Deliver(w, t)
    PROVE  Preserved
<1>1. FutexTypeOK /\ PlansInv /\ WaitersInv /\ WordInv /\ ParkedInv /\ VictimInv
  BY DEF WakeInv
<1>2. /\ waker[w].pc = "deliver"
      /\ waker' = [waker EXCEPT ![w].claims = @ \ {t}]
      /\ UNCHANGED <<hash, val, list, lock, waiter, reap, freed, tally>>
  BY DEF Deliver
<1>3. WakerIs(w, waker[w].pc, waker[w].todo, waker[w].claims \ {t})
  <2>1. PICK S : S = Seq(Wakes)
    OBVIOUS
  <2>2. waker \in [Wakers -> WakersOf(S)] /\ WakersOf(S) = WakerRecords
    BY <1>1, <2>1, WakerTypes
  <2>3. /\ waker' \in [Wakers -> WakersOf(S)] /\ \A v \in Wakers : v # w => waker'[v] = waker[v]
        /\ waker'[w].pc = waker[w].pc /\ waker'[w].todo = waker[w].todo
        /\ waker'[w].claims = waker[w].claims \ {t}
    BY SMTT(30), <1>2, <2>2 DEF WakersOf
  <2>4. QED
    BY <2>2, <2>3 DEF WakerIs
<1>4. PICK s \in SleeperStates : s = IF sleeper[t].state = "BLOCKED" THEN "RUNNING" ELSE sleeper[t].state
  BY <1>1, SleeperFields DEF SleeperStates
<1>5. SleeperIs(t, sleeper[t].pc, s, sleeper[t].saw)
  <2>1. sleeper' = [sleeper EXCEPT ![t].state = s]
    BY <1>4 DEF Deliver
  <2>2. QED
    BY <1>1, <2>1, SleeperState
<1>6. /\ \A u \in Waiters : sleeper'[u].pc = sleeper[u].pc /\ sleeper'[u].saw = sleeper[u].saw
      /\ \A u \in Waiters : sleeper[u].state # "BLOCKED" => sleeper'[u].state = sleeper[u].state
      /\ sleeper'[t].state # "BLOCKED"
  BY <1>4, <1>5 DEF SleeperIs
<1>7. FutexTypeOK'
  BY <1>1, <1>2, <1>3, <1>5 DEF FutexTypeOK, WakerIs, SleeperIs
<1>8. PlansInv'
  BY <1>1, <1>2, <1>3 DEF PlansInv, PlanOK, WakerIs
<1>9. WaitersInv'
  <2>1. ASSUME NEW u \in Waiters PROVE WaiterOK(u)'
    <3>1. WaiterOK(u)
      BY <1>1 DEF WaitersInv
    <3>2. QED
      BY <1>2, <1>6, <3>1 DEF WaiterOK
  <2>2. QED
    BY <2>1 DEF WaitersInv
<1>10. WordInv'
  <2>1. \A k \in Words : Left(k)' = Left(k)
    BY <1>2, <1>6 DEF Left
  <2>2. QED
    BY <1>1, <1>2, <2>1, WordKept
<1>11. ParkedInv'
  <2>1. ASSUME NEW u \in Waiters, u # t, WakeComing(u) PROVE WakeComing(u)'
    <3>1. PICK v \in Wakers : /\ waker[v].pc = "deliver" /\ u \in waker[v].claims
                              /\ waker[v].todo[1].key = waiter[u].key
      BY <2>1 DEF WakeComing
    <3>2. waker'[v].pc = "deliver" /\ u \in waker'[v].claims /\ waker'[v].todo = waker[v].todo
      BY <1>3, <2>1, <3>1 DEF WakerIs
    <3>3. QED
      BY <1>2, <3>1, <3>2 DEF WakeComing
  <2>2. QED
    BY <1>1, <1>2, <1>5, <1>6, <2>1 DEF ParkedInv, SleeperIs
<1>12. VictimInv'
  <2>1. reap.victim \in Waiters \cup {None}
    BY SMTT(30), <1>1 DEF FutexTypeOK
  <2>2. QED
    BY <1>1, <1>2, <1>6, <2>1 DEF VictimInv
<1>13. ASSUME ReapInv, UpwardInv PROVE ReapInv' /\ UpwardInv'
  <2>1. ReapInv'
    BY <1>1, <1>2, <1>3, <1>6, <1>13, DeadKept DEF WakerIs
  <2>2. UpwardInv'
    BY <1>2, <1>3, <1>13 DEF UpwardInv, WakerIs
  <2>3. QED
    BY <2>1, <2>2
<1>14. QED
  BY <1>7, <1>8, <1>9, <1>10, <1>11, <1>12, <1>13 DEF WakeInv, Preserved

-----------------------------------------------------------------------------
(* Waiters are claimed, and moved *)

\* n waiters of k are asked for, those of taken are unlinked, and those of
\* moved are appended to the bucket of another key.
Takes(k, n, taken, moved, to) ==
    /\ lock[hash[k]] = None
    /\ taken \subseteq DOMAIN Matching(k) /\ moved \subseteq DOMAIN Matching(k) \ taken
    /\ Cardinality(taken) \in Nat /\ (Cardinality(taken) = n \/ taken = DOMAIN Matching(k))
    /\ \A u \in Waiters : \A c \in Buckets :
         /\ u \in moved => (u \in DOMAIN list'[c] <=> c = hash[to])
         /\ u \notin moved => (u \in DOMAIN list'[c] <=> u \in DOMAIN list[c] /\ u \notin taken)
    /\ \A u \in moved : waiter'[u].key = to /\ waiter'[u].moved /\ waiter'[u].bucket = hash[to]
    /\ \A u \in Waiters \ moved : waiter'[u] = waiter[u]

LEMMA MatchingFacts ==
    \A k : DOMAIN Matching(k) = {t \in DOMAIN list[hash[k]] : waiter[t].key = k}
<1> SUFFICES ASSUME NEW k
             PROVE  DOMAIN Matching(k) = {t \in DOMAIN list[hash[k]] : waiter[t].key = k}
  OBVIOUS
<1>1. PICK l, S : l = list[hash[k]] /\ S = {t \in DOMAIN l : waiter[t].key # k}
  OBVIOUS
<1>2. Matching(k) = Without(l, S)
  BY <1>1 DEF Matching
<1>3. DOMAIN Without(l, S) = DOMAIN l \ S
  BY WithoutDomain
<1>4. DOMAIN l \ S = {t \in DOMAIN l : waiter[t].key = k}
  BY <1>1
<1>5. QED
  BY <1>1, <1>2, <1>3, <1>4

LEMMA MatchingWaits ==
    ASSUME WakeInv, NEW k \in Words, NEW u \in DOMAIN Matching(k)
    PROVE  /\ u \in Waiters /\ u \in DOMAIN list[hash[k]] /\ waiter[u].key = k
           /\ waiter[u].bucket = hash[k] /\ sleeper[u].pc # "user"
           /\ lock[hash[k]] = None => sleeper[u].pc # "check"
<1>1. FutexTypeOK /\ u \in DOMAIN list[hash[k]] /\ waiter[u].key = k
  BY MatchingFacts DEF WakeInv
<1>2. u \in Waiters /\ hash[k] \in Buckets /\ u # None
  BY <1>1, FutexConstants DEF FutexTypeOK
<1>3. WaiterOK(u)
  BY <1>2 DEF WakeInv, WaitersInv
<1>4. QED
  BY <1>1, <1>2, <1>3 DEF WaiterOK

LEMMA TakeStep ==
    ASSUME WakeInv, NEW w \in Wakers, NEW q, NEW k \in Words, NEW n \in Nat, NEW to \in Words,
           NEW taken, NEW moved, Takes(k, n, taken, moved, to),
           WakerIs(w, "deliver", q, taken), q # <<>>, q[1].key = k, waker[w].pc # "deliver",
           Counted(k, n, Cardinality(taken)), UNCHANGED <<hash, val, lock, sleeper, reap, freed>>,
           FutexTypeOK', UpwardInv => moved = {} \/ hash[k] <= hash[to]
    PROVE  Preserved
<1>1. FutexTypeOK /\ PlansInv /\ WaitersInv /\ WordInv /\ ParkedInv /\ VictimInv
  BY DEF WakeInv
<1>2. /\ \A v \in Wakers : v # w => waker'[v] = waker[v]
      /\ waker'[w].pc = "deliver" /\ waker'[w].todo = q /\ waker'[w].claims = taken
  BY DEF WakerIs
<1>3. /\ taken \subseteq DOMAIN Matching(k) /\ moved \subseteq DOMAIN Matching(k) \ taken
      /\ Cardinality(taken) = n \/ taken = DOMAIN Matching(k)
      /\ lock[hash[k]] = None
  BY DEF Takes
<1>4. /\ \A u \in Waiters : \A c \in Buckets :
           /\ u \in moved => (u \in DOMAIN list'[c] <=> c = hash[to])
           /\ u \notin moved => (u \in DOMAIN list'[c] <=> u \in DOMAIN list[c] /\ u \notin taken)
      /\ \A u \in moved : waiter'[u].key = to /\ waiter'[u].moved /\ waiter'[u].bucket = hash[to]
      /\ \A u \in Waiters \ moved : waiter'[u] = waiter[u]
  BY DEF Takes
<1>5. ASSUME NEW u \in taken \cup moved
      PROVE  /\ u \in Waiters /\ u \in DOMAIN list[hash[k]] /\ waiter[u].key = k
             /\ waiter[u].bucket = hash[k] /\ sleeper[u].pc \notin {"user", "check"}
  <2>1. u \in DOMAIN Matching(k)
    BY <1>3
  <2>2. /\ u \in Waiters /\ u \in DOMAIN list[hash[k]] /\ waiter[u].key = k
        /\ waiter[u].bucket = hash[k] /\ sleeper[u].pc # "user"
        /\ lock[hash[k]] = None => sleeper[u].pc # "check"
    BY <2>1, MatchingWaits
  <2>3. QED
    BY <1>3, <2>2
<1>6. hash[k] \in Buckets /\ hash[to] \in Buckets /\ hash[k] \in Nat /\ hash[to] \in Nat
  BY <1>1, BucketsNat DEF FutexTypeOK
<1>7. PlansInv'
  BY <1>1, <1>2 DEF PlansInv, PlanOK
<1>8. ASSUME NEW u \in Waiters, sleeper[u].pc # "user" PROVE waiter[u].bucket \in Buckets
  BY <1>8, InsideFacts
<1>9. WaitersInv'
  <2>1. ASSUME NEW u \in moved PROVE WaiterOK(u)'
    <3>1. u \in Waiters /\ sleeper'[u].pc \notin {"user", "check"} /\ WaiterOK(u)
      BY <1>1, <1>5 DEF WaitersInv
    <3>2. waiter'[u].key = to /\ waiter'[u].bucket = hash'[to]
      BY <1>4
    <3>3. \A c \in Buckets : u \in DOMAIN list'[c] => waiter'[u].bucket = c
      BY <1>4, <3>1
    <3>4. (sleeper'[u].pc = "back" => sleeper'[u].saw \in Buckets) /\ \A c \in Buckets : lock'[c] # u
      BY <3>1 DEF WaiterOK
    <3>5. QED
      BY <3>1, <3>2, <3>3, <3>4 DEF WaiterOK
  <2>2. ASSUME NEW u \in Waiters \ moved PROVE WaiterOK(u)'
    <3>1. WaiterOK(u) /\ waiter'[u] = waiter[u]
      BY <1>1, <1>4 DEF WaitersInv
    <3>2. \A c \in Buckets : u \in DOMAIN list'[c] => u \in DOMAIN list[c]
      BY <1>4
    <3>3. sleeper[u].pc = "check" => u \in DOMAIN list'[waiter[u].bucket]
      <4>1. ASSUME sleeper[u].pc = "check" PROVE u \notin taken
        BY <1>5, <4>1
      <4>2. sleeper[u].pc = "check" => u \in DOMAIN list[waiter[u].bucket]
        BY <3>1 DEF WaiterOK
      <4>3. QED
        BY <1>4, <1>8, <4>1, <4>2
    <3>4. /\ sleeper'[u].pc = "check" =>
               /\ lock'[waiter'[u].bucket] = u /\ u \in DOMAIN list'[waiter'[u].bucket]
               /\ sleeper'[u].state = "RUNNING" /\ ~waiter'[u].moved
          /\ sleeper'[u].pc = "user" => sleeper'[u].state = "RUNNING"
          /\ sleeper'[u].pc # "user" => /\ waiter'[u].key \in Words
                                        /\ waiter'[u].bucket = hash'[waiter'[u].key]
          /\ sleeper'[u].pc = "back" => sleeper'[u].saw \in Buckets
      BY <3>1, <3>3 DEF WaiterOK
    <3>5. ASSUME NEW c \in Buckets
          PROVE  /\ u \in DOMAIN list'[c] => sleeper'[u].pc # "user" /\ waiter'[u].bucket = c
                 /\ lock'[c] = u => sleeper'[u].pc = "check" /\ waiter'[u].bucket = c
      BY <3>1, <3>2 DEF WaiterOK
    <3>6. QED
      BY <3>4, <3>5 DEF WaiterOK
  <2>3. QED
    BY <2>1, <2>2 DEF WaitersInv
<1>10. WordInv'
  <2>1. Cardinality(taken) \in Nat
    BY DEF Takes
  <2>2. /\ ~val[k] => tally' = tally
        /\ val[k] => /\ tally'[k].asked = tally[k].asked + n
                     /\ tally'[k].consumed = tally[k].consumed + Cardinality(taken)
        /\ \A j \in Words : j # k => tally'[j] = tally[j]
    <3>1. PICK m \in Nat : m = Cardinality(taken)
      BY <2>1
    <3>2. QED
      BY <1>1, <3>1, TallyStores
  <2>3. ASSUME NEW j \in Words, NEW u \in Left(j)' PROVE u \in Left(j) /\ u \notin taken
    <3>1. u \in Waiters /\ u \in DOMAIN list'[hash[j]] /\ ~waiter'[u].moved /\ hash[j] \in Buckets
      BY <1>1 DEF Left, FutexTypeOK
    <3>2. u \notin moved
      BY <1>4, <3>1
    <3>3. u \in DOMAIN list[hash[j]] /\ u \notin taken /\ waiter'[u] = waiter[u]
      BY <1>4, <3>1, <3>2
    <3>4. QED
      BY <3>1, <3>3 DEF Left
  <2>4. ASSUME NEW j \in Words, ~val[j] PROVE tally'[j] = [asked |-> 0, consumed |-> 0]
    BY <1>1, <2>2, <2>4 DEF WordInv
  <2>5. ASSUME NEW j \in Words, val[j], j # k
        PROVE  tally'[j].consumed = tally'[j].asked \/ Left(j)' = {}
    BY <1>1, <2>2, <2>3, <2>5 DEF WordInv
  <2>6. ASSUME val[k] PROVE tally'[k].consumed = tally'[k].asked \/ Left(k)' = {}
    <3>1. CASE Left(k) = {}
      BY <2>3, <3>1
    <3>2. CASE tally[k].consumed = tally[k].asked /\ Cardinality(taken) = n
      BY <2>2, <2>6, <3>2
    <3>3. CASE taken = DOMAIN Matching(k)
      <4>1. ASSUME NEW u \in Left(k)' PROVE FALSE
        <5>1. u \in Left(k) /\ u \notin taken
          BY <2>3
        <5>2. QED
          BY <3>3, <5>1, MatchingFacts DEF Left
      <4>2. QED
        BY <4>1
    <3>4. QED
      BY <1>1, <1>3, <2>6, <3>1, <3>2, <3>3 DEF WordInv
  <2>7. QED
    BY <2>4, <2>5, <2>6 DEF WordInv
<1>11. ParkedInv'
  <2>1. ASSUME NEW u \in Waiters, sleeper[u].pc = "parked", sleeper[u].state = "BLOCKED"
        PROVE  u \in DOMAIN list'[waiter'[u].bucket] \/ WakeComing(u)'
    <3>1. CASE u \in moved
      BY <1>4, <1>6, <3>1
    <3>2. CASE u \in taken
      <4>1. waiter'[u].key = k
        BY <1>3, <1>4, <1>5, <3>2
      <4>2. QED
        BY <1>2, <3>2, <4>1 DEF WakeComing
    <3>3. CASE u \notin moved /\ u \notin taken
      <4>1. waiter'[u] = waiter[u] /\ waiter[u].bucket \in Buckets
        BY <1>4, <1>8, <2>1, <3>3
      <4>2. u \in DOMAIN list[waiter[u].bucket] \/ WakeComing(u)
        BY <1>1, <2>1 DEF ParkedInv
      <4>3. WakeComing(u) => WakeComing(u)'
        BY <1>2, <4>1 DEF WakeComing
      <4>4. QED
        BY <1>4, <3>3, <4>1, <4>2, <4>3
    <3>4. QED
      BY <3>1, <3>2, <3>3
  <2>2. QED
    BY <2>1 DEF ParkedInv
<1>12. VictimInv'
  BY <1>1 DEF VictimInv
<1>13. ASSUME ReapInv, UpwardInv PROVE ReapInv' /\ UpwardInv'
  <2>1. ASSUME NEW t \in freed PROVE sleeper'[t].state = "DEAD" /\ ~Queued(t)' /\ ~Claimed(t)'
    <3>1. sleeper[t].state = "DEAD" /\ ~Queued(t) /\ ~Claimed(t) /\ t \in Waiters
      BY <1>1, <1>13 DEF ReapInv, FutexTypeOK
    <3>2. t \notin taken /\ t \notin moved
      BY <1>5, <1>6, <3>1 DEF Queued
    <3>3. ~Queued(t)'
      BY <1>4, <3>1, <3>2 DEF Queued
    <3>4. ~Claimed(t)'
      BY <1>2, <3>1, <3>2 DEF Claimed
    <3>5. QED
      BY <3>1, <3>3, <3>4
  <2>2. ASSUME reap.victim # None, NEW c \in Buckets, c < reap.bucket
        PROVE  reap.victim \notin DOMAIN list'[c]
    <3>1. PICK v \in Waiters, r \in Nat : v = reap.victim /\ r = reap.bucket
      <4>1. reap.victim \in Waiters \cup {None} /\ reap.bucket \in Nat
        BY <1>1, ReapTypes
      <4>2. QED
        BY <2>2, <4>1
    <3>2. \A x \in Buckets : x < r => v \notin DOMAIN list[x]
      BY <1>13, <2>2, <3>1 DEF ReapInv
    <3>3. CASE v \in moved
      <4>1. c = hash[to] => hash[k] < r
        <5>1. hash[k] <= hash[to]
          BY <1>13, <3>3
        <5>2. c < r
          BY <2>2, <3>1
        <5>3. PICK x \in Nat, y \in Nat : x = hash[k] /\ y = hash[to]
          BY <1>6
        <5>4. x <= y /\ y < r => x < r
          BY BelowBound
        <5>5. QED
          BY <5>1, <5>2, <5>3, <5>4
      <4>2. v \in DOMAIN list[hash[k]]
        BY <1>5, <3>3
      <4>3. QED
        BY <1>4, <1>6, <3>1, <3>2, <3>3, <4>1, <4>2
    <3>4. CASE v \notin moved
      BY <1>4, <2>2, <3>1, <3>2, <3>4
    <3>5. QED
      BY <3>3, <3>4
  <2>3. ReapInv'
    BY <1>13, <2>1, <2>2 DEF ReapInv
  <2>4. UpwardInv'
    BY <1>2, <1>13 DEF UpwardInv
  <2>5. QED
    BY <2>3, <2>4
<1>14. QED
  BY <1>7, <1>9, <1>10, <1>11, <1>12, <1>13 DEF WakeInv, Preserved

LEMMA ScanStep ==
    ASSUME WakeInv, NEW w \in Wakers, WakeScan(w)
    PROVE  Preserved
<1>1. FutexTypeOK /\ PlanOK(waker[w])
  BY DEF WakeInv, PlansInv
<1>2. /\ waker[w].pc = "scan" /\ UNCHANGED <<hash, val, lock, waiter, sleeper, reap, freed>>
  BY DEF WakeScan
<1>3. PICK q \in Seq(Wakes) : q = waker[w].todo /\ q # <<>>
  BY <1>1, <1>2, WakerTypes DEF PlanOK
<1>4. PICK k \in Words, n \in Nat : k = Head(q).key /\ n = Head(q).n /\ q[1].key = k
  BY <1>3, PlanFacts
<1>5. PICK taken \in Fronts(Matching(k), n) :
        /\ list' = [list EXCEPT ![hash[k]] = Without(@, taken)]
        /\ waker' = [waker EXCEPT ![w].pc = "deliver", ![w].claims = taken]
        /\ Counted(k, n, Cardinality(taken)) /\ lock[hash[k]] = None
  BY <1>3, <1>4 DEF WakeScan
<1>6. /\ taken \subseteq DOMAIN Matching(k) /\ Cardinality(taken) \in Nat
      /\ Cardinality(taken) = n \/ taken = DOMAIN Matching(k)
  BY FrontFacts
<1>7. ASSUME NEW u \in taken
      PROVE  u \in Waiters /\ u \in DOMAIN list[hash[k]] /\ waiter[u].bucket = hash[k]
  BY <1>6, MatchingWaits
<1>8. PICK b \in Buckets : b = hash[k]
  BY <1>1 DEF FutexTypeOK
<1>9. /\ DOMAIN list' = Buckets /\ DOMAIN list'[b] = DOMAIN list[b] \ taken
      /\ \A c \in Buckets : c # b => list'[c] = list[c]
      /\ \A c \in Buckets : DOMAIN list'[c] \subseteq Waiters
  <2>1. PICK l : l = Without(list[b], taken)
    OBVIOUS
  <2>2. DOMAIN l = DOMAIN list[b] \ taken
    BY <2>1, WithoutDomain
  <2>3. DOMAIN l \subseteq Waiters
    BY <1>1, <2>2 DEF FutexTypeOK
  <2>4. list' = [list EXCEPT ![b] = l]
    BY <1>1, <1>5, <1>8, <2>1 DEF FutexTypeOK
  <2>5. QED
    BY <1>1, <2>2, <2>3, <2>4, ListReplaced
<1>10. WakerIs(w, "deliver", q, taken)
  <2>1. "deliver" \in WakerPcs /\ taken \in SUBSET Waiters
    BY <1>7 DEF WakerPcs
  <2>2. QED
    BY <1>1, <1>3, <1>5, <2>1, WakerClaims
<1>11. FutexTypeOK'
  <2>1. tally' \in [Words -> [asked : Nat, consumed : Nat]]
    <3>1. PICK m \in Nat : m = Cardinality(taken)
      BY <1>6
    <3>2. QED
      BY <1>1, <1>5, <3>1, TallyStores
  <2>2. QED
    BY <1>1, <1>2, <1>9, <1>10, <2>1 DEF FutexTypeOK, WakerIs
<1>12. ASSUME NEW u \in Waiters, NEW c \in Buckets
       PROVE  u \in DOMAIN list'[c] <=> u \in DOMAIN list[c] /\ u \notin taken
  <2>1. WaiterOK(u)
    BY DEF WakeInv, WaitersInv
  <2>2. u \in taken /\ u \in DOMAIN list[c] => c = b
    BY <1>7, <1>8, <2>1 DEF WaiterOK
  <2>3. QED
    BY <1>9, <2>2
<1>13. Takes(k, n, taken, {}, k)
  BY <1>2, <1>5, <1>6, <1>12 DEF Takes
<1>14. QED
  BY <1>2, <1>3, <1>4, <1>5, <1>10, <1>11, <1>13, TakeStep

LEMMA RequeueStep ==
    ASSUME WakeInv, NEW w \in Wakers, Requeue(w)
    PROVE  Preserved
<1>1. FutexTypeOK /\ PlanOK(waker[w])
  BY DEF WakeInv, PlansInv
<1>2. /\ waker[w].pc = "requeue" /\ UNCHANGED <<hash, val, lock, sleeper, reap, freed>>
  BY DEF Requeue
<1> DEFINE q == waker[w].todo
           k == q[1].key
           n == q[1].n
           to == q[2].key
           m == q[2].n
           all == Matching(k)
           b1 == hash[k]
           b2 == hash[to]
<1>3. q \in Seq(Wakes) /\ Len(q) > 1 /\ q # <<>>
  <2>1. q \in Seq(Wakes) /\ Len(q) > 1
    BY <1>1, <1>2, WakerTypes DEF PlanOK
  <2>2. q # <<>>
    <3>1. PICK W : W = Wakes
      OBVIOUS
    <3>2. QED
      BY SMTT(30), <2>1, <3>1
  <2>3. QED
    BY <2>1, <2>2
<1>4. k \in Words /\ n \in Nat /\ to \in Words /\ m \in Nat /\ q[1].key = k
  <2> HIDE DEF q
  <2>1. QED
    BY <1>3, PlanFacts
<1>5. all = Matching(k) /\ b1 = hash[k] /\ b2 = hash[to] /\ q = waker[w].todo
  OBVIOUS
<1>6. PICK taken \in Fronts(all, n) : \E moved \in Fronts(Without(all, taken), m) :
        /\ list' = [[b \in Buckets |-> Without(list[b], taken \cup moved)]
                      EXCEPT ![b2] = Joined(@, Without(all, DOMAIN all \ moved))]
        /\ waiter' = [t \in Waiters |-> IF t \in moved
                                        THEN [key |-> to, moved |-> TRUE, bucket |-> b2]
                                        ELSE waiter[t]]
        /\ waker' = [waker EXCEPT ![w].pc = "deliver", ![w].claims = taken, ![w].todo = <<q[1]>>]
        /\ Counted(k, n, Cardinality(taken))
  BY DEF Requeue
<1>7. lock[hash[k]] = None
  BY DEF Requeue
<1>8. UpwardInv => hash[k] <= hash[to]
  BY <1>2 DEF UpwardInv
<1> HIDE DEF q, k, n, to, m, all, b1, b2
<1>9. PICK moved \in Fronts(Without(all, taken), m) :
        /\ list' = [[b \in Buckets |-> Without(list[b], taken \cup moved)]
                      EXCEPT ![b2] = Joined(@, Without(all, DOMAIN all \ moved))]
        /\ waiter' = [t \in Waiters |-> IF t \in moved
                                        THEN [key |-> to, moved |-> TRUE, bucket |-> b2]
                                        ELSE waiter[t]]
        /\ waker' = [waker EXCEPT ![w].pc = "deliver", ![w].claims = taken, ![w].todo = <<q[1]>>]
        /\ Counted(k, n, Cardinality(taken))
  BY <1>6
<1>10. /\ taken \subseteq DOMAIN Matching(k) /\ Cardinality(taken) \in Nat
       /\ Cardinality(taken) = n \/ taken = DOMAIN Matching(k)
  BY <1>4, <1>5, FrontFacts
<1>11. moved \subseteq DOMAIN Matching(k) \ taken
  <2>1. moved \subseteq DOMAIN Without(all, taken)
    BY <1>4, FrontFacts
  <2>2. QED
    BY <1>5, <2>1, WithoutDomain
<1>12. ASSUME NEW u \in taken \cup moved
       PROVE  u \in Waiters /\ u \in DOMAIN list[b1] /\ waiter[u].bucket = b1
  <2>1. u \in DOMAIN Matching(k)
    BY <1>10, <1>11
  <2>2. /\ u \in Waiters /\ u \in DOMAIN list[hash[k]] /\ waiter[u].bucket = hash[k]
    <3>1. PICK j \in Words : j = k
      BY <1>4
    <3>2. u \in DOMAIN Matching(j)
      BY <2>1, <3>1
    <3>3. u \in Waiters /\ u \in DOMAIN list[hash[j]] /\ waiter[u].bucket = hash[j]
      BY <3>2, MatchingWaits
    <3>4. QED
      BY <3>1, <3>3
  <2>3. QED
    BY <1>5, <2>2
<1>13. b1 \in Buckets /\ b2 \in Buckets
  BY <1>1, <1>4, <1>5 DEF FutexTypeOK
<1>14. /\ DOMAIN list' = Buckets
       /\ DOMAIN list'[b2] = (DOMAIN list[b2] \ (taken \cup moved)) \cup moved
       /\ \A c \in Buckets : c # b2 => DOMAIN list'[c] = DOMAIN list[c] \ (taken \cup moved)
  <2>1. PICK stay : stay = [b \in Buckets |-> Without(list[b], taken \cup moved)]
    OBVIOUS
  <2>2. PICK g : g = Without(all, DOMAIN all \ moved)
    OBVIOUS
  <2>3. DOMAIN g = moved
    <3>1. DOMAIN g = DOMAIN all \ (DOMAIN all \ moved)
      BY <2>2, WithoutDomain
    <3>2. QED
      BY <1>5, <1>11, <3>1
  <2>4. list' = [stay EXCEPT ![b2] = Joined(stay[b2], g)]
    BY <1>9, <2>1, <2>2
  <2>5. DOMAIN stay = Buckets
    BY <2>1
  <2>6. \A c \in Buckets : DOMAIN stay[c] = DOMAIN list[c] \ (taken \cup moved)
    BY <2>1, WithoutDomain
  <2>7. /\ DOMAIN list' = Buckets /\ list'[b2] = Joined(stay[b2], g)
        /\ \A c \in Buckets : c # b2 => list'[c] = stay[c]
    BY <1>13, <2>4, <2>5
  <2>8. DOMAIN list'[b2] = DOMAIN stay[b2] \cup DOMAIN g
    BY <2>7, JoinedDomain
  <2>9. QED
    BY <1>13, <2>3, <2>6, <2>7, <2>8
<1>15. /\ \A u \in moved : waiter'[u].key = to /\ waiter'[u].moved /\ waiter'[u].bucket = b2
       /\ \A u \in Waiters \ moved : waiter'[u] = waiter[u]
       /\ waiter' \in [Waiters -> WaiterRecords]
  <2>1. PICK yes \in BOOLEAN : yes = TRUE
    OBVIOUS
  <2>2. PICK r : r = [key |-> to, moved |-> yes, bucket |-> b2]
    OBVIOUS
  <2>3. r \in WaiterRecords /\ r.key = to /\ r.moved = yes /\ r.bucket = b2
    <3>1. b2 \in Nat
      BY <1>13, BucketsNat
    <3>2. QED
      BY SMTT(30), <1>4, <2>2, <3>1 DEF WaiterRecords
  <2>4. waiter' = [t \in Waiters |-> IF t \in moved THEN r ELSE waiter[t]]
    BY <1>9, <2>1, <2>2
  <2>5. waiter \in [Waiters -> WaiterRecords]
    BY <1>1 DEF FutexTypeOK
  <2>6. /\ \A u \in Waiters : waiter'[u] = IF u \in moved THEN r ELSE waiter[u]
        /\ waiter' \in [Waiters -> WaiterRecords]
    BY <2>3, <2>4, <2>5
  <2>7. \A u \in moved : waiter'[u] = r
    BY <1>12, <2>6
  <2>8. QED
    BY <2>1, <2>3, <2>6, <2>7
<1>16. WakerIs(w, "deliver", <<q[1]>>, taken) /\ <<q[1]>> # <<>> /\ <<q[1]>>[1].key = k
  <2>1. "deliver" \in WakerPcs /\ taken \in SUBSET Waiters
    BY <1>12 DEF WakerPcs
  <2>2. q[1] \in Wakes
    BY <1>3, PlanFacts
  <2>3. PICK p : p = <<q[1]>>
    OBVIOUS
  <2>4. p \in Seq(Wakes) /\ p # <<>> /\ p[1] = q[1]
    <3>1. PICK W, x : W = Wakes /\ x = q[1]
      OBVIOUS
    <3>2. p \in Seq(W) /\ p # <<>> /\ p[1] = x
      BY SMTT(30), <2>2, <2>3, <3>1
    <3>3. QED
      BY <3>1, <3>2
  <2>5. WakerIs(w, "deliver", p, taken)
    BY <1>1, <1>9, <2>1, <2>3, <2>4, WakerRequeues
  <2>6. QED
    BY <1>4, <2>3, <2>4, <2>5
<1>17. FutexTypeOK'
  <2>1. PICK x \in Nat : x = Cardinality(taken)
    BY <1>10
  <2>2. tally' \in [Words -> [asked : Nat, consumed : Nat]]
    BY <1>1, <1>4, <1>9, <2>1, TallyStores
  <2>3. ASSUME NEW c \in Buckets PROVE DOMAIN list'[c] \subseteq Waiters
    <3>1. DOMAIN list[c] \subseteq Waiters /\ moved \subseteq Waiters
      BY <1>1, <1>12 DEF FutexTypeOK
    <3>2. DOMAIN list'[c] \subseteq DOMAIN list[c] \cup moved
      BY <1>14
    <3>3. QED
      BY <3>1, <3>2
  <2>4. QED
    BY <1>1, <1>2, <1>14, <1>15, <1>16, <2>2, <2>3 DEF FutexTypeOK, WakerIs
<1>18. ASSUME NEW u \in Waiters, NEW c \in Buckets
       PROVE  /\ u \in moved => (u \in DOMAIN list'[c] <=> c = b2)
              /\ u \notin moved => (u \in DOMAIN list'[c] <=> u \in DOMAIN list[c] /\ u \notin taken)
  BY <1>14
<1>19. Takes(k, n, taken, moved, to)
  BY <1>5, <1>7, <1>10, <1>11, <1>15, <1>18 DEF Takes
<1>20. QED
  BY <1>2, <1>4, <1>8, <1>9, <1>16, <1>17, <1>19, TakeStep

-----------------------------------------------------------------------------
(* The reaper *)

LEMMA ReapRecords ==
    \A v \in Waiters \cup {None} : \A b \in Nat :
        LET r == [victim |-> v, bucket |-> b]
        IN r \in [victim : Waiters \cup {None}, bucket : Nat] /\ r.victim = v /\ r.bucket = b
BY SMTT(30)

LEMMA BucketsCounted ==
    HashSize \in Nat /\ \A b : b \in Buckets <=> b \in Nat /\ b < HashSize
BY SMTT(30), FutexConstants DEF Buckets

\* Only the reaper's own state changes.
LEMMA OnlyReaps ==
    ASSUME WakeInv, UNCHANGED <<hash, val, list, lock, waiter, sleeper, waker, tally>>,
           FutexTypeOK', VictimInv'
    PROVE  WakeInv' /\ (UpwardInv => UpwardInv')
<1>1. FutexTypeOK /\ PlansInv /\ WaitersInv /\ WordInv /\ ParkedInv
  BY DEF WakeInv
<1>2. PlansInv'
  BY <1>1 DEF PlansInv, PlanOK
<1>3. WaitersInv'
  <2>1. ASSUME NEW u \in Waiters PROVE WaiterOK(u)'
    <3>1. WaiterOK(u) /\ Kept(u)
      BY <1>1 DEF WaitersInv, Kept
    <3>2. QED
      BY <1>1, <3>1, KeptWaiter
  <2>2. QED
    BY <2>1 DEF WaitersInv
<1>4. WordInv'
  BY <1>1, SameWord
<1>5. ParkedInv'
  BY <1>1 DEF ParkedInv, WakeComing
<1>6. QED
  BY <1>2, <1>3, <1>4, <1>5, UpwardKept DEF WakeInv

LEMMA ReapStartStep ==
    ASSUME WakeInv, NEW t \in Waiters, ReapStart(t)
    PROVE  Preserved
<1>1. FutexTypeOK
  BY DEF WakeInv
<1>2. /\ sleeper[t].state = "DEAD" /\ reap' = [victim |-> t, bucket |-> 0]
      /\ UNCHANGED <<hash, val, list, lock, waiter, sleeper, waker, freed, tally>>
  BY DEF ReapStart
<1>3. /\ reap' \in [victim : Waiters \cup {None}, bucket : Nat]
      /\ reap'.victim = t /\ reap'.bucket = 0
  <2>1. 0 \in Nat
    BY SMTT(30)
  <2>2. QED
    BY <1>2, <2>1, ReapRecords
<1>4. FutexTypeOK' /\ VictimInv'
  BY <1>1, <1>2, <1>3 DEF FutexTypeOK, VictimInv
<1>5. WakeInv' /\ (UpwardInv => UpwardInv')
  BY <1>2, <1>4, OnlyReaps
<1>6. ASSUME ReapInv PROVE ReapInv'
  <2>1. 0 \in Buckets \/ 0 = HashSize
    BY SMTT(30), BucketsCounted
  <2>2. \A b \in Buckets : ~(b < 0)
    BY SMTT(30), BucketsNat
  <2>3. \A u \in freed : sleeper[u].state = "DEAD" /\ ~Queued(u) /\ ~Claimed(u)
    BY <1>6 DEF ReapInv
  <2>4. \A u : (Queued(u)' => Queued(u)) /\ (Claimed(u)' => Claimed(u))
    BY <1>2 DEF Queued, Claimed
  <2>5. QED
    BY <1>2, <1>3, <2>1, <2>2, <2>3, <2>4 DEF ReapInv
<1>7. QED
  BY <1>5, <1>6 DEF Preserved

LEMMA ReapScanStep ==
    ASSUME WakeInv, ReapScan
    PROVE  Preserved
<1>1. FutexTypeOK /\ VictimInv
  BY DEF WakeInv
<1>2. PICK v \in Waiters, b \in Buckets : v = reap.victim /\ b = reap.bucket
  <2>1. reap.victim \in Waiters \cup {None}
    BY SMTT(30), <1>1 DEF FutexTypeOK
  <2>2. QED
    BY <2>1 DEF ReapScan
<1>3. /\ list' = [list EXCEPT ![b] = Without(@, {v})]
      /\ reap' = [reap EXCEPT !.bucket = @ + 1]
      /\ UNCHANGED <<hash, val, lock, waiter, sleeper, waker, freed, tally>>
  BY <1>2 DEF ReapScan
<1>4. v # None /\ sleeper[v].state = "DEAD" /\ WaiterOK(v)
  BY <1>1, <1>2, FutexConstants DEF VictimInv, WakeInv, WaitersInv
<1>5. /\ DOMAIN list' = Buckets /\ DOMAIN list'[b] = DOMAIN list[b] \ {v}
      /\ \A c \in Buckets : c # b => list'[c] = list[c]
      /\ \A c \in Buckets : DOMAIN list'[c] \subseteq Waiters
  <2>1. PICK l : l = Without(list[b], {v})
    OBVIOUS
  <2>2. DOMAIN l = DOMAIN list[b] \ {v}
    BY <2>1, WithoutDomain
  <2>3. DOMAIN l \subseteq Waiters
    BY <1>1, <2>2 DEF FutexTypeOK
  <2>4. list' = [list EXCEPT ![b] = l]
    BY <1>1, <1>3, <2>1 DEF FutexTypeOK
  <2>5. QED
    BY <1>1, <2>2, <2>3, <2>4, ListReplaced
<1>6. /\ reap' \in [victim : Waiters \cup {None}, bucket : Nat]
      /\ reap'.victim = v /\ reap'.bucket = b + 1
  <2>1. reap \in [victim : Waiters \cup {None}, bucket : Nat]
    BY <1>1 DEF FutexTypeOK
  <2>2. QED
    BY SMTT(30), <1>2, <1>3, <2>1
<1>7. FutexTypeOK'
  BY <1>1, <1>3, <1>5, <1>6 DEF FutexTypeOK
<1>8. VictimInv'
  BY <1>3, <1>4, <1>6 DEF VictimInv
<1>9. \A c \in Buckets : DOMAIN list'[c] \subseteq DOMAIN list[c]
  BY <1>5
<1>10. PlansInv' /\ WaitersInv' /\ WordInv' /\ ParkedInv'
  <2>1. \A u \in Waiters \ {v} : Kept(u)
    <3>1. \A u \in Waiters \ {v} : \A c \in Buckets : u \in DOMAIN list'[c] <=> u \in DOMAIN list[c]
      BY <1>5
    <3>2. QED
      BY <1>3, <3>1 DEF Kept
  <2>2. WaiterOK(v)'
    <3>1. sleeper[v].pc \notin {"user", "check"}
      BY <1>4 DEF WaiterOK
    <3>2. \A c \in Buckets : v \in DOMAIN list'[c] => waiter'[v].bucket = c
      BY <1>3, <1>4, <1>9 DEF WaiterOK
    <3>3. QED
      BY <1>3, <1>4, <3>1, <3>2 DEF WaiterOK
  <2>3. \A k \in Words : v \in Left(k)' => v \in Left(k)
    <3>1. \A k \in Words : hash[k] \in Buckets
      BY <1>1 DEF FutexTypeOK
    <3>2. QED
      BY <1>3, <1>9, <3>1 DEF Left
  <2>4. sleeper'[v].state # "BLOCKED"
    BY <1>3, <1>4
  <2>5. QED
    BY <1>3, <2>1, <2>2, <2>3, <2>4, ThreadTouched
<1>11. ASSUME ReapInv PROVE ReapInv'
  <2>1. ASSUME NEW u \in freed PROVE sleeper'[u].state = "DEAD" /\ ~Queued(u)' /\ ~Claimed(u)'
    <3>1. sleeper[u].state = "DEAD" /\ ~Queued(u) /\ ~Claimed(u)
      BY <1>11 DEF ReapInv
    <3>2. ~Queued(u)'
      BY <1>9, <3>1 DEF Queued
    <3>3. QED
      BY <1>3, <3>1, <3>2 DEF Claimed
  <2>2. b + 1 \in Buckets \/ b + 1 = HashSize
    BY SMTT(30), BucketsCounted
  <2>3. ASSUME NEW c \in Buckets, c < b + 1 PROVE v \notin DOMAIN list'[c]
    <3>1. c = b \/ c < b
      BY SMTT(30), <2>3, BucketsNat
    <3>2. c < b => v \notin DOMAIN list[c]
      BY <1>2, <1>4, <1>11 DEF ReapInv
    <3>3. QED
      BY <1>5, <1>9, <3>1, <3>2
  <2>4. QED
    BY <1>3, <1>6, <2>1, <2>2, <2>3 DEF ReapInv
<1>12. UpwardInv => UpwardInv'
  BY <1>3, UpwardKept
<1>13. QED
  BY <1>7, <1>8, <1>10, <1>11, <1>12 DEF WakeInv, Preserved

LEMMA ReapEndStep ==
    ASSUME WakeInv, ReapEnd
    PROVE  Preserved
<1>1. FutexTypeOK /\ VictimInv
  BY DEF WakeInv
<1>2. PICK v \in Waiters : v = reap.victim /\ v # None /\ sleeper[v].state = "DEAD"
  <2>1. reap.victim \in Waiters \cup {None}
    BY SMTT(30), <1>1 DEF FutexTypeOK
  <2>2. QED
    BY <1>1, <2>1 DEF ReapEnd, VictimInv
<1>3. /\ reap.bucket \notin Buckets /\ reap' = [victim |-> None, bucket |-> 0]
      /\ freed' = IF Claimed(v) THEN freed ELSE freed \cup {v}
      /\ UNCHANGED <<hash, val, list, lock, waiter, sleeper, waker, tally>>
  BY <1>2 DEF ReapEnd
<1>4. reap' \in [victim : Waiters \cup {None}, bucket : Nat] /\ reap'.victim = None
  <2>1. 0 \in Nat
    BY SMTT(30)
  <2>2. QED
    BY <1>3, <2>1, ReapRecords
<1>5. freed' \subseteq Waiters
  BY <1>1, <1>3 DEF FutexTypeOK
<1>6. FutexTypeOK' /\ VictimInv'
  BY <1>1, <1>3, <1>4, <1>5 DEF FutexTypeOK, VictimInv
<1>7. WakeInv' /\ (UpwardInv => UpwardInv')
  BY <1>3, <1>6, OnlyReaps
<1>8. ASSUME ReapInv PROVE ReapInv'
  <2>1. \A u : (Queued(u)' => Queued(u)) /\ (Claimed(u)' => Claimed(u))
    BY <1>3 DEF Queued, Claimed
  <2>2. ~Queued(v)
    <3>1. reap.bucket = HashSize /\ \A b \in Buckets : b < reap.bucket => v \notin DOMAIN list[b]
      BY <1>2, <1>3, <1>8 DEF ReapInv
    <3>2. \A b \in Buckets : b < HashSize
      BY BucketsCounted
    <3>3. QED
      BY <3>1, <3>2 DEF Queued
  <2>3. \A u \in freed : sleeper[u].state = "DEAD" /\ ~Queued(u) /\ ~Claimed(u)
    BY <1>8 DEF ReapInv
  <2>4. \A u \in freed' : sleeper[u].state = "DEAD" /\ ~Queued(u) /\ ~Claimed(u)
    BY <1>2, <1>3, <2>2, <2>3
  <2>5. QED
    BY <1>3, <1>4, <2>1, <2>4 DEF ReapInv
<1>9. QED
  BY <1>7, <1>8 DEF Preserved

-----------------------------------------------------------------------------
(* All steps *)

LEMMA FutexInitInv == FutexInit => DeadInv
<1> SUFFICES ASSUME FutexInit PROVE DeadInv
  OBVIOUS
<1>1. hash \in Hashes /\ hash \in [Words -> Buckets]
  BY FutexConstants DEF FutexInit
<1>2. val \in [Words -> BOOLEAN] /\ \A k \in Words : ~val[k]
  BY DEF FutexInit
<1>3. DOMAIN list = Buckets /\ \A b \in Buckets : DOMAIN list[b] = {}
  BY DEF FutexInit
<1>4. lock \in [Buckets -> Waiters \cup {None}] /\ \A b \in Buckets : lock[b] = None
  BY DEF FutexInit
<1>5. waiter \in [Waiters -> WaiterRecords]
  <2>1. NoWaiter \in WaiterRecords
    <3>1. PICK no \in BOOLEAN : no = FALSE
      OBVIOUS
    <3>2. NoWaiter = [key |-> None, moved |-> no, bucket |-> 0]
      BY <3>1 DEF NoWaiter
    <3>3. QED
      BY SMTT(30), <3>1, <3>2 DEF WaiterRecords
  <2>2. QED
    BY <2>1 DEF FutexInit
<1>6. /\ sleeper \in [Waiters -> SleeperRecords]
      /\ \A t \in Waiters : sleeper[t].pc = "user" /\ sleeper[t].state = "RUNNING"
  <2>1. PICK r : r = [pc |-> "user", state |-> "RUNNING", saw |-> 0]
    OBVIOUS
  <2>2. r \in SleeperRecords /\ r.pc = "user" /\ r.state = "RUNNING"
    BY SMTT(30), <2>1 DEF SleeperRecords
  <2>3. sleeper = [t \in Waiters |-> r]
    BY <2>1 DEF FutexInit
  <2>4. QED
    BY <2>2, <2>3
<1>7. /\ waker \in [Wakers -> WakerRecords]
      /\ \A w \in Wakers : waker[w].pc = "idle" /\ waker[w].claims = {}
  <2>1. PICK S : S = Seq(Wakes)
    OBVIOUS
  <2>2. <<>> \in S
    <3>1. PICK W : W = Wakes
      OBVIOUS
    <3>2. <<>> \in Seq(W)
      BY SMTT(30)
    <3>3. QED
      BY <2>1, <3>1, <3>2
  <2>3. PICK r : r = [pc |-> "idle", todo |-> <<>>, claims |-> {}]
    OBVIOUS
  <2>4. r \in WakersOf(S) /\ r.pc = "idle" /\ r.claims = {}
    BY SMTT(30), <2>2, <2>3 DEF WakersOf, WakerPcs
  <2>5. WakersOf(S) = WakerRecords
    BY <2>1 DEF WakersOf, WakerRecords, Wakes, WakerPcs
  <2>6. waker = [w \in Wakers |-> r]
    BY <2>3 DEF FutexInit
  <2>7. QED
    BY <2>4, <2>5, <2>6
<1>8. /\ reap \in [victim : Waiters \cup {None}, bucket : Nat] /\ reap.victim = None
  <2>1. 0 \in Nat
    BY SMTT(30)
  <2>2. QED
    BY <2>1, ReapRecords DEF FutexInit
<1>9. /\ tally \in [Words -> [asked : Nat, consumed : Nat]]
      /\ \A k \in Words : tally[k] = [asked |-> 0, consumed |-> 0]
  BY SMTT(30) DEF FutexInit
<1>10. freed = {}
  BY DEF FutexInit
<1>11. FutexTypeOK
  BY <1>1, <1>2, <1>3, <1>4, <1>5, <1>6, <1>7, <1>8, <1>9, <1>10 DEF FutexTypeOK
<1>12. PlansInv
  BY <1>7 DEF PlansInv, PlanOK
<1>13. WaitersInv
  <2>1. ASSUME NEW t \in Waiters, NEW b \in Buckets PROVE lock[b] # t /\ t \notin DOMAIN list[b]
    BY <1>3, <1>4, FutexConstants
  <2>2. QED
    BY <1>6, <2>1 DEF WaitersInv, WaiterOK
<1>14. WordInv
  BY <1>2, <1>9 DEF WordInv
<1>15. ParkedInv
  BY <1>6 DEF ParkedInv
<1>16. VictimInv /\ ReapInv
  BY <1>8, <1>10 DEF VictimInv, ReapInv
<1>17. UpwardInv
  BY <1>7 DEF UpwardInv
<1>18. QED
  BY <1>11, <1>12, <1>13, <1>14, <1>15, <1>16, <1>17 DEF DeadInv, WakeInv

LEMMA FutexNextInv ==
    ASSUME WakeInv, [FutexNext]_futexVars
    PROVE  Preserved
<1>1. CASE \E t \in Waiters :
             \/ \E k \in Words : WaitEnqueue(t, k)
             \/ WaitCheck(t) \/ BackLoad(t) \/ BackLocked(t) \/ Disturb(t) \/ Kill(t)
             \/ ReapStart(t)
             \/ \E w \in Wakers : Deliver(w, t)
  BY <1>1, EnqueueStep, CheckStep, BackLoadStep, BackLockedStep, DisturbStep, KillStep,
     ReapStartStep, DeliverStep
<1>2. CASE \E w \in Wakers :
             \/ \E op \in Calls : StoreWord(w, op)
             \/ WakeFast(w) \/ WakeScan(w) \/ Requeue(w) \/ RequeueRefused(w) \/ Delivered(w)
  BY <1>2, StoreStep, FastStep, ScanStep, RequeueStep, RefusedStep, DeliveredStep
<1>3. CASE ReapScan
  BY <1>3, ReapScanStep
<1>4. CASE ReapEnd
  BY <1>4, ReapEndStep
<1>5. CASE UNCHANGED futexVars
  <2>1. UNCHANGED <<hash, val, list, lock, waiter, sleeper, waker, reap, freed, tally>>
    BY <1>5 DEF futexVars
  <2>2. FutexTypeOK' /\ VictimInv'
    BY <2>1 DEF WakeInv, FutexTypeOK, VictimInv
  <2>3. WakeInv' /\ (UpwardInv => UpwardInv')
    BY <2>1, <2>2, OnlyReaps
  <2>4. ReapInv => ReapInv'
    BY <2>1 DEF ReapInv, Queued, Claimed
  <2>5. QED
    BY <2>3, <2>4 DEF Preserved
<1>6. QED
  BY <1>1, <1>2, <1>3, <1>4, <1>5 DEF FutexNext

\* What of its list and its waker a waiting thread is promised holds at every
\* point of futex_wait, of the calls of the wakers and of the reaper, for any
\* hash function, any calls and any number of threads.
THEOREM WakeInvariant == FutexSpec => []WakeInv
<1>1. FutexInit => WakeInv
  BY FutexInitInv DEF DeadInv
<1>2. WakeInv /\ [FutexNext]_futexVars => WakeInv'
  BY FutexNextInv DEF Preserved
<1>3. QED
  BY <1>1, <1>2, PTL DEF FutexSpec

LEMMA WakeInvNoLostWake == WakeInv => NoLostWake
<1> SUFFICES ASSUME WakeInv, NEW k \in Words, val[k], ~Pending(k),
                    tally[k].consumed < tally[k].asked,
                    NEW t \in Waiters, sleeper[t].pc = "parked", sleeper[t].state = "BLOCKED",
                    waiter[t].key = k, ~waiter[t].moved
             PROVE  FALSE
  BY DEF NoLostWake
<1>1. FutexTypeOK /\ PlansInv /\ WordInv /\ ParkedInv
  BY DEF WakeInv
<1>2. tally[k].consumed # tally[k].asked
  <2>1. tally[k].asked \in Nat /\ tally[k].consumed \in Nat
    BY SMTT(30), <1>1 DEF FutexTypeOK
  <2>2. QED
    BY SMTT(30), <2>1
<1>3. Left(k) = {}
  BY <1>1, <1>2 DEF WordInv
<1>4. waiter[t].bucket = hash[k]
  BY InsideFacts
<1>5. t \notin DOMAIN list[hash[k]]
  BY <1>3 DEF Left
<1>6. WakeComing(t)
  BY <1>1, <1>4, <1>5 DEF ParkedInv
<1>7. PICK w \in Wakers : waker[w].pc = "deliver" /\ waker[w].todo[1].key = k
  BY <1>6 DEF WakeComing
<1>8. PICK q \in Seq(Wakes) : q = waker[w].todo /\ q # <<>>
  BY <1>1, <1>7, WakerTypes DEF PlansInv, PlanOK
<1>9. 1 \in DOMAIN q
  <2>1. PICK W : W = Wakes
    OBVIOUS
  <2>2. q \in Seq(W)
    BY <2>1
  <2>3. QED
    BY SMTT(30), <1>8, <2>2
<1>10. QED
  BY <1>7, <1>8, <1>9 DEF Pending

\* No wakeup is lost between the lockless test of futex_wake_key and the value
\* check of futex_wait.
THEOREM WakesAreKept == FutexSpec => []NoLostWake
BY WakeInvariant, WakeInvNoLostWake, PTL

\* The reaper frees no thread that a bucket links or that a waker is about to
\* wake, if no requeue goes to a bucket that futex_remove_thread_waiters visits
\* before the one it leaves.
THEOREM FreedWaitersAreGone == UpwardRequeues => (FutexSpec => []NoDeadWaiter)
<1> SUFFICES ASSUME UpwardRequeues PROVE FutexSpec => []NoDeadWaiter
  OBVIOUS
<1>1. FutexInit => DeadInv
  BY FutexInitInv
<1>2. DeadInv /\ [FutexNext]_futexVars => DeadInv'
  BY FutexNextInv DEF Preserved, DeadInv
<1>3. DeadInv => NoDeadWaiter
  BY DEF DeadInv, ReapInv, NoDeadWaiter, Claimed
<1>4. QED
  BY <1>1, <1>2, <1>3, PTL DEF FutexSpec

=============================================================================
