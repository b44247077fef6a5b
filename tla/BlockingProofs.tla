--------------------------- MODULE BlockingProofs ---------------------------
(* Proofs about FutexPi, RadixLookup and Nvme, which share no state: a lock  *)
(* that is handed over, a tree that is read without one, and commands a      *)
(* device may still be working on.                                           *)
EXTENDS FutexPi, RadixLookup, Nvme, TLAPS

-----------------------------------------------------------------------------
(* FutexPi: PiExclusion for every set of threads.                            *)

\* A word that is 0, with every thread outside the kernel.
LEMMA PiInitInv == PiInit => PiInv
BY NoneIsNoThread DEF PiInit, PiInv, PiTypeOK, PiExclusion, PCs, At, Free

\* Most steps move one thread and leave its state and what it was handed alone.
LEMMA MovedType ==
    ASSUME PiTypeOK, NEW t \in Threads, NEW pc \in PCs, Goto(t, pc),
           word' \in [owner: Threads \cup {None}, waiters: BOOLEAN, died: BOOLEAN],
           holds' \subseteq Threads
    PROVE  /\ PiTypeOK'
           /\ thread'[t].pc = pc
           /\ \A u \in Threads : /\ thread'[u].state = thread[u].state
                                 /\ thread'[u].acquired = thread[u].acquired
                                 /\ u # t => thread'[u] = thread[u]
BY DEF PiTypeOK, Goto

\* The two compare-and-swaps of the user take a free word or give up an own one.
LEMMA UserStep ==
    ASSUME PiInv, NEW t \in Threads, UserLock(t) \/ UserUnlock(t)
    PROVE  PiInv'
<1>1. CASE UserLock(t) /\ word = Free
  <2>1. PiTypeOK' /\ word'.owner = t /\ thread' = thread /\ holds' = holds \cup {t}
    BY <1>1 DEF UserLock, PiInv, PiTypeOK
  <2>2. \A u \in Threads : word.owner # u
    BY <1>1, NoneIsNoThread DEF Free
  <2>3. QED
    BY <1>1, <2>1, <2>2 DEF UserLock, PiInv, PiExclusion, At
<1>2. CASE UserLock(t) /\ word # Free
  <2>1. Goto(t, "take") /\ word' = word /\ holds' = holds /\ At(t, "user") /\ t \notin holds
    BY <1>2 DEF UserLock
  <2>2. QED
    BY <2>1, MovedType DEF PiInv, PiTypeOK, PiExclusion, At, PCs
<1>3. CASE UserUnlock(t) /\ word = [Free EXCEPT !.owner = t]
  <2>1. /\ word' = Free /\ thread' = thread /\ holds' = holds \ {t}
        /\ At(t, "user") /\ t \in holds
    BY <1>3 DEF UserUnlock
  <2>2. word.owner = t
    BY <2>1 DEF PiInv, PiExclusion, At
  <2>3. PiTypeOK'
    BY <2>1 DEF PiInv, PiTypeOK, Free
  <2>4. QED
    BY <2>1, <2>2, <2>3 DEF PiInv, PiExclusion, At
<1>4. CASE UserUnlock(t) /\ word # [Free EXCEPT !.owner = t]
  <2>1. /\ Goto(t, "unlock") /\ word' = word /\ holds' = holds \ {t} /\ At(t, "user")
        /\ t \in holds
    BY <1>4 DEF UserUnlock
  <2>2. QED
    BY <2>1, MovedType DEF PiInv, PiTypeOK, PiExclusion, At, PCs
<1>5. QED
  BY <1>1, <1>2, <1>3, <1>4

\* The lock is taken from nobody or from a thread that died.
LEMMA TakeStep ==
    ASSUME PiInv, NEW t \in Threads, PiTake(t)
    PROVE  PiInv'
<1>1. CASE futex_pi_owner_gone(word.owner)
  <2>1. /\ Goto(t, "user") /\ holds' = holds \cup {t} /\ At(t, "take")
        /\ word' = [word EXCEPT !.owner = t, !.died = word.owner # None]
    BY <1>1 DEF PiTake
  <2>2. /\ word'.owner = t
        /\ word' \in [owner: Threads \cup {None}, waiters: BOOLEAN, died: BOOLEAN]
    BY <2>1, Zenon DEF PiInv, PiTypeOK
  <2>3. \A u \in Threads : word.owner = u => thread[u].state = "DEAD"
    BY <1>1, NoneIsNoThread DEF futex_pi_owner_gone
  <2>4. QED
    BY <2>1, <2>2, <2>3, MovedType DEF PiInv, PiTypeOK, PiExclusion, At, PCs
<1>2. CASE ~futex_pi_owner_gone(word.owner)
  <2>1. /\ Goto(t, "mark") \/ Goto(t, "user")
        /\ word' = word /\ holds' = holds /\ At(t, "take")
    BY <1>2 DEF PiTake
  <2>2. QED
    BY <2>1, MovedType DEF PiInv, PiTypeOK, PiExclusion, At, PCs
<1>3. QED
  BY <1>1, <1>2

\* Between the mark and the park the word keeps its owner.
LEMMA ParkStep ==
    ASSUME PiInv, NEW t \in Threads,
           PiMark(t) \/ PiRecheck(t) \/ PiEnqueue(t) \/ Disturb(t)
    PROVE  PiInv'
<1>1. CASE PiMark(t)
  <2>1. /\ word'.owner = word.owner
        /\ word' \in [owner: Threads \cup {None}, waiters: BOOLEAN, died: BOOLEAN]
    BY <1>1, Zenon DEF PiMark, PiInv, PiTypeOK
  <2>2. /\ PiTypeOK' /\ holds' = holds /\ At(t, "mark") /\ thread'[t].pc = "recheck"
        /\ \A u \in Threads : /\ thread'[u].state = thread[u].state
                              /\ thread'[u].acquired = thread[u].acquired
                              /\ u # t => thread'[u] = thread[u]
    BY <1>1, <2>1, MovedType, Zenon DEF PiMark, PiInv, PiTypeOK, PCs
  <2>3. QED
    BY <2>1, <2>2 DEF PiInv, PiExclusion, At
<1>2. CASE PiRecheck(t)
  <2>1. PICK l \in {"take", "enqueue"} : Goto(t, l)
    BY <1>2 DEF PiRecheck
  <2>2. /\ PiTypeOK' /\ holds' = holds /\ word' = word
        /\ At(t, "recheck") /\ thread'[t].pc = l
        /\ \A u \in Threads : /\ thread'[u].state = thread[u].state
                              /\ thread'[u].acquired = thread[u].acquired
                              /\ u # t => thread'[u] = thread[u]
    BY <1>2, <2>1, MovedType DEF PiRecheck, PiInv, PiTypeOK, PCs
  <2>3. QED
    BY <2>1, <2>2 DEF PiInv, PiExclusion, At
<1>3. CASE PiEnqueue(t)
  <2>1. CASE Goto(t, "user")
    BY <1>3, <2>1, MovedType DEF PiEnqueue, PiInv, PiTypeOK, PiExclusion, At, PCs
  <2>2. CASE thread' = [thread EXCEPT ![t].pc = "parked", ![t].state = "BLOCKED"]
    <3>1. /\ PiTypeOK'
          /\ thread'[t].pc = "parked" /\ thread'[t].state = "BLOCKED"
          /\ thread'[t].acquired = thread[t].acquired
          /\ \A u \in Threads \ {t} : thread'[u] = thread[u]
      BY <1>3, <2>2, Zenon DEF PiEnqueue, PiInv, PiTypeOK, PCs
    <3>2. QED
      BY <1>3, <3>1 DEF PiEnqueue, PiInv, PiExclusion, At
  <2>3. QED
    BY <1>3, <2>1, <2>2 DEF PiEnqueue
<1>4. CASE Disturb(t)
  <2>1. /\ PiTypeOK'
        /\ thread'[t].pc = "parked" /\ thread'[t].state = "RUNNING"
        /\ thread'[t].acquired = thread[t].acquired
        /\ \A u \in Threads \ {t} : thread'[u] = thread[u]
    BY <1>4 DEF Disturb, PiInv, PiTypeOK
  <2>2. QED
    BY <1>4, <2>1 DEF Disturb, PiInv, PiExclusion, At
<1>5. QED
  BY <1>1, <1>2, <1>3, <1>4

\* A thread that was handed the lock by futex_pi_unlock returns as its owner.
LEMMA BackStep ==
    ASSUME PiInv, NEW t \in Threads, PiBack(t)
    PROVE  PiInv'
BY NoneIsNoThread DEF PiInv, PiTypeOK, PiExclusion, PCs, At, Goto, PiBack

\* futex_pi_unlock with nobody parked clears a word that its caller owns.
LEMMA UnlockStep ==
    ASSUME PiInv, NEW t \in Threads, PiUnlockFree(t)
    PROVE  PiInv'
BY NoneIsNoThread DEF PiInv, PiTypeOK, PiExclusion, PCs, At, Goto, Free, PiUnlockFree

\* The lock changes hands: the old owner is the thread that unlocks, so no
\* other thread holds it, and the new one is parked, so it is not that thread.
LEMMA HandOverStep ==
    ASSUME PiInv, NEW t \in Threads, NEW next \in Threads, PiHandOver(t, next)
    PROVE  PiInv'
<1>1. /\ word.owner = t /\ t \notin holds /\ ~thread[t].acquired
      /\ thread[next].state = "BLOCKED" /\ thread[next].pc = "parked" /\ next # t
  BY DEF PiInv, PiTypeOK, PiHandOver, FirstParked, At
<1>2. \A u \in Threads \ {t} :
        thread[u].state # "DEAD" => u \notin holds /\ ~thread[u].acquired
  BY <1>1 DEF PiInv, PiExclusion
<1>3. /\ word'.owner = next
      /\ word' \in [owner: Threads \cup {None}, waiters: BOOLEAN, died: BOOLEAN]
      /\ holds' = holds
  BY DEF PiHandOver, HandedTo, Parked
<1>4. /\ thread'[t] = [thread[t] EXCEPT !.pc = "user"]
      /\ thread'[next] = [thread[next] EXCEPT !.acquired = TRUE, !.state = "RUNNING"]
      /\ \A u \in Threads \ {t, next} : thread'[u] = thread[u]
  BY <1>1 DEF PiHandOver, PiInv, PiTypeOK
<1>5. /\ PiTypeOK'
      /\ thread'[t].pc = "user" /\ ~thread'[t].acquired /\ thread'[t].state = "RUNNING"
      /\ thread'[next].pc = "parked" /\ thread'[next].acquired
      /\ thread'[next].state = "RUNNING"
  <2>1. thread' \in [Threads -> [pc: PCs, state: {"RUNNING", "BLOCKED", "DEAD"},
                                 acquired: BOOLEAN]]
    BY <1>1 DEF PiHandOver, PiInv, PiTypeOK, PCs
  <2>2. PiTypeOK'
    BY <1>3, <2>1 DEF PiInv, PiTypeOK
  <2>3. thread[t].state = "RUNNING"
    BY DEF PiHandOver, At
  <2>4. QED
    BY <1>1, <1>4, <2>2, <2>3 DEF PiInv, PiTypeOK
<1>6. PiExclusion'
  <2>1. SUFFICES ASSUME NEW u \in Threads, thread'[u].state # "DEAD",
                        u \in holds' \/ thread'[u].acquired
                 PROVE  u = next
    BY <1>3 DEF PiExclusion
  <2>2. u # t
    BY <1>1, <1>3, <1>5, <2>1
  <2>3. QED
    BY <1>2, <1>3, <1>4, <2>1, <2>2
<1>7. ASSUME NEW u \in Threads
      PROVE  /\ At(u, "unlock")' => word'.owner = u
             /\ u \in holds' => At(u, "user")'
             /\ thread'[u].acquired /\ thread'[u].state # "DEAD" => At(u, "parked")'
             /\ thread'[u].state = "BLOCKED" => thread'[u].pc = "parked"
  <2>1. CASE u = t
    BY <1>1, <1>3, <1>5, <2>1 DEF At
  <2>2. CASE u = next
    BY <1>1, <1>3, <1>5, <2>2 DEF PiInv, At
  <2>3. CASE u \in Threads \ {t, next}
    BY <1>1, <1>3, <1>4, <2>3 DEF PiInv, At
  <2>4. QED
    BY <2>1, <2>2, <2>3
<1>8. QED
  BY <1>5, <1>6, <1>7 DEF PiInv

\* A thread that dies gives the lock up, or is no longer counted among those
\* that have it.
LEMMA DeathStep ==
    ASSUME PiInv, NEW t \in Threads, Exit(t) \/ ExitWake(t) \/ Kill(t) \/ Reap(t)
    PROVE  PiInv'
<1>1. CASE Exit(t) /\ Goto(t, "dying")
  <2>1. /\ holds' = holds \ {t} /\ At(t, "user")
        /\ word.owner = t \/ word' = word
        /\ word' \in [owner: Threads \cup {None}, waiters: BOOLEAN, died: BOOLEAN]
    BY <1>1, Zenon DEF Exit, PiInv, PiTypeOK
  <2>2. QED
    BY <1>1, <2>1, MovedType DEF PiInv, PiTypeOK, PiExclusion, At, PCs
<1>2. CASE Exit(t) /\ thread' = [thread EXCEPT ![t].state = "DEAD"] /\ UNCHANGED word
  <2>1. /\ PiTypeOK' /\ thread'[t].state = "DEAD"
        /\ \A u \in Threads \ {t} : thread'[u] = thread[u]
    BY <1>2 DEF Exit, PiInv, PiTypeOK
  <2>2. QED
    BY <1>2, <2>1 DEF Exit, PiInv, PiExclusion, At
<1>3. CASE ExitWake(t)
  <2>1. /\ PiTypeOK' /\ thread'[t].state = "DEAD"
        /\ \A u \in Threads \ {t} :
             /\ thread'[u].pc = thread[u].pc
             /\ thread'[u].acquired = thread[u].acquired
             /\ \/ thread'[u].state = thread[u].state
                \/ thread[u].state = "BLOCKED" /\ thread'[u].state = "RUNNING"
    BY <1>3 DEF ExitWake, PiInv, PiTypeOK
  <2>2. QED
    BY <1>3, <2>1 DEF ExitWake, PiInv, PiExclusion, At
<1>4. CASE Kill(t)
  <2>1. /\ PiTypeOK' /\ thread'[t].state = "DEAD"
        /\ \A u \in Threads \ {t} : thread'[u] = thread[u]
    BY <1>4 DEF Kill, PiInv, PiTypeOK
  <2>2. QED
    BY <1>4, <2>1 DEF Kill, PiInv, PiExclusion, At
<1>5. CASE Reap(t)
  BY <1>5 DEF Reap, PiInv, PiTypeOK, PiExclusion, At
<1>6. QED
  BY <1>1, <1>2, <1>3, <1>4, <1>5 DEF Exit

\* A PI lock has one owner, for any number of threads and whatever times out,
\* is interrupted or dies inside futex_pi_lock and futex_pi_unlock.
THEOREM PiLockExclusive == PiSpec => []PiExclusion
<1>1. PiInv /\ [PiNext]_piVars => PiInv'
  <2> SUFFICES ASSUME PiInv, [PiNext]_piVars PROVE PiInv'
    OBVIOUS
  <2>1. CASE UNCHANGED piVars
    BY <2>1 DEF PiInv, PiTypeOK, PiExclusion, PCs, At, piVars
  <2>2. CASE PiNext
    BY <2>2, UserStep, TakeStep, ParkStep, BackStep, UnlockStep, HandOverStep,
       DeathStep DEF PiNext
  <2>3. QED
    BY <2>1, <2>2
<1>2. PiInv => PiExclusion
  BY DEF PiInv
<1>3. QED
  BY PiInitInv, <1>1, <1>2, PTL DEF PiSpec

-----------------------------------------------------------------------------
(* RadixLookup: LookupAgrees and LeafAlive for every tree, every number of   *)
(* lookups and every number of mutations, when at most one lookup at a time  *)
(* goes through the remembered leaf.  With two it is false: the run          *)
(* radix_shared.                                                             *)

\* The leaves below are first order; the ones that cite SMTT need arithmetic or
\* types.
USE ZenonT(30)

\* The remembered leaf is one thread's.
SoleUser == \A r, q \in CacheUsers : r = q

\* The tree starts empty, with nothing remembered.
LEMMA RadixInitInv == RadixInit => RadixInv
<1> SUFFICES ASSUME RadixInit PROVE RadixInv
  OBVIOUS
<1>1. RadixTypeOK
  BY SMTT(30), RadixConstants DEF RadixInit, RadixTypeOK
<1>2. TreeInv /\ CacheInv
  BY SMTT(30), RadixConstants DEF RadixInit, TreeInv, CacheInv, SeenMutation
<1>3. \A r \in Readers : LookupInv(r)
  BY DEF RadixInit, LookupInv, Puts
<1>4. QED
  BY <1>1, <1>2, <1>3 DEF RadixInv

\* A step of the tree: the counter shows a change to every lookup under way,
\* and no leaf one of them may use goes away.
LEMMA TreeStep ==
    ASSUME RadixInv, RadixTypeOK', TreeInv', UNCHANGED <<cached, locals>>,
           \A s \in Nat : SeenMutation(s) =>
               SeenMutation(s)' /\ (s = seq' => seq' = seq /\ root' = root /\ slot' = slot),
           \A r \in Readers, l \in Leaves :
               at[r] # "idle" /\ Protected(r, l) => Protected(r, l)'
    PROVE  RadixInv'
<1>1. CacheInv'
  <2>1. cached.seq \in Nat
    BY DEF RadixInv, RadixTypeOK
  <2>2. Unfinished' <=> Unfinished
    BY DEF Unfinished, locals
  <2>3. QED
    BY <2>1, <2>2 DEF RadixInv, CacheInv, locals
<1>2. ASSUME NEW r \in Readers PROVE LookupInv(r)'
  <2>1. /\ s1[r] \in Nat /\ LookupInv(r)
        /\ cached.leaf \in Leaves \cup {None} /\ leaf[r] \in Leaves \cup {None}
    BY DEF RadixInv, RadixTypeOK
  <2>2. at'[r] \notin {"idle", "unstable"} =>
            SeenMutation(s1[r])' /\ (s1[r] = seq' => seq' = seq /\ root' = root /\ slot' = slot)
    BY <2>1 DEF LookupInv, locals
  <2>3. \A l \in Leaves : at[r] # "idle" /\ Protected(r, l) => Protected(r, l)'
    OBVIOUS
  <2>4. at[r] \in {"chunk", "leaf", "seq"} /\ cached.leaf # None /\ cached.seq = s1[r] =>
            Protected(r, cached.leaf)'
    BY <2>1, <2>3 DEF LookupInv, locals
  <2>5. at[r] \in {"load", "walkload"} => Protected(r, leaf[r])'
    BY <2>1, <2>3 DEF LookupInv, locals
  <2>6. QED
    BY <2>1, <2>2, <2>4, <2>5 DEF LookupInv, locals, Stable, Puts
<1>3. QED
  BY <1>1, <1>2 DEF RadixInv

\* The tree's own steps are such steps.
LEMMA MutationStep ==
    ASSUME RadixInv,
           \/ radix_mut_lock \/ radix_mut_unlock
           \/ \E k \in Chunks : \/ asc_radix_tree_delete(k)
                                \/ \E l \in Leaves : AttachLeaf(k, l)
                                \/ \E p \in Pages : asc_radix_tree_insert(k, p)
           \/ \E l \in Leaves : FreeLeaf(l)
    PROVE  RadixInv'
<1> USE DEF RadixInv
<1>1. CASE radix_mut_lock
  <2>1. RadixTypeOK'
    <3>1. seq \in Nat /\ ((seq % 2 = 0) <=> (mutating = "no")) /\ seq' = seq + 1
      BY <1>1 DEF RadixTypeOK, radix_mut_lock
    <3>2. ((seq' % 2 = 0) <=> (mutating' = "no")) /\ seq' \in Nat
      BY SMTT(30), <1>1, <3>1 DEF radix_mut_lock
    <3>3. QED
      BY <1>1, <3>2 DEF RadixTypeOK, radix_mut_lock, locals
  <2>2. TreeInv'
    BY <1>1 DEF TreeInv, radix_mut_lock
  <2>3. QED
    BY SMTT(30), <1>1, <2>1, <2>2, TreeStep DEF radix_mut_lock, RadixTypeOK, SeenMutation, Protected
<1>2. CASE radix_mut_unlock
  <2>1. RadixTypeOK'
    <3>1. seq \in Nat /\ ((seq % 2 = 0) <=> (mutating = "no")) /\ seq' = seq + 1
      BY <1>2 DEF RadixTypeOK, radix_mut_unlock
    <3>2. ((seq' % 2 = 0) <=> (mutating' = "no")) /\ seq' \in Nat
      BY SMTT(30), <1>2, <3>1 DEF radix_mut_unlock
    <3>3. QED
      BY <1>2, <3>2 DEF RadixTypeOK, radix_mut_unlock, locals
  <2>2. TreeInv'
    BY <1>2 DEF TreeInv, radix_mut_unlock
  <2>3. QED
    BY SMTT(30), <1>2, <2>1, <2>2, TreeStep DEF radix_mut_unlock, RadixTypeOK, SeenMutation, Protected
<1>3. ASSUME NEW k \in Chunks, asc_radix_tree_delete(k) PROVE RadixInv'
  <2>1. RadixTypeOK'
    BY <1>3 DEF RadixTypeOK, asc_radix_tree_delete, locals
  <2>2. TreeInv'
    BY <1>3 DEF TreeInv, RadixTypeOK, asc_radix_tree_delete
  <2>3. \A s \in Nat : SeenMutation(s) => SeenMutation(s)' /\ s # seq'
    BY SMTT(30), <1>3 DEF SeenMutation, RadixTypeOK, asc_radix_tree_delete
  <2>4. ASSUME NEW r \in Readers, NEW l \in Leaves, at[r] # "idle", Protected(r, l)
        PROVE  Protected(r, l)'
    <3>1. CASE root[k] = l
      BY <1>3, <2>4, <3>1 DEF Protected, RadixTypeOK, asc_radix_tree_delete
    <3>2. CASE root[k] # l
      BY <1>3, <2>4, <3>2 DEF Protected, RadixTypeOK, asc_radix_tree_delete
    <3>3. QED
      BY <3>1, <3>2
  <2>5. QED
    BY <1>3, <2>1, <2>2, <2>3, <2>4, TreeStep DEF asc_radix_tree_delete
<1>4. ASSUME NEW k \in Chunks, NEW l \in Leaves, AttachLeaf(k, l) PROVE RadixInv'
  <2>1. RadixTypeOK'
    BY <1>4 DEF RadixTypeOK, AttachLeaf, locals
  <2>2. TreeInv'
    BY <1>4 DEF TreeInv, RadixTypeOK, AttachLeaf
  <2>3. \A s \in Nat : SeenMutation(s) => SeenMutation(s)' /\ s # seq'
    BY SMTT(30), <1>4 DEF SeenMutation, RadixTypeOK, AttachLeaf
  <2>4. ASSUME NEW r \in Readers, NEW m \in Leaves, Protected(r, m)
        PROVE  Protected(r, m)'
    <3>1. m # None /\ \A j \in Chunks : root[j] = m => root'[j] = m
      BY <1>4, RadixConstants DEF RadixTypeOK, AttachLeaf
    <3>2. QED
      BY <1>4, <2>4, <3>1 DEF Protected, AttachLeaf
  <2>5. QED
    BY <1>4, <2>1, <2>2, <2>3, <2>4, TreeStep DEF AttachLeaf
<1>5. ASSUME NEW k \in Chunks, NEW p \in Pages, asc_radix_tree_insert(k, p) PROVE RadixInv'
  <2>1. RadixTypeOK'
    BY <1>5 DEF RadixTypeOK, asc_radix_tree_insert, locals
  <2>2. TreeInv'
    BY <1>5 DEF TreeInv, asc_radix_tree_insert
  <2>3. \A s \in Nat : SeenMutation(s) => SeenMutation(s)' /\ s # seq'
    BY SMTT(30), <1>5 DEF SeenMutation, RadixTypeOK, asc_radix_tree_insert
  <2>4. QED
    BY <1>5, <2>1, <2>2, <2>3, TreeStep DEF asc_radix_tree_insert, Protected
<1>6. ASSUME NEW l \in Leaves, FreeLeaf(l) PROVE RadixInv'
  <2>1. RadixTypeOK'
    BY <1>6 DEF RadixTypeOK, FreeLeaf, locals
  <2>2. TreeInv'
    BY <1>6 DEF TreeInv, FreeLeaf
  <2>3. \A s \in Nat : SeenMutation(s) => SeenMutation(s)'
    BY <1>6 DEF SeenMutation, FreeLeaf
  <2>4. \A r \in Readers, m \in Leaves : Protected(r, m) => Protected(r, m)'
    BY <1>6 DEF Protected, FreeLeaf
  <2>5. QED
    BY <1>6, <2>1, <2>2, <2>3, <2>4, TreeStep DEF FreeLeaf
<1>7. QED
  BY <1>1, <1>2, <1>3, <1>4, <1>5, <1>6

\* A step of one lookup: the others are protected as before, and what they
\* compare with the remembered leaf is not replaced under them.
LEMMA LookupStep ==
    ASSUME SoleUser, RadixInv, NEW r \in Readers, RadixTypeOK', CacheInv', LookupInv(r)',
           UNCHANGED <<seq, root, slot, free, mutating>>,
           cached' = cached \/ r \in CacheUsers,
           \A l \in Leaves : waiting[l] \ {r} \subseteq waiting'[l],
           \A q \in Readers \ {r} :
               /\ at'[q] = at[q] /\ want'[q] = want[q] /\ s1'[q] = s1[q]
               /\ leaf'[q] = leaf[q] /\ value'[q] = value[q]
    PROVE  RadixInv'
<1>1. TreeInv'
  BY DEF RadixInv, TreeInv
<1>2. ASSUME NEW q \in Readers \ {r} PROVE LookupInv(q)'
  <2>1. LookupInv(q) /\ cached.leaf \in Leaves \cup {None} /\ leaf[q] \in Leaves \cup {None}
    BY DEF RadixInv, RadixTypeOK
  <2>2. \A l \in Leaves : Protected(q, l) => Protected(q, l)'
    BY DEF Protected
  <2>3. at[q] \in {"chunk", "leaf", "seq"} \cup Puts => cached' = cached
    BY <2>1 DEF LookupInv, SoleUser
  <2>5. at[q] \in {"chunk", "leaf", "seq"} /\ cached.leaf # None /\ cached.seq = s1[q] =>
            Protected(q, cached.leaf)'
    BY <2>1, <2>2, <2>3 DEF LookupInv
  <2>6. at[q] \in {"load", "walkload"} => Protected(q, leaf[q])'
    BY <2>1, <2>2 DEF LookupInv
  <2>7. SeenMutation(s1[q])' <=> SeenMutation(s1[q])
    BY DEF SeenMutation
  <2>8. QED
    BY <2>1, <2>3, <2>5, <2>6, <2>7 DEF LookupInv, Stable, Puts
<1>3. QED
  BY <1>1, <1>2 DEF RadixInv

\* A lookup begins: what is remembered under the counter's present value is
\* in the tree, and stays allocated until this lookup is over.
LEMMA BeginStep ==
    ASSUME SoleUser, RadixInv, NEW r \in Readers, NEW k \in Chunks, LookupBegin(r, k)
    PROVE  RadixInv'
<1>1. RadixTypeOK'
  BY DEF RadixInv, RadixTypeOK, LookupBegin, RadixStep, treeVars
<1>2. /\ at[r] = "idle" /\ at'[r] \in {"unstable", "chunk", "walk"} /\ seq \in Nat
      /\ at'[r] # "unstable" => mutating = "no"
      /\ at'[r] = "chunk" => r \in CacheUsers
      /\ want'[r] = k /\ s1'[r] = seq /\ k # None
      /\ \A q \in Readers \ {r} : at'[q] = at[q] /\ want'[q] = want[q] /\ s1'[q] = s1[q]
  BY SMTT(30), RadixConstants DEF RadixInv, RadixTypeOK, LookupBegin, RadixStep
<1>3. Unfinished' <=> Unfinished
  BY <1>2, RadixConstants DEF Unfinished
<1>4. CacheInv'
  BY <1>3 DEF RadixInv, CacheInv, SeenMutation, LookupBegin, treeVars
<1>5. ASSUME at'[r] = "chunk", cached.leaf # None, cached.seq = seq
      PROVE  root[cached.chunk] = cached.leaf /\ Protected(r, cached.leaf)
  <2>1. ~Unfinished
    BY <1>2, <1>5 DEF Unfinished, SoleUser
  <2>2. cached.chunk \in Chunks /\ cached.leaf \in Leaves /\ root[cached.chunk] = cached.leaf
    BY <1>5, <2>1 DEF RadixInv, CacheInv, RadixTypeOK
  <2>3. QED
    BY <1>5, <2>2 DEF RadixInv, TreeInv, Protected
<1>6. LookupInv(r)'
  BY SMTT(30), <1>2, <1>5 DEF LookupInv, SeenMutation, LookupBegin, treeVars, Puts, Protected
<1>7. QED
  BY <1>1, <1>2, <1>4, <1>6, LookupStep DEF LookupBegin, treeVars

\* A lookup returns: it needs nothing any more.
LEMMA LeaveStep ==
    ASSUME SoleUser, RadixInv, NEW r \in Readers, NEW from \in {"unstable", "check"},
           NEW v \in Pages \cup {None}, Leave(r, from, v)
    PROVE  RadixInv'
<1>1. RadixTypeOK'
  BY DEF RadixInv, RadixTypeOK, Leave, RadixStep
<1>2. /\ at[r] = from /\ at'[r] = "idle" /\ UNCHANGED <<seq, root, slot, free, mutating, cached>>
      /\ \A q \in Readers \ {r} : /\ at'[q] = at[q] /\ want'[q] = want[q] /\ s1'[q] = s1[q]
                                  /\ leaf'[q] = leaf[q] /\ value'[q] = value[q]
      /\ \A l \in Leaves : waiting'[l] = waiting[l] \ {r}
  BY DEF RadixInv, RadixTypeOK, Leave, RadixStep
<1>3. Unfinished' <=> Unfinished
  BY <1>2, RadixConstants DEF Unfinished
<1>4. CacheInv'
  BY <1>2, <1>3 DEF RadixInv, CacheInv, SeenMutation
<1>5. LookupInv(r)'
  BY <1>2 DEF LookupInv, Puts
<1>6. QED
  BY <1>1, <1>2, <1>4, <1>5, LookupStep

\* The steps in between move one lookup and change its locals or, if it is
\* the one that may, the remembered leaf: nothing in the tree.

\* The remembered chunk is compared.
LEMMA TestChunkStep ==
    ASSUME SoleUser, RadixInv, NEW r \in Readers, TestChunk(r)
    PROVE  RadixInv'
<1>1. RadixTypeOK'
  BY DEF RadixInv, RadixTypeOK, LookupInv, TestChunk, RadixStep, treeVars
<1>2. /\ LookupInv(r) /\ UNCHANGED treeVars
      /\ at[r] = "chunk" /\ UNCHANGED <<cached, want, s1, leaf, value>>
      /\ at'[r] = IF cached.chunk = want[r] THEN "leaf" ELSE "walk"
      /\ \A q \in Readers \ {r} : /\ at'[q] = at[q] /\ want'[q] = want[q] /\ s1'[q] = s1[q]
                                  /\ leaf'[q] = leaf[q] /\ value'[q] = value[q]
  BY DEF RadixInv, RadixTypeOK, TestChunk, RadixStep
<1>3. UNCHANGED <<seq, root, slot, free, mutating, waiting>>
  BY <1>2 DEF treeVars
<1>4. CacheInv'
  <2>1. Unfinished' <=> Unfinished
    BY <1>2, RadixConstants DEF Unfinished
  <2>2. SeenMutation(cached.seq)' <=> SeenMutation(cached.seq)
    BY <1>2, <1>3 DEF SeenMutation
  <2>3. QED
    BY <1>2, <1>3, <2>1, <2>2 DEF RadixInv, CacheInv
<1>5. /\ SeenMutation(s1[r])' <=> SeenMutation(s1[r])
      /\ Protected(r, cached.leaf)' <=> Protected(r, cached'.leaf)
      /\ Protected(r, leaf[r])' <=> Protected(r, leaf'[r])
  BY <1>2, <1>3 DEF SeenMutation, Protected
<1>6. LookupInv(r)'
  BY <1>2, <1>3, <1>5 DEF LookupInv, Stable, Puts
<1>7. QED
  BY <1>1, <1>2, <1>3, <1>4, <1>6, LookupStep

\* The remembered leaf is loaded.
LEMMA TestLeafStep ==
    ASSUME SoleUser, RadixInv, NEW r \in Readers, TestLeaf(r)
    PROVE  RadixInv'
<1>1. RadixTypeOK'
  BY DEF RadixInv, RadixTypeOK, LookupInv, TestLeaf, RadixStep, treeVars
<1>2. /\ LookupInv(r) /\ UNCHANGED treeVars
      /\ at[r] = "leaf" /\ UNCHANGED <<cached, want, s1, value>> /\ leaf'[r] = cached.leaf
      /\ at'[r] = IF cached.leaf # None THEN "seq" ELSE "walk"
      /\ \A q \in Readers \ {r} : /\ at'[q] = at[q] /\ want'[q] = want[q] /\ s1'[q] = s1[q]
                                  /\ leaf'[q] = leaf[q] /\ value'[q] = value[q]
  BY DEF RadixInv, RadixTypeOK, TestLeaf, RadixStep
<1>3. UNCHANGED <<seq, root, slot, free, mutating, waiting>>
  BY <1>2 DEF treeVars
<1>4. CacheInv'
  <2>1. Unfinished' <=> Unfinished
    BY <1>2, RadixConstants DEF Unfinished
  <2>2. SeenMutation(cached.seq)' <=> SeenMutation(cached.seq)
    BY <1>2, <1>3 DEF SeenMutation
  <2>3. QED
    BY <1>2, <1>3, <2>1, <2>2 DEF RadixInv, CacheInv
<1>5. /\ SeenMutation(s1[r])' <=> SeenMutation(s1[r])
      /\ Protected(r, cached.leaf)' <=> Protected(r, cached'.leaf)
      /\ Protected(r, leaf[r])' <=> Protected(r, leaf'[r])
  BY <1>2, <1>3 DEF SeenMutation, Protected
<1>6. LookupInv(r)'
  BY <1>2, <1>3, <1>5 DEF LookupInv, Stable, Puts
<1>7. QED
  BY <1>1, <1>2, <1>3, <1>4, <1>6, LookupStep

\* A leaf remembered under the counter this lookup began with is used.
LEMMA TestSeqStep ==
    ASSUME SoleUser, RadixInv, NEW r \in Readers, TestSeq(r)
    PROVE  RadixInv'
<1>1. RadixTypeOK'
  BY DEF RadixInv, RadixTypeOK, LookupInv, TestSeq, RadixStep, treeVars
<1>2. /\ LookupInv(r) /\ UNCHANGED treeVars
      /\ at[r] = "seq" /\ UNCHANGED <<cached, want, s1, leaf, value>>
      /\ at'[r] = IF cached.seq = s1[r] THEN "load" ELSE "walk"
      /\ \A q \in Readers \ {r} : /\ at'[q] = at[q] /\ want'[q] = want[q] /\ s1'[q] = s1[q]
                                  /\ leaf'[q] = leaf[q] /\ value'[q] = value[q]
  BY DEF RadixInv, RadixTypeOK, TestSeq, RadixStep, SeqMatches
<1>3. UNCHANGED <<seq, root, slot, free, mutating, waiting>>
  BY <1>2 DEF treeVars
<1>4. CacheInv'
  <2>1. Unfinished' <=> Unfinished
    BY <1>2, RadixConstants DEF Unfinished
  <2>2. SeenMutation(cached.seq)' <=> SeenMutation(cached.seq)
    BY <1>2, <1>3 DEF SeenMutation
  <2>3. QED
    BY <1>2, <1>3, <2>1, <2>2 DEF RadixInv, CacheInv
<1>5. /\ SeenMutation(s1[r])' <=> SeenMutation(s1[r])
      /\ Protected(r, cached.leaf)' <=> Protected(r, cached'.leaf)
      /\ Protected(r, leaf[r])' <=> Protected(r, leaf'[r])
  BY <1>2, <1>3 DEF SeenMutation, Protected
<1>6. LookupInv(r)'
  BY <1>2, <1>3, <1>5 DEF LookupInv, Stable, Puts
<1>7. QED
  BY <1>1, <1>2, <1>3, <1>4, <1>6, LookupStep

\* The walk finds the leaf the tree has now.
LEMMA WalkStep ==
    ASSUME SoleUser, RadixInv, NEW r \in Readers, Walk(r)
    PROVE  RadixInv'
<1>1. RadixTypeOK'
  BY DEF RadixInv, RadixTypeOK, LookupInv, Walk, RadixStep, treeVars
<1>2. /\ LookupInv(r) /\ UNCHANGED treeVars
      /\ at[r] = "walk" /\ UNCHANGED <<cached, want, s1>> /\ leaf'[r] = root[want[r]]
      /\ value'[r] = None /\ at'[r] = IF root[want[r]] = None THEN "check" ELSE "walkload"
      /\ \A q \in Readers \ {r} : /\ at'[q] = at[q] /\ want'[q] = want[q] /\ s1'[q] = s1[q]
                                  /\ leaf'[q] = leaf[q] /\ value'[q] = value[q]
  BY DEF RadixInv, RadixTypeOK, Walk, RadixStep
<1>3. UNCHANGED <<seq, root, slot, free, mutating, waiting>>
  BY <1>2 DEF treeVars
<1>4. CacheInv'
  <2>1. Unfinished' <=> Unfinished
    BY <1>2, RadixConstants DEF Unfinished
  <2>2. SeenMutation(cached.seq)' <=> SeenMutation(cached.seq)
    BY <1>2, <1>3 DEF SeenMutation
  <2>3. QED
    BY <1>2, <1>3, <2>1, <2>2 DEF RadixInv, CacheInv
<1>5. want[r] \in Chunks /\ root[want[r]] \in Leaves \cup {None}
  BY <1>2 DEF LookupInv, RadixInv, RadixTypeOK
<1>6. root[want[r]] # None => Protected(r, root[want[r]])
  BY <1>5 DEF RadixInv, TreeInv, Protected
<1>7. SeenMutation(s1[r])' <=> SeenMutation(s1[r])
  BY <1>2, <1>3 DEF SeenMutation
<1>8. Protected(r, leaf[r])' <=> Protected(r, root[want[r]])
  BY <1>2, <1>3 DEF Protected
<1>9. LookupInv(r)'
  BY <1>2, <1>3, <1>6, <1>7, <1>8 DEF LookupInv, Stable, Puts
<1>10. QED
  BY <1>1, <1>2, <1>3, <1>4, <1>9, LookupStep

\* The slot of the leaf found.
LEMMA WalkLoadStep ==
    ASSUME SoleUser, RadixInv, NEW r \in Readers, WalkLoad(r)
    PROVE  RadixInv'
<1>1. RadixTypeOK'
  BY SMTT(30) DEF RadixInv, RadixTypeOK, LookupInv, WalkLoad, RadixStep, treeVars
<1>2. /\ LookupInv(r) /\ UNCHANGED treeVars
      /\ at[r] = "walkload" /\ UNCHANGED <<cached, want, s1, leaf>> /\ value'[r] = slot[leaf[r]]
      /\ at'[r] = IF r \in CacheUsers THEN "putchunk" ELSE "check"
      /\ \A q \in Readers \ {r} : /\ at'[q] = at[q] /\ want'[q] = want[q] /\ s1'[q] = s1[q]
                                  /\ leaf'[q] = leaf[q] /\ value'[q] = value[q]
  BY DEF RadixInv, RadixTypeOK, WalkLoad, RadixStep
<1>3. UNCHANGED <<seq, root, slot, free, mutating, waiting>>
  BY <1>2 DEF treeVars
<1>4. CacheInv'
  <2>1. Unfinished' <=> Unfinished
    BY <1>2, RadixConstants DEF Unfinished
  <2>2. SeenMutation(cached.seq)' <=> SeenMutation(cached.seq)
    BY <1>2, <1>3 DEF SeenMutation
  <2>3. QED
    BY <1>2, <1>3, <2>1, <2>2 DEF RadixInv, CacheInv
<1>5. /\ SeenMutation(s1[r])' <=> SeenMutation(s1[r])
      /\ Protected(r, cached.leaf)' <=> Protected(r, cached'.leaf)
      /\ Protected(r, leaf[r])' <=> Protected(r, leaf'[r])
  BY <1>2, <1>3 DEF SeenMutation, Protected
<1>6. LookupInv(r)'
  BY <1>2, <1>3, <1>5 DEF LookupInv, Stable, Puts
<1>7. QED
  BY <1>1, <1>2, <1>3, <1>4, <1>6, LookupStep

\* The slot of the leaf remembered.
LEMMA LoadSlotStep ==
    ASSUME SoleUser, RadixInv, NEW r \in Readers, LoadSlot(r)
    PROVE  RadixInv'
<1>1. RadixTypeOK'
  BY SMTT(30) DEF RadixInv, RadixTypeOK, LookupInv, LoadSlot, RadixStep, treeVars
<1>2. /\ LookupInv(r) /\ UNCHANGED treeVars
      /\ at[r] = "load" /\ UNCHANGED <<cached, want, s1, leaf>> /\ value'[r] = slot[leaf[r]]
      /\ at'[r] = "check"
      /\ \A q \in Readers \ {r} : /\ at'[q] = at[q] /\ want'[q] = want[q] /\ s1'[q] = s1[q]
                                  /\ leaf'[q] = leaf[q] /\ value'[q] = value[q]
  BY DEF RadixInv, RadixTypeOK, LoadSlot, RadixStep
<1>3. UNCHANGED <<seq, root, slot, free, mutating, waiting>>
  BY <1>2 DEF treeVars
<1>4. CacheInv'
  <2>1. Unfinished' <=> Unfinished
    BY <1>2, RadixConstants DEF Unfinished
  <2>2. SeenMutation(cached.seq)' <=> SeenMutation(cached.seq)
    BY <1>2, <1>3 DEF SeenMutation
  <2>3. QED
    BY <1>2, <1>3, <2>1, <2>2 DEF RadixInv, CacheInv
<1>5. /\ SeenMutation(s1[r])' <=> SeenMutation(s1[r])
      /\ Protected(r, cached.leaf)' <=> Protected(r, cached'.leaf)
      /\ Protected(r, leaf[r])' <=> Protected(r, leaf'[r])
  BY <1>2, <1>3 DEF SeenMutation, Protected
<1>6. LookupInv(r)'
  BY <1>2, <1>3, <1>5 DEF LookupInv, Stable, Puts
<1>7. QED
  BY <1>1, <1>2, <1>3, <1>4, <1>6, LookupStep

\* The first store of the new leaf.
LEMMA PutChunkStep ==
    ASSUME SoleUser, RadixInv, NEW r \in Readers, PutChunk(r)
    PROVE  RadixInv'
<1>1. RadixTypeOK'
  BY DEF RadixInv, RadixTypeOK, LookupInv, PutChunk, RadixStep, treeVars, Puts
<1>2. /\ LookupInv(r) /\ UNCHANGED treeVars
      /\ at[r] = "putchunk" /\ at'[r] = "putleaf" /\ UNCHANGED <<want, s1, leaf, value>>
      /\ cached'.chunk = want[r] /\ cached'.leaf = cached.leaf /\ cached'.seq = cached.seq
      /\ \A q \in Readers \ {r} : /\ at'[q] = at[q] /\ want'[q] = want[q] /\ s1'[q] = s1[q]
                                  /\ leaf'[q] = leaf[q] /\ value'[q] = value[q]
  BY DEF RadixInv, RadixTypeOK, PutChunk, RadixStep
<1>3. UNCHANGED <<seq, root, slot, free, mutating, waiting>>
  BY <1>2 DEF treeVars
<1>4. CacheInv'
  <2>1. Unfinished'
    BY <1>2 DEF LookupInv, Unfinished, Puts
  <2>2. want[r] # None
    BY <1>2 DEF LookupInv
  <2>3. SeenMutation(cached.seq)' <=> SeenMutation(cached.seq)
    BY <1>2, <1>3 DEF SeenMutation
  <2>4. QED
    BY <1>2, <1>3, <2>1, <2>2, <2>3 DEF RadixInv, CacheInv
<1>5. /\ SeenMutation(s1[r])' <=> SeenMutation(s1[r])
      /\ Protected(r, cached.leaf)' <=> Protected(r, cached'.leaf)
      /\ Protected(r, leaf[r])' <=> Protected(r, leaf'[r])
  BY <1>2, <1>3 DEF SeenMutation, Protected
<1>6. LookupInv(r)'
  BY <1>2, <1>3, <1>5 DEF LookupInv, Stable, Puts
<1>7. QED
  BY <1>1, <1>2, <1>3, <1>4, <1>6, LookupStep DEF LookupInv, Puts

\* The second.
LEMMA PutLeafStep ==
    ASSUME SoleUser, RadixInv, NEW r \in Readers, PutLeaf(r)
    PROVE  RadixInv'
<1>1. RadixTypeOK'
  BY DEF RadixInv, RadixTypeOK, LookupInv, PutLeaf, RadixStep, treeVars, Puts
<1>2. /\ LookupInv(r) /\ UNCHANGED treeVars
      /\ at[r] = "putleaf" /\ at'[r] = "putseq" /\ UNCHANGED <<want, s1, leaf, value>>
      /\ cached'.chunk = cached.chunk /\ cached'.leaf = leaf[r] /\ cached'.seq = cached.seq
      /\ \A q \in Readers \ {r} : /\ at'[q] = at[q] /\ want'[q] = want[q] /\ s1'[q] = s1[q]
                                  /\ leaf'[q] = leaf[q] /\ value'[q] = value[q]
  BY DEF RadixInv, RadixTypeOK, PutLeaf, RadixStep
<1>3. UNCHANGED <<seq, root, slot, free, mutating, waiting>>
  BY <1>2 DEF treeVars
<1>4. CacheInv'
  <2>1. Unfinished'
    BY <1>2 DEF LookupInv, Unfinished, Puts
  <2>2. want[r] # None /\ cached.chunk = want[r]
    BY <1>2 DEF LookupInv
  <2>3. SeenMutation(cached.seq)' <=> SeenMutation(cached.seq)
    BY <1>2, <1>3 DEF SeenMutation
  <2>4. QED
    BY <1>2, <1>3, <2>1, <2>2, <2>3 DEF RadixInv, CacheInv
<1>5. /\ SeenMutation(s1[r])' <=> SeenMutation(s1[r])
      /\ Protected(r, cached.leaf)' <=> Protected(r, cached'.leaf)
      /\ Protected(r, leaf[r])' <=> Protected(r, leaf'[r])
  BY <1>2, <1>3 DEF SeenMutation, Protected
<1>6. LookupInv(r)'
  BY <1>2, <1>3, <1>5 DEF LookupInv, Stable, Puts
<1>7. QED
  BY <1>1, <1>2, <1>3, <1>4, <1>6, LookupStep DEF LookupInv, Puts

\* The third: the remembered leaf is whole again.
LEMMA PutSeqStep ==
    ASSUME SoleUser, RadixInv, NEW r \in Readers, PutSeq(r)
    PROVE  RadixInv'
<1>1. RadixTypeOK'
  BY DEF RadixInv, RadixTypeOK, LookupInv, PutSeq, RadixStep, treeVars, Puts
<1>2. /\ LookupInv(r) /\ UNCHANGED treeVars
      /\ at[r] = "putseq" /\ at'[r] = "check" /\ UNCHANGED <<want, s1, leaf, value>>
      /\ cached'.chunk = cached.chunk /\ cached'.leaf = cached.leaf /\ cached'.seq = s1[r]
      /\ \A q \in Readers \ {r} : /\ at'[q] = at[q] /\ want'[q] = want[q] /\ s1'[q] = s1[q]
                                  /\ leaf'[q] = leaf[q] /\ value'[q] = value[q]
  BY DEF RadixInv, RadixTypeOK, PutSeq, RadixStep
<1>3. UNCHANGED <<seq, root, slot, free, mutating, waiting>>
  BY <1>2 DEF treeVars
<1>4. CacheInv'
  <2>1. /\ want[r] # None /\ cached.chunk = want[r] /\ cached.leaf = leaf[r] /\ SeenMutation(s1[r])
        /\ s1[r] = seq => root[want[r]] = leaf[r]
    BY <1>2 DEF LookupInv, Puts
  <2>2. SeenMutation(cached.seq)'
    BY <1>2, <1>3, <2>1 DEF SeenMutation
  <2>3. QED
    BY <1>2, <1>3, <2>1, <2>2 DEF CacheInv
<1>5. /\ SeenMutation(s1[r])' <=> SeenMutation(s1[r])
      /\ Protected(r, cached.leaf)' <=> Protected(r, cached'.leaf)
      /\ Protected(r, leaf[r])' <=> Protected(r, leaf'[r])
  BY <1>2, <1>3 DEF SeenMutation, Protected
<1>6. LookupInv(r)'
  BY <1>2, <1>3, <1>5 DEF LookupInv, Stable, Puts
<1>7. QED
  BY <1>1, <1>2, <1>3, <1>4, <1>6, LookupStep DEF LookupInv, Puts

\* Every step keeps the invariant.
LEMMA RadixNextInv == ASSUME SoleUser, RadixInv, [RadixNext]_radixVars PROVE RadixInv'
<1>1. CASE UNCHANGED radixVars
  <2>1. RadixTypeOK'
    BY <1>1 DEF radixVars, treeVars, locals, RadixInv, RadixTypeOK
  <2>2. TreeInv'
    BY <1>1 DEF radixVars, treeVars, RadixInv, TreeInv
  <2>3. QED
    BY <1>1, <2>1, <2>2, TreeStep DEF radixVars, treeVars, SeenMutation, Protected
<1>2. ASSUME NEW r \in Readers, Lookup(r) PROVE RadixInv'
  <2>1. value[r] \in Pages \cup {None}
    BY DEF RadixInv, RadixTypeOK
  <2>2. LookupUnstable(r) \/ LookupReturn(r) => RadixInv'
    BY <2>1, LeaveStep DEF LookupUnstable, LookupReturn
  <2>3. QED
    BY <1>2, <2>2, BeginStep, TestChunkStep, TestLeafStep, TestSeqStep, WalkStep, WalkLoadStep,
       PutChunkStep, PutLeafStep, PutSeqStep, LoadSlotStep DEF Lookup
<1>3. QED
  BY <1>1, <1>2, MutationStep DEF RadixNext

\* The invariant says what the properties say.
LEMMA RadixInvImplies == RadixInv => LookupAgrees /\ LeafAlive
BY DEF RadixInv, LookupInv, LookupAgrees, LeafAlive, Protected

(***************************************************************************)
(* A stable return of the lockless lookup is what the locked one would     *)
(* return, when the remembered leaf has one user: the counter the lookup   *)
(* validates covers the walk and the remembered leaf.                      *)
(***************************************************************************)
THEOREM RadixLookupAgrees == SoleUser => (RadixSpec => []LookupAgrees)
<1> SUFFICES ASSUME SoleUser PROVE RadixSpec => []LookupAgrees
  OBVIOUS
<1>1. RadixInv /\ [RadixNext]_radixVars => RadixInv'
  BY RadixNextInv
<1>2. QED
  BY RadixInitInv, <1>1, RadixInvImplies, PTL DEF RadixSpec

(***************************************************************************)
(* And the leaf it reads has not gone back to the allocator.               *)
(***************************************************************************)
THEOREM RadixLeafAlive == SoleUser => (RadixSpec => []LeafAlive)
<1> SUFFICES ASSUME SoleUser PROVE RadixSpec => []LeafAlive
  OBVIOUS
<1>1. RadixInv /\ [RadixNext]_radixVars => RadixInv'
  BY RadixNextInv
<1>2. QED
  BY RadixInitInv, <1>1, RadixInvImplies, PTL DEF RadixSpec

-----------------------------------------------------------------------------
(* Nvme, for every queue depth, wave and set of callers.  NvmeInv is the     *)
(* inductive invariant of the three properties.                              *)

LEMMA NextSlot ==
    ASSUME NEW i \in CIDs
    PROVE  (i + 1) % Depth \in CIDs /\ (i + 1) % Depth = IF i + 1 = Depth THEN 0 ELSE i + 1
BY SMTT(30), NvmeConstants DEF CIDs

LEMMA CidZero == 0 \in CIDs
BY SMTT(30), NvmeConstants DEF CIDs

\* The parts of a call.
LEMMA CallFields ==
    ASSUME NEW r \in CallRecords
    PROVE  /\ r.pc \in CallPcs /\ r.kind \in {"bounce", "batch", "shutdown"}
           /\ r.calls \in Nat /\ r.next \in Nat \ {0} /\ r.cid \in CIDs
           /\ r.wave \subseteq Entries /\ r.rc \in {0, -1, -2}
BY SMTT(30) DEF CallRecords

\* What storing into one field leaves.
LEMMA WithPc ==
    ASSUME NEW r \in CallRecords, NEW x \in CallPcs, NEW o, o = [r EXCEPT !.pc = x]
    PROVE  /\ o \in CallRecords /\ o.pc = x
           /\ o.kind = r.kind /\ o.calls = r.calls /\ o.next = r.next
           /\ o.cid = r.cid /\ o.wave = r.wave /\ o.rc = r.rc
BY SMTT(30) DEF CallRecords

LEMMA WithKind ==
    ASSUME NEW r \in CallRecords, NEW x \in {"bounce", "batch", "shutdown"}, NEW o, o = [r EXCEPT !.kind = x]
    PROVE  /\ o \in CallRecords /\ o.kind = x
           /\ o.pc = r.pc /\ o.calls = r.calls /\ o.next = r.next
           /\ o.cid = r.cid /\ o.wave = r.wave /\ o.rc = r.rc
BY SMTT(30) DEF CallRecords

LEMMA WithNext ==
    ASSUME NEW r \in CallRecords, NEW x \in Nat \ {0}, NEW o, o = [r EXCEPT !.next = x]
    PROVE  /\ o \in CallRecords /\ o.next = x
           /\ o.pc = r.pc /\ o.kind = r.kind /\ o.calls = r.calls
           /\ o.cid = r.cid /\ o.wave = r.wave /\ o.rc = r.rc
BY SMTT(30) DEF CallRecords

LEMMA WithCid ==
    ASSUME NEW r \in CallRecords, NEW x \in CIDs, NEW o, o = [r EXCEPT !.cid = x]
    PROVE  /\ o \in CallRecords /\ o.cid = x
           /\ o.pc = r.pc /\ o.kind = r.kind /\ o.calls = r.calls
           /\ o.next = r.next /\ o.wave = r.wave /\ o.rc = r.rc
BY SMTT(30) DEF CallRecords

LEMMA WithWave ==
    ASSUME NEW r \in CallRecords, NEW x \in SUBSET Entries, NEW o, o = [r EXCEPT !.wave = x]
    PROVE  /\ o \in CallRecords /\ o.wave = x
           /\ o.pc = r.pc /\ o.kind = r.kind /\ o.calls = r.calls
           /\ o.next = r.next /\ o.cid = r.cid /\ o.rc = r.rc
BY SMTT(30) DEF CallRecords

LEMMA WithRc ==
    ASSUME NEW r \in CallRecords, NEW x \in {0, -1, -2}, NEW o, o = [r EXCEPT !.rc = x]
    PROVE  /\ o \in CallRecords /\ o.rc = x
           /\ o.pc = r.pc /\ o.kind = r.kind /\ o.calls = r.calls
           /\ o.next = r.next /\ o.cid = r.cid /\ o.wave = r.wave
BY SMTT(30) DEF CallRecords

LEMMA NoCallType ==
    ASSUME NEW n \in Nat
    PROVE  /\ [NoCall EXCEPT !.calls = n] \in CallRecords
           /\ [NoCall EXCEPT !.calls = n].pc = "idle" /\ [NoCall EXCEPT !.calls = n].wave = {}
           /\ [NoCall EXCEPT !.calls = n].calls = n /\ [NoCall EXCEPT !.calls = n].kind = "bounce"
<1>1. 0 \in CIDs
  BY CidZero
<1>2. QED
  BY SMTT(30), <1>1 DEF NoCall, CallRecords, CallPcs

LEMMA OverFacts ==
    ASSUME NEW r \in CallRecords, NEW rc \in {0, -1, -2}
    PROVE  /\ Over(r, rc) \in CallRecords /\ Over(r, rc).wave = {}
           /\ r.kind = "bounce" => /\ Over(r, rc).pc = "free" /\ Over(r, rc).rc = rc
                                   /\ Over(r, rc).calls = r.calls
                                   /\ Over(r, rc).kind = "bounce"
           /\ r.kind # "bounce" => /\ Over(r, rc).pc = "idle"
                                   /\ Over(r, rc).calls = r.calls + 1
           /\ CallOK(Over(r, rc)) /\ CallOK(Over(r, rc))'
           /\ Over(r, rc).pc \in {"free", "idle"}
<1>1. CASE r.kind = "bounce"
  <2>1. Over(r, rc) = [r EXCEPT !.pc = "free", !.rc = rc, !.wave = {}]
    BY <1>1 DEF Over
  <2>2. PICK a : a = [r EXCEPT !.pc = "free"]
    OBVIOUS
  <2>3. PICK b : b = [a EXCEPT !.rc = rc]
    OBVIOUS
  <2>4. Over(r, rc) = [b EXCEPT !.wave = {}]
    BY SMTT(30), <2>1, <2>2, <2>3
  <2>5. /\ a \in CallRecords /\ a.pc = "free" /\ a.calls = r.calls /\ a.kind = r.kind
    <3>1. "free" \in CallPcs
      BY DEF CallPcs
    <3>2. QED
      BY SMTT(30), <2>2, <3>1, WithPc
  <2>6. /\ b \in CallRecords /\ b.pc = "free" /\ b.calls = r.calls /\ b.kind = r.kind /\ b.rc = rc
    BY SMTT(30), <2>3, <2>5, WithRc
  <2>7. /\ Over(r, rc) \in CallRecords /\ Over(r, rc).wave = {} /\ Over(r, rc).pc = "free"
        /\ Over(r, rc).rc = rc /\ Over(r, rc).calls = r.calls /\ Over(r, rc).kind = r.kind
    <3>1. {} \in SUBSET Entries
      OBVIOUS
    <3>2. QED
      BY SMTT(30), <2>4, <2>6, <3>1, WithWave
  <2>8. QED
    BY <1>1, <2>7 DEF CallOK
<1>2. CASE r.kind # "bounce"
  <2>1. r.calls + 1 \in Nat
    BY SMTT(30), CallFields
  <2>2. Over(r, rc) = [NoCall EXCEPT !.calls = r.calls + 1]
    BY <1>2 DEF Over
  <2>3. PICK n \in Nat : n = r.calls + 1
    BY <2>1
  <2>4. Over(r, rc) = [NoCall EXCEPT !.calls = n]
    BY <2>2, <2>3
  <2>5. /\ Over(r, rc) \in CallRecords /\ Over(r, rc).wave = {} /\ Over(r, rc).pc = "idle"
        /\ Over(r, rc).calls = n
    BY SMTT(30), <2>4, NoCallType
  <2>6. QED
    BY <1>2, <2>3, <2>5 DEF CallOK
<1>3. QED
  BY <1>1, <1>2

\* Only the call of t changes, to r.
Moved(t, r) ==
    /\ call'[t] = r /\ \A u \in Callers \ {t} : call'[u] = call[u]
    /\ call' \in [Callers -> CallRecords]

LEMMA SetCallMoves ==
    ASSUME NvmeTypeOK, NEW t \in Callers, NEW r \in CallRecords, SetCall(t, r)
    PROVE  Moved(t, r)
BY SMTT(30) DEF NvmeTypeOK, SetCall, Moved

LEMMA CallTypes ==
    ASSUME NvmeTypeOK
    PROVE  \A t \in Callers : call[t] \in CallRecords
BY SMTT(30) DEF NvmeTypeOK

LEMMA QueueTypes ==
    ASSUME NvmeTypeOK
    PROVE  /\ vq.in_use \subseteq CIDs
           /\ vq \in Queues /\ vq.result \in [CIDs -> Verdicts]
           /\ vq.sq \in [CIDs -> Entries \cup {NoEntry}] /\ vq.tail \in CIDs
           /\ vq.cq \in Seq(Completions) /\ dev.head \in CIDs /\ dev.running \subseteq Entries
BY SMTT(30) DEF NvmeTypeOK, Queues

LEMMA EntryFields ==
    ASSUME NEW e \in Entries
    PROVE  /\ e.cid \in CIDs /\ e.cmd \in Commands /\ e.cmd.by \in Callers
           /\ e.cmd.kind \in {"bounce", "batch"} /\ e.cmd.call \in Nat
BY SMTT(30) DEF Entries, Commands

LEMMA RegisterTypes ==
    ASSUME NvmeTypeOK
    PROVE  /\ ctrl.failed \in BOOLEAN /\ ctrl.io_ready \in BOOLEAN
           /\ ctrl.dma_quiesced \in BOOLEAN /\ reg.en \in BOOLEAN /\ reg.rdy \in BOOLEAN
BY SMTT(30) DEF NvmeTypeOK

\* What storing into one field of the queue leaves.
LEMMA WithInUse ==
    ASSUME NEW q \in Queues, NEW x \in SUBSET CIDs, NEW o, o = [q EXCEPT !.in_use = x]
    PROVE  /\ o \in Queues /\ o.in_use = x /\ o.result = q.result
           /\ o.tail = q.tail /\ o.sq = q.sq /\ o.cq = q.cq
BY SMTT(30) DEF Queues

LEMMA WithResult ==
    ASSUME NEW q \in Queues, NEW x \in [CIDs -> Verdicts], NEW o, o = [q EXCEPT !.result = x]
    PROVE  /\ o \in Queues /\ o.result = x /\ o.in_use = q.in_use
           /\ o.tail = q.tail /\ o.sq = q.sq /\ o.cq = q.cq
BY SMTT(30) DEF Queues

LEMMA WithTail ==
    ASSUME NEW q \in Queues, NEW x \in CIDs, NEW o, o = [q EXCEPT !.tail = x]
    PROVE  /\ o \in Queues /\ o.tail = x /\ o.in_use = q.in_use
           /\ o.result = q.result /\ o.sq = q.sq /\ o.cq = q.cq
BY SMTT(30) DEF Queues

LEMMA WithSq ==
    ASSUME NEW q \in Queues, NEW x \in [CIDs -> Entries \cup {NoEntry}], NEW o,
           o = [q EXCEPT !.sq = x]
    PROVE  /\ o \in Queues /\ o.sq = x /\ o.in_use = q.in_use
           /\ o.result = q.result /\ o.tail = q.tail /\ o.cq = q.cq
BY SMTT(30) DEF Queues

LEMMA WithCq ==
    ASSUME NEW q \in Queues, NEW x \in Seq(Completions), NEW o, o = [q EXCEPT !.cq = x]
    PROVE  /\ o \in Queues /\ o.cq = x /\ o.in_use = q.in_use
           /\ o.result = q.result /\ o.tail = q.tail /\ o.sq = q.sq
<1>1. PICK S : S = Seq(Completions)
  OBVIOUS
<1>2. q \in [in_use : SUBSET CIDs, result : [CIDs -> Verdicts], tail : CIDs,
            sq : [CIDs -> Entries \cup {NoEntry}], cq : S] /\ x \in S
  BY <1>1 DEF Queues
<1>3. /\ o \in [in_use : SUBSET CIDs, result : [CIDs -> Verdicts], tail : CIDs,
               sq : [CIDs -> Entries \cup {NoEntry}], cq : S]
      /\ o.cq = x /\ o.in_use = q.in_use
      /\ o.result = q.result /\ o.tail = q.tail /\ o.sq = q.sq
  BY SMTT(30), <1>2
<1>4. QED
  BY <1>1, <1>3 DEF Queues

LEMMA NoVerdictType == NoVerdict \in Verdicts /\ NoVerdict.v = 0
BY SMTT(30) DEF NoVerdict, Verdicts

\* A release empties the verdicts of cs and frees the identifiers.
LEMMA ReleasedFields ==
    ASSUME NvmeTypeOK, NEW cs \in SUBSET CIDs, vq' = Released(cs)
    PROVE  /\ vq' \in Queues /\ vq'.in_use = vq.in_use \ cs
           /\ \A c \in CIDs : vq'.result[c] = IF c \in cs THEN NoVerdict ELSE vq.result[c]
           /\ vq'.tail = vq.tail /\ vq'.sq = vq.sq /\ vq'.cq = vq.cq
<1>1. PICK u \in SUBSET CIDs : u = vq.in_use \ cs
  BY QueueTypes
<1>2. PICK f : f = [c \in CIDs |-> IF c \in cs THEN NoVerdict ELSE vq.result[c]]
  OBVIOUS
<1>3. f \in [CIDs -> Verdicts]
  BY SMTT(30), <1>2, QueueTypes, NoVerdictType
<1>4. PICK a : a = [vq EXCEPT !.in_use = u]
  OBVIOUS
<1>5. vq' = [a EXCEPT !.result = f]
  BY SMTT(30), <1>1, <1>2, <1>4 DEF Released
<1>6. /\ a \in Queues /\ a.in_use = u /\ a.tail = vq.tail /\ a.sq = vq.sq /\ a.cq = vq.cq
  <2>1. vq \in Queues
    BY QueueTypes
  <2>2. QED
    BY SMTT(30), <1>4, <2>1, WithInUse
<1>7. /\ vq' \in Queues /\ vq'.in_use = u /\ vq'.result = f /\ vq'.tail = vq.tail
      /\ vq'.sq = vq.sq /\ vq'.cq = vq.cq
  BY SMTT(30), <1>3, <1>5, <1>6, WithResult
<1>8. QED
  BY <1>1, <1>2, <1>7

-----------------------------------------------------------------------------
(* Steps that leave the rings alone *)

LEMMA RingsSame ==
    ASSUME OnceInv, RingInv, vq'.sq = vq.sq, vq'.cq = vq.cq, vq'.tail = vq.tail, dev' = dev
    PROVE  OnceInv' /\ RingInv'
<1>1. OnceInv'
  BY SMTT(30) DEF OnceInv, Sent
<1>2. RingInv'
  BY SMTT(30) DEF RingInv, Sent, Doorbelled
<1>3. QED
  BY <1>1, <1>2

\* A call moves without a change of its identifiers, or leaves its commands
\* behind when the controller has failed.
LEMMA MoveInv ==
    ASSUME NvmeInv, NEW t \in Callers, NEW r \in CallRecords, Moved(t, r), UNCHANGED <<vq, dev>>,
           ctrl.failed => ctrl'.failed, CallOK(r)',
           call[t].pc # "submit", r.pc # "submit",
           r.wave = call[t].wave \/ (r.wave = {} /\ ctrl'.failed)
    PROVE  CallsInv' /\ HeldInv' /\ VerdictsInv' /\ OwnedInv' /\ OnceInv' /\ RingInv'
<1>1. CallsInv /\ HeldInv /\ VerdictsInv /\ OwnedInv /\ OnceInv /\ RingInv
  BY DEF NvmeInv
<1>2. call'[t] = r /\ \A u \in Callers : u # t => call'[u] = call[u]
  BY DEF Moved
<1>3. CallsInv'
  BY <1>1, <1>2 DEF CallsInv, CallOK
<1>4. ASSUME NEW u \in Callers
      PROVE  /\ Held(u)' \subseteq Held(u) /\ (~ctrl'.failed => Held(u)' = Held(u))
             /\ call'[u].wave \subseteq call[u].wave
             /\ call'[u].pc = "submit" => call[u].pc = "submit" /\ call'[u].cid = call[u].cid
  <2>1. CASE u = t
    BY <1>2, <2>1 DEF Held, CallAt
  <2>2. CASE u # t
    BY <1>2, <2>2 DEF Held, CallAt
  <2>3. QED
    BY <2>1, <2>2
<1>5. HeldInv'
  <2>1. ASSUME NEW u \in Callers PROVE HeldOK(u)'
    <3>1. HeldOK(u)
      BY <1>1 DEF HeldInv
    <3>2. /\ Held(u)' \subseteq Held(u) /\ call'[u].wave \subseteq call[u].wave
          /\ call'[u].pc = "submit" => call[u].pc = "submit" /\ call'[u].cid = call[u].cid
      BY <1>4
    <3>3. Held(u)' \subseteq vq'.in_use /\ \A m, n \in call'[u].wave : m.cid = n.cid => m = n
      BY <3>1, <3>2 DEF HeldOK
    <3>4. QED
      BY <3>1, <3>2, <3>3 DEF HeldOK, CallAt
  <2>2. ASSUME NEW u \in Callers, NEW v \in Callers, u # v PROVE Held(u)' \cap Held(v)' = {}
    BY <1>1, <1>4, <2>2 DEF HeldInv
  <2>3. ASSUME ~ctrl'.failed, NEW c \in vq'.in_use PROVE \E u \in Callers : c \in Held(u)'
    <3>1. PICK u \in Callers : c \in Held(u)
      BY <1>1, <2>3 DEF HeldInv
    <3>2. QED
      BY <1>4, <2>3, <3>1
  <2>4. QED
    BY <2>1, <2>2, <2>3 DEF HeldInv
<1>6. VerdictsInv'
  BY <1>1, <1>4 DEF VerdictsInv
<1>7. ASSUME NEW e, Owned(e) PROVE Owned(e)'
  BY <1>4, <1>7 DEF Owned, CallAt
<1>8. OwnedInv'
  BY <1>1, <1>7 DEF OwnedInv, Sent
<1>9. OnceInv' /\ RingInv'
  BY <1>1 DEF OnceInv, RingInv, Sent, Doorbelled
<1>10. QED
  BY <1>3, <1>5, <1>6, <1>8, <1>9

\* A call gives identifiers back of commands that never went out, or that
\* have their verdict.
LEMMA ReleaseInv ==
    ASSUME NvmeInv, NEW t \in Callers, NEW r \in CallRecords, Moved(t, r),
           NEW cs \in SUBSET CIDs, vq' = Released(cs), UNCHANGED <<ctrl, dev>>,
           CallOK(r), r.pc # "submit", r.wave \subseteq call[t].wave, cs \subseteq Held(t),
           {m.cid : m \in r.wave} = Held(t) \ cs,
           \A c \in cs : vq.result[c].v # 0 \/ (CallAt(t, "submit") /\ c = call[t].cid)
    PROVE  CallsInv' /\ HeldInv' /\ VerdictsInv' /\ OwnedInv' /\ OnceInv' /\ RingInv'
<1>1. NvmeTypeOK /\ CallsInv /\ HeldInv /\ VerdictsInv /\ OwnedInv /\ OnceInv /\ RingInv
  BY DEF NvmeInv
<1>2. call'[t] = r /\ \A u \in Callers : u # t => call'[u] = call[u]
  BY DEF Moved
<1>3. /\ vq'.in_use = vq.in_use \ cs
      /\ \A c \in CIDs : vq'.result[c] = IF c \in cs THEN NoVerdict ELSE vq.result[c]
      /\ vq'.tail = vq.tail /\ vq'.sq = vq.sq /\ vq'.cq = vq.cq
  BY <1>1, ReleasedFields
<1>4. CallsInv'
  BY <1>1, <1>2 DEF CallsInv, CallOK
<1>5. Held(t)' = Held(t) \ cs /\ \A u \in Callers : u # t => Held(u)' = Held(u)
  BY <1>2 DEF Held, CallAt
<1>6. ASSUME NEW u \in Callers
      PROVE  /\ Held(u)' \subseteq Held(u) /\ Held(u)' \cap cs = {}
             /\ call'[u].wave \subseteq call[u].wave
             /\ call'[u].pc = "submit" => call[u].pc = "submit" /\ call'[u].cid = call[u].cid
  <2>1. CASE u = t
    BY <1>2, <1>5, <2>1
  <2>2. CASE u # t
    <3>1. Held(u) \cap Held(t) = {}
      BY <1>1, <2>2 DEF HeldInv
    <3>2. QED
      BY <1>2, <1>5, <2>2, <3>1
  <2>3. QED
    BY <2>1, <2>2
<1>7. ASSUME NEW u \in Callers
      PROVE  /\ \A m \in call'[u].wave : m.cid \in CIDs /\ vq'.result[m.cid] = vq.result[m.cid]
             /\ call'[u].pc = "submit" => vq'.result[call'[u].cid] = vq.result[call[u].cid]
  <2>1. Held(u)' \subseteq CIDs
    <3>1. Held(u) \subseteq vq.in_use
      BY <1>1 DEF HeldInv, HeldOK
    <3>2. QED
      BY <1>1, <1>6, <3>1, QueueTypes
  <2>2. ASSUME NEW m \in call'[u].wave PROVE m.cid \in Held(u)'
    BY <2>2 DEF Held
  <2>3. call'[u].pc = "submit" => call'[u].cid \in Held(u)'
    BY DEF Held, CallAt
  <2>4. QED
    BY <1>3, <1>6, <2>1, <2>2, <2>3
<1>8. HeldInv'
  <2>1. ASSUME NEW u \in Callers PROVE HeldOK(u)'
    <3>1. HeldOK(u)
      BY <1>1 DEF HeldInv
    <3>2. Held(u)' \subseteq vq'.in_use
      BY <1>3, <1>6, <3>1 DEF HeldOK
    <3>3. \A m, n \in call'[u].wave : m.cid = n.cid => m = n
      BY <1>6, <3>1 DEF HeldOK
    <3>4. QED
      BY <1>6, <1>7, <3>1, <3>2, <3>3 DEF HeldOK, CallAt
  <2>2. ASSUME NEW u \in Callers, NEW v \in Callers, u # v PROVE Held(u)' \cap Held(v)' = {}
    BY <1>1, <1>6, <2>2 DEF HeldInv
  <2>3. ASSUME ~ctrl'.failed, NEW c \in vq'.in_use PROVE \E u \in Callers : c \in Held(u)'
    <3>1. c \in vq.in_use /\ c \notin cs
      BY <1>3, <2>3
    <3>2. PICK u \in Callers : c \in Held(u)
      BY <1>1, <2>3, <3>1 DEF HeldInv
    <3>3. QED
      BY <1>5, <3>1, <3>2
  <2>4. QED
    BY <2>1, <2>2, <2>3 DEF HeldInv
<1>9. VerdictsInv'
  <2> SUFFICES ASSUME NEW u \in Callers, NEW m \in call'[u].wave, vq'.result[m.cid].v # 0
               PROVE  vq'.result[m.cid].cmd = m.cmd
    BY DEF VerdictsInv
  <2>1. m \in call[u].wave /\ vq'.result[m.cid] = vq.result[m.cid]
    BY <1>6, <1>7
  <2>2. QED
    BY <1>1, <2>1 DEF VerdictsInv
<1>10. ASSUME NEW e, Owned(e) PROVE Owned(e)'
  <2>1. e.cid \notin cs
    BY <1>10 DEF Owned
  <2>2. e.cid \in CIDs
    BY <1>1, <1>10, QueueTypes DEF Owned
  <2>3. QED
    BY <1>3, <1>6, <1>10, <2>1, <2>2 DEF Owned, CallAt
<1>11. OwnedInv'
  BY <1>1, <1>3, <1>10 DEF OwnedInv, Sent
<1>12. OnceInv' /\ RingInv'
  BY <1>1, <1>3, RingsSame
<1>13. QED
  BY <1>4, <1>8, <1>9, <1>11, <1>12

InFlight(e) == (\E i \in CIDs : Sent(i) /\ vq.sq[i] = e) \/ e \in dev.running

\* Registers only go off.
RegistersStep ==
    /\ ctrl.dma_quiesced => ctrl'.dma_quiesced
    /\ reg'.en => reg.en
    /\ ~reg'.rdy \/ ctrl'.dma_quiesced => ~reg'.en

\* A slot keeps its command, or has one of a call that waits for it.
SlotsKept ==
    \A i \in CIDs :
        Sent(i)' => \/ Sent(i) /\ vq'.sq[i] = vq.sq[i]
                    \/ PageOK(vq.sq[i])' /\ ~Forgotten(vq.sq[i])'

CommandsKept(t, r) ==
    \A e \in Entries :
        InFlight(e) /\ e.cmd.by = t /\ e.cmd.call = call[t].calls =>
            \/ /\ r.calls = call[t].calls /\ r.pc # "idle" /\ r.kind = call[t].kind
               /\ e \in r.wave \/ (r.pc = "free" /\ r.rc = -2)
            \/ /\ r.calls = call[t].calls + 1
               /\ e.cmd.kind = "bounce" =>
                    <<t, e.cmd.call>> \in kept' \/ (~reg'.en /\ ctrl'.dma_quiesced)

\* The current commands of a call that goes on are still its own; those of one
\* that is over are no bounce commands, or looked after.
LEMMA MovePages ==
    ASSUME NvmeInv, NEW t \in Callers, NEW r \in CallRecords, Moved(t, r),
           SlotsKept, dev'.running \subseteq dev.running, RegistersStep, kept \subseteq kept',
           r.calls = call[t].calls \/ r.calls = call[t].calls + 1,
           CommandsKept(t, r)
    PROVE  PagesInv'
<1>1. NvmeTypeOK /\ PagesInv
  BY DEF NvmeInv
<1>2. call'[t] = r /\ \A u \in Callers : u # t => call'[u] = call[u]
  BY DEF Moved
<1>3. call[t].calls \in Nat /\ r.calls \in Nat
  BY <1>1, CallTypes, CallFields
<1>4. ASSUME NEW e \in Entries, InFlight(e), PageOK(e)
      PROVE  PageOK(e)' /\ (Forgotten(e)' => Forgotten(e) \/ (~reg'.en /\ ctrl'.dma_quiesced))
  <2>1. e.cmd.by \in Callers /\ e.cmd.call \in Nat
    BY EntryFields
  <2>2. CASE e.cmd.by # t
    BY <1>2, <1>4, <2>1, <2>2 DEF PageOK, Forgotten
  <2>3. CASE e.cmd.by = t /\ e.cmd.call # call[t].calls
    <3>1. /\ e.cmd.call < call[t].calls /\ e.cmd.call < r.calls
          /\ e.cmd.call <= r.calls /\ e.cmd.call # r.calls
      BY SMTT(30), <1>3, <1>4, <2>1, <2>3 DEF PageOK
    <3>2. QED
      BY <1>2, <2>3, <3>1 DEF PageOK, Forgotten
  <2>4. CASE e.cmd.by = t /\ e.cmd.call = call[t].calls
    <3>1. e.cmd.kind = call[t].kind
      BY <1>4, <2>4 DEF PageOK
    <3>2. CASE /\ r.calls = call[t].calls /\ r.pc # "idle" /\ r.kind = call[t].kind
               /\ e \in r.wave \/ (r.pc = "free" /\ r.rc = -2)
      <4>1. e.cmd.call <= r.calls /\ ~(e.cmd.call < r.calls)
        BY SMTT(30), <1>3, <2>4, <3>2
      <4>2. QED
        BY <1>2, <2>4, <3>1, <3>2, <4>1 DEF PageOK, Forgotten
    <3>3. CASE /\ r.calls = call[t].calls + 1
               /\ e.cmd.kind = "bounce" =>
                    <<t, e.cmd.call>> \in kept' \/ (~reg'.en /\ ctrl'.dma_quiesced)
      <4>1. e.cmd.call <= r.calls /\ e.cmd.call # r.calls
        BY SMTT(30), <1>3, <2>4, <3>3
      <4>2. QED
        BY <1>2, <2>4, <3>3, <4>1 DEF PageOK, Forgotten
    <3>4. QED
      BY <1>4, <2>4, <3>2, <3>3 DEF CommandsKept
  <2>5. QED
    BY <2>2, <2>3, <2>4
<1>5. ASSUME NEW i \in CIDs, Sent(i)'
      PROVE  PageOK(vq.sq[i])' /\ (Forgotten(vq.sq[i])' => ~reg'.en)
  <2> SUFFICES ASSUME Sent(i), vq'.sq[i] = vq.sq[i]
               PROVE  PageOK(vq.sq[i])' /\ (Forgotten(vq.sq[i])' => ~reg'.en)
    BY <1>5 DEF SlotsKept
  <2>1. Sent(i) /\ vq.sq[i] \in Entries
    BY <1>1, QueueTypes DEF Sent
  <2>2. PICK e \in Entries : e = vq.sq[i] /\ InFlight(e) /\ PageOK(e) /\ (Forgotten(e) => ~reg.en)
    BY <1>1, <2>1 DEF PagesInv, InFlight
  <2>3. PageOK(e)' /\ (Forgotten(e)' => ~reg'.en)
    BY <1>4, <2>2 DEF RegistersStep
  <2>4. QED
    BY <2>2, <2>3
<1>6. ASSUME NEW e \in dev'.running
      PROVE  PageOK(e)' /\ (Forgotten(e)' => ~reg'.en /\ ctrl'.dma_quiesced)
  <2>1. e \in dev.running /\ e \in Entries
    BY <1>1, <1>6, QueueTypes
  <2>2. InFlight(e) /\ PageOK(e) /\ (Forgotten(e) => ~reg.en /\ ctrl.dma_quiesced)
    BY <1>1, <2>1 DEF PagesInv, InFlight
  <2>3. QED
    BY <1>4, <2>1, <2>2 DEF RegistersStep
<1>7. QED
  BY <1>5, <1>6 DEF PagesInv, RegistersStep

LEMMA InFlightPage ==
    ASSUME PagesInv, NEW e \in Entries, InFlight(e)
    PROVE  PageOK(e)
BY DEF PagesInv, InFlight

\* A call goes on with its commands.
LEMMA GoesOn ==
    ASSUME NvmeInv, NEW t \in Callers, NEW r \in CallRecords, SetCall(t, r),
           NEW x \in CallPcs, r = [call[t] EXCEPT !.pc = x],
           call[t].pc \notin {"idle", "submit", "free"}, x \notin {"idle", "submit", "free"},
           UNCHANGED <<vq, dev, kept>>, NvmeTypeOK', ctrl.failed => ctrl'.failed,
           RegistersStep, CallOK(r)'
    PROVE  NvmeInv'
<1>1. NvmeTypeOK /\ Moved(t, r) /\ PagesInv
  BY SetCallMoves DEF NvmeInv
<1>2. r.pc = x /\ r.wave = call[t].wave /\ r.calls = call[t].calls /\ r.kind = call[t].kind
  <2>1. call[t] \in CallRecords
    BY <1>1, CallTypes
  <2>2. QED
    BY SMTT(30), <2>1, WithPc
<1>3. CallsInv' /\ HeldInv' /\ VerdictsInv' /\ OwnedInv' /\ OnceInv' /\ RingInv'
  BY <1>1, <1>2, MoveInv
<1>4. ASSUME NEW e \in Entries, InFlight(e), e.cmd.by = t, e.cmd.call = call[t].calls
      PROVE  e \in r.wave
  <2>1. PageOK(e)
    BY <1>1, <1>4, InFlightPage
  <2>2. call[t].pc # "free"
    OBVIOUS
  <2>3. QED
    BY <1>2, <1>4, <2>1, <2>2 DEF PageOK
<1>5. PagesInv'
  <2>1. SlotsKept
    BY DEF SlotsKept, Sent
  <2>2. r.pc # "idle"
    BY <1>2
  <2>3. CommandsKept(t, r)
    BY <1>2, <1>4, <2>2 DEF CommandsKept
  <2>4. QED
    BY <1>1, <1>2, <2>1, <2>3, MovePages
<1>6. QED
  BY <1>3, <1>5 DEF NvmeInv

\* A call ends with -2: it has no command out, or the controller has failed.
LEMMA GivesUp ==
    ASSUME NvmeInv, NEW t \in Callers, SetCall(t, Over(call[t], -2)),
           call[t].pc \notin {"idle", "submit", "free"},
           call[t].wave = {} \/ ctrl'.failed,
           UNCHANGED <<vq, dev, kept>>, NvmeTypeOK', ctrl.failed => ctrl'.failed, RegistersStep
    PROVE  NvmeInv'
<1>1. NvmeTypeOK /\ PagesInv /\ call[t] \in CallRecords
  BY CallTypes DEF NvmeInv
<1>2. PICK r : r = Over(call[t], -2)
  OBVIOUS
<1>3. /\ r \in CallRecords /\ r.wave = {} /\ r.pc \in {"free", "idle"} /\ CallOK(r)'
      /\ call[t].kind = "bounce" => /\ r.pc = "free" /\ r.rc = -2 /\ r.calls = call[t].calls
                                    /\ r.kind = "bounce"
      /\ call[t].kind # "bounce" => r.calls = call[t].calls + 1
  BY <1>1, <1>2, OverFacts DEF CallOK
<1>4. Moved(t, r)
  BY <1>1, <1>2, <1>3, SetCallMoves
<1>5. CallsInv' /\ HeldInv' /\ VerdictsInv' /\ OwnedInv' /\ OnceInv' /\ RingInv'
  <2>1. r.pc # "submit"
    BY <1>3
  <2>2. QED
    BY <1>3, <1>4, <2>1, MoveInv
<1>6. ASSUME NEW e \in Entries, InFlight(e), e.cmd.by = t, e.cmd.call = call[t].calls
      PROVE  e.cmd.kind = call[t].kind
  BY <1>1, <1>6 DEF PagesInv, PageOK, InFlight
<1>7. PagesInv'
  <2>1. SlotsKept
    BY DEF SlotsKept, Sent
  <2>2. r.pc = "free" => r.pc # "idle"
    OBVIOUS
  <2>3. CommandsKept(t, r)
    BY <1>3, <1>6, <2>2 DEF CommandsKept
  <2>4. r.calls = call[t].calls \/ r.calls = call[t].calls + 1
    BY <1>3
  <2>5. QED
    BY <1>3, <1>4, <2>1, <2>3, <2>4, MovePages
<1>8. QED
  BY <1>5, <1>7 DEF NvmeInv

\* A call starts.
LEMMA Starts ==
    ASSUME NvmeInv, NEW t \in Callers, NEW r \in CallRecords, SetCall(t, r), CallAt(t, "idle"),
           r.calls = call[t].calls, r.wave = {}, r.pc # "submit", CallOK(r)',
           UNCHANGED <<vq, dev, kept>>, NvmeTypeOK', ctrl.failed => ctrl'.failed, RegistersStep
    PROVE  NvmeInv'
<1>1. NvmeTypeOK /\ PagesInv /\ CallsInv /\ Moved(t, r)
  BY SetCallMoves DEF NvmeInv
<1>2. call[t].pc # "submit" /\ call[t].wave = {}
  BY <1>1 DEF CallsInv, CallOK, CallAt
<1>3. CallsInv' /\ HeldInv' /\ VerdictsInv' /\ OwnedInv' /\ OnceInv' /\ RingInv'
  BY <1>1, <1>2, MoveInv
<1>4. CommandsKept(t, r)
  BY <1>1 DEF CommandsKept, PagesInv, PageOK, InFlight, CallAt
<1>5. SlotsKept
  BY DEF SlotsKept, Sent
<1>6. PagesInv'
  BY <1>1, <1>4, <1>5, MovePages
<1>7. QED
  BY <1>3, <1>6 DEF NvmeInv

-----------------------------------------------------------------------------
(* One lemma per action *)

\* Only the call of t and registers change.
LEMMA RegistersType ==
    ASSUME NvmeTypeOK, NEW t \in Callers, NEW r \in CallRecords, SetCall(t, r),
           UNCHANGED <<vq, dev>>, kept' \subseteq Callers \X Nat,
           ctrl' \in [failed : BOOLEAN, io_ready : BOOLEAN, dma_quiesced : BOOLEAN],
           reg' \in [en : BOOLEAN, rdy : BOOLEAN]
    PROVE  NvmeTypeOK'
<1>1. call' \in [Callers -> CallRecords]
  BY SetCallMoves DEF Moved
<1>2. QED
  BY <1>1 DEF NvmeTypeOK

\* The registers are the same.
LEMMA RegistersSame ==
    ASSUME NvmeInv, NEW t \in Callers, NEW r \in CallRecords, SetCall(t, r),
           UNCHANGED <<ctrl, reg, vq, dev, kept>>
    PROVE  NvmeTypeOK' /\ RegistersStep /\ (ctrl.failed => ctrl'.failed)
<1>1. NvmeTypeOK /\ PagesInv
  BY DEF NvmeInv
<1>2. NvmeTypeOK'
  BY <1>1, RegistersType DEF NvmeTypeOK
<1>3. QED
  BY <1>1, <1>2 DEF RegistersStep, PagesInv

LEMMA CallStep ==
    ASSUME NvmeInv, NEW t \in Callers, NEW kind \in {"bounce", "batch"}, Call(t, kind)
    PROVE  NvmeInv'
<1>1. NvmeTypeOK /\ CallsInv /\ call[t] \in CallRecords
  BY CallTypes DEF NvmeInv
<1>2. PICK x \in CallPcs : x = IF kind = "batch" THEN "claim" ELSE "alloc"
  BY DEF CallPcs
<1>3. PICK a : a = [call[t] EXCEPT !.kind = kind]
  OBVIOUS
<1>4. PICK r : r = [call[t] EXCEPT !.kind = kind, !.pc = x]
  OBVIOUS
<1>5. r = [a EXCEPT !.pc = x]
  BY SMTT(30), <1>3, <1>4
<1>6. call[t].wave = {} /\ CallAt(t, "idle") /\ SetCall(t, r)
  BY <1>1, <1>2, <1>4 DEF Call, CallsInv, CallOK, CallAt
<1>7. a \in CallRecords /\ a.calls = call[t].calls /\ a.wave = {} /\ a.kind = kind
  <2>1. kind \in {"bounce", "batch", "shutdown"}
    OBVIOUS
  <2>2. QED
    BY SMTT(30), <1>1, <1>3, <1>6, <2>1, WithKind
<1>8. /\ r \in CallRecords /\ r.calls = call[t].calls /\ r.wave = {} /\ r.kind = kind
      /\ r.pc = x
  BY SMTT(30), <1>5, <1>7, WithPc
<1>9. CallOK(r)' /\ r.pc # "submit"
  BY <1>2, <1>8 DEF CallOK
<1>10. NvmeTypeOK' /\ RegistersStep /\ (ctrl.failed => ctrl'.failed) /\ UNCHANGED <<vq, dev, kept>>
  BY <1>6, <1>8, RegistersSame DEF Call
<1>11. QED
  BY <1>6, <1>8, <1>9, <1>10, Starts

\* The call goes on and nothing else changes.
LEMMA JustGoesOn ==
    ASSUME NvmeInv, NEW t \in Callers, NEW x \in CallPcs,
           SetCall(t, [call[t] EXCEPT !.pc = x]), UNCHANGED <<ctrl, reg, vq, dev, kept>>,
           call[t].pc \notin {"idle", "submit", "free"}, x \notin {"idle", "submit", "free"},
           x \in {"alloc"} => call[t].wave = {}, x \in {"disable", "clear", "quiet"} => ctrl.failed \/ call[t].wave = {},
           x \in {"alloc", "claim", "wait", "check", "stop", "fail"} => call[t].kind # "shutdown",
           x = "claim" => call[t].kind = "batch",
           x \in {"wait", "check"} /\ call[t].kind = "bounce" => call[t].next > 1
    PROVE  NvmeInv'
<1>1. call[t] \in CallRecords
  BY CallTypes DEF NvmeInv
<1>2. PICK r : r = [call[t] EXCEPT !.pc = x]
  OBVIOUS
<1>3. /\ r \in CallRecords /\ r.pc = x /\ r.wave = call[t].wave /\ r.kind = call[t].kind
      /\ r.next = call[t].next
  BY SMTT(30), <1>1, <1>2, WithPc
<1>4. NvmeTypeOK' /\ RegistersStep /\ (ctrl.failed => ctrl'.failed)
  BY <1>2, <1>3, RegistersSame
<1>5. CallOK(r)'
  BY <1>3 DEF CallOK
<1>6. QED
  BY <1>2, <1>3, <1>4, <1>5, GoesOn

\* The call gives up and nothing else changes.
LEMMA JustGivesUp ==
    ASSUME NvmeInv, NEW t \in Callers, SetCall(t, Over(call[t], -2)),
           call[t].pc \notin {"idle", "submit", "free"}, call[t].wave = {} \/ ctrl.failed,
           UNCHANGED <<ctrl, reg, vq, dev, kept>>
    PROVE  NvmeInv'
<1>1. Over(call[t], -2) \in CallRecords
  BY CallTypes, OverFacts DEF NvmeInv
<1>2. NvmeTypeOK' /\ RegistersStep /\ (ctrl.failed => ctrl'.failed)
  BY <1>1, RegistersSame
<1>3. QED
  BY <1>2, GivesUp

LEMMA CheckStep ==
    ASSUME NvmeInv, NEW t \in Callers, Check(t)
    PROVE  NvmeInv'
<1>1. CallOK(call[t])
  BY DEF NvmeInv, CallsInv
<1>2. /\ call[t].pc = "check" /\ call[t].kind # "shutdown"
      /\ call[t].kind = "bounce" => call[t].next > 1
  BY <1>1 DEF Check, CallAt, CallOK
<1>3. CASE ctrl.failed /\ SetCall(t, Over(call[t], -2)) /\ UNCHANGED vq
  BY <1>2, <1>3, JustGivesUp DEF Check
<1>4. CASE TimedOut(t)
  <2>1. "stop" \in CallPcs
    BY DEF CallPcs
  <2>2. QED
    BY <1>2, <1>4, <2>1, JustGoesOn DEF Check, TimedOut
<1>5. CASE SetCall(t, [call[t] EXCEPT !.pc = "wait"]) /\ UNCHANGED vq
  <2>1. "wait" \in CallPcs
    BY DEF CallPcs
  <2>2. QED
    BY <1>2, <1>5, <2>1, JustGoesOn DEF Check
<1>6. QED
  BY <1>3, <1>4, <1>5 DEF Check

\* What storing into ctrl leaves.
LEMMA ControllerStores ==
    ASSUME NvmeTypeOK, NEW b \in BOOLEAN
    PROVE  LET C == [failed : BOOLEAN, io_ready : BOOLEAN, dma_quiesced : BOOLEAN] IN
           /\ [ctrl EXCEPT !.io_ready = b] \in C
           /\ [ctrl EXCEPT !.io_ready = b].failed = ctrl.failed
           /\ [ctrl EXCEPT !.io_ready = b].dma_quiesced = ctrl.dma_quiesced
           /\ [ctrl EXCEPT !.dma_quiesced = b] \in C
           /\ [ctrl EXCEPT !.dma_quiesced = b].failed = ctrl.failed
           /\ [ctrl EXCEPT !.dma_quiesced = b].dma_quiesced = b
BY SMTT(30) DEF NvmeTypeOK

LEMMA FailStores ==
    ASSUME NvmeTypeOK, ctrl' = [ctrl EXCEPT !.failed = TRUE, !.io_ready = FALSE]
    PROVE  /\ ctrl' \in [failed : BOOLEAN, io_ready : BOOLEAN, dma_quiesced : BOOLEAN]
           /\ ctrl'.failed /\ ctrl'.dma_quiesced = ctrl.dma_quiesced
<1> DEFINE C == [failed : BOOLEAN, io_ready : BOOLEAN, dma_quiesced : BOOLEAN]
<1>1. PICK yes \in BOOLEAN, no \in BOOLEAN : yes = TRUE /\ no = FALSE
  OBVIOUS
<1>2. PICK a : a = [ctrl EXCEPT !.failed = yes]
  OBVIOUS
<1>3. ctrl' = [ctrl EXCEPT !.failed = yes, !.io_ready = no]
  BY <1>1
<1>4. ctrl' = [a EXCEPT !.io_ready = no]
  BY SMTT(30), <1>2, <1>3
<1>5. ASSUME NEW c \in C, NEW b \in BOOLEAN
      PROVE  /\ [c EXCEPT !.failed = b] \in C /\ [c EXCEPT !.failed = b].failed = b
             /\ [c EXCEPT !.failed = b].dma_quiesced = c.dma_quiesced
             /\ [c EXCEPT !.io_ready = b] \in C /\ [c EXCEPT !.io_ready = b].failed = c.failed
             /\ [c EXCEPT !.io_ready = b].dma_quiesced = c.dma_quiesced
  BY SMTT(30)
<1>6. ctrl \in C
  BY DEF NvmeTypeOK
<1>7. a \in C /\ a.failed = yes /\ a.dma_quiesced = ctrl.dma_quiesced
  BY SMTT(30), <1>2, <1>6
<1> HIDE DEF C
<1>8. ctrl' \in C /\ ctrl'.failed = yes /\ ctrl'.dma_quiesced = ctrl.dma_quiesced
  <2>1. PICK b \in BOOLEAN : b = no
    OBVIOUS
  <2>2. /\ [a EXCEPT !.io_ready = b] \in C /\ [a EXCEPT !.io_ready = b].failed = a.failed
        /\ [a EXCEPT !.io_ready = b].dma_quiesced = a.dma_quiesced
    BY <1>5, <1>7
  <2>3. ctrl' = [a EXCEPT !.io_ready = b]
    BY <1>4, <2>1
  <2>4. QED
    BY <1>7, <2>2, <2>3
<1>9. QED
  BY <1>1, <1>8 DEF C

LEMMA FailStopStep ==
    ASSUME NvmeInv, NEW t \in Callers, FailStop(t)
    PROVE  NvmeInv'
<1>1. NvmeTypeOK /\ PagesInv /\ CallOK(call[t])
  BY DEF NvmeInv, CallsInv
<1>2. call[t].pc = "stop" /\ call[t].kind # "shutdown"
  BY <1>1 DEF FailStop, CallAt, CallOK
<1>3. CASE /\ ctrl.failed
           /\ ctrl' = [ctrl EXCEPT !.io_ready = FALSE]
           /\ SetCall(t, Over(call[t], -2))
  <2>1. /\ ctrl' \in [failed : BOOLEAN, io_ready : BOOLEAN, dma_quiesced : BOOLEAN]
        /\ ctrl'.failed = ctrl.failed /\ ctrl'.dma_quiesced = ctrl.dma_quiesced
    BY <1>1, <1>3, ControllerStores
  <2>2. Over(call[t], -2) \in CallRecords
    BY <1>1, CallTypes, OverFacts
  <2>3. UNCHANGED <<reg, vq, dev, kept>>
    BY DEF FailStop
  <2>4. NvmeTypeOK'
    BY <1>1, <1>3, <2>1, <2>2, <2>3, RegistersType DEF NvmeTypeOK
  <2>5. RegistersStep
    BY <1>1, <2>1, <2>3 DEF RegistersStep, PagesInv
  <2>6. QED
    BY <1>2, <1>3, <2>1, <2>3, <2>4, <2>5, GivesUp
<1>4. CASE SetCall(t, [call[t] EXCEPT !.pc = "fail"]) /\ UNCHANGED ctrl
  <2>1. "fail" \in CallPcs
    BY DEF CallPcs
  <2>2. QED
    BY <1>2, <1>4, <2>1, JustGoesOn DEF FailStop
<1>5. QED
  BY <1>3, <1>4 DEF FailStop

LEMMA FailStep ==
    ASSUME NvmeInv, NEW t \in Callers, Fail(t)
    PROVE  NvmeInv'
<1>1. NvmeTypeOK /\ PagesInv /\ call[t] \in CallRecords /\ call[t].pc = "fail"
  BY CallTypes DEF NvmeInv, Fail, CallAt
<1>2. PICK x \in CallPcs : x = "disable"
  BY DEF CallPcs
<1>3. PICK r : r = [call[t] EXCEPT !.pc = x]
  OBVIOUS
<1>4. r \in CallRecords /\ r.pc = x
  BY SMTT(30), <1>1, <1>3, WithPc
<1>5. /\ ctrl' \in [failed : BOOLEAN, io_ready : BOOLEAN, dma_quiesced : BOOLEAN]
      /\ ctrl'.failed /\ ctrl'.dma_quiesced = ctrl.dma_quiesced
  BY <1>1, FailStores DEF Fail
<1>6. UNCHANGED <<reg, vq, dev, kept>> /\ SetCall(t, r)
  BY <1>2, <1>3 DEF Fail
<1>7. NvmeTypeOK'
  BY <1>1, <1>4, <1>5, <1>6, RegistersType DEF NvmeTypeOK
<1>8. RegistersStep
  BY <1>1, <1>5, <1>6 DEF RegistersStep, PagesInv
<1>9. CallOK(r)'
  BY <1>2, <1>4, <1>5 DEF CallOK
<1>10. QED
  BY <1>1, <1>2, <1>3, <1>4, <1>5, <1>6, <1>7, <1>8, <1>9, GoesOn

LEMMA ShutdownStep ==
    ASSUME NvmeInv, NEW t \in Callers, Shutdown(t)
    PROVE  NvmeInv'
<1>1. NvmeTypeOK /\ PagesInv /\ CallsInv /\ call[t] \in CallRecords
  BY CallTypes DEF NvmeInv
<1>2. PICK x \in CallPcs : x = "disable"
  BY DEF CallPcs
<1>3. PICK a : a = [call[t] EXCEPT !.kind = "shutdown"]
  OBVIOUS
<1>4. PICK r : r = [call[t] EXCEPT !.kind = "shutdown", !.pc = x]
  OBVIOUS
<1>5. r = [a EXCEPT !.pc = x]
  BY SMTT(30), <1>3, <1>4
<1>6. call[t].wave = {} /\ CallAt(t, "idle") /\ SetCall(t, r)
  BY <1>1, <1>2, <1>4 DEF Shutdown, CallsInv, CallOK, CallAt
<1>7. a \in CallRecords /\ a.calls = call[t].calls /\ a.wave = {} /\ a.kind = "shutdown"
  BY SMTT(30), <1>1, <1>3, <1>6, WithKind
<1>8. /\ r \in CallRecords /\ r.calls = call[t].calls /\ r.wave = {} /\ r.kind = "shutdown"
      /\ r.pc = x
  BY SMTT(30), <1>5, <1>7, WithPc
<1>9. CallOK(r)' /\ r.pc # "submit"
  BY <1>2, <1>8 DEF CallOK
<1>10. /\ ctrl' \in [failed : BOOLEAN, io_ready : BOOLEAN, dma_quiesced : BOOLEAN]
       /\ ctrl'.failed = ctrl.failed /\ ctrl'.dma_quiesced = ctrl.dma_quiesced
       /\ UNCHANGED <<reg, vq, dev, kept>>
  BY <1>1, ControllerStores DEF Shutdown
<1>11. NvmeTypeOK'
  BY <1>1, <1>6, <1>8, <1>10, RegistersType DEF NvmeTypeOK
<1>12. RegistersStep
  BY <1>1, <1>10 DEF RegistersStep, PagesInv
<1>13. QED
  BY <1>6, <1>8, <1>9, <1>10, <1>11, <1>12, Starts

LEMMA DisableStep ==
    ASSUME NvmeInv, NEW t \in Callers, Disable(t)
    PROVE  NvmeInv'
<1>1. NvmeTypeOK /\ PagesInv /\ CallOK(call[t])
  BY DEF NvmeInv, CallsInv
<1>2. call[t].pc = "disable" /\ (call[t].wave = {} \/ ctrl.failed)
  BY <1>1 DEF Disable, CallAt, CallOK
<1>3. CASE /\ ~reg.en
           /\ ctrl' = [ctrl EXCEPT !.dma_quiesced = TRUE]
           /\ SetCall(t, Over(call[t], -2))
  <2>1. /\ ctrl' \in [failed : BOOLEAN, io_ready : BOOLEAN, dma_quiesced : BOOLEAN]
        /\ ctrl'.failed = ctrl.failed /\ ctrl'.dma_quiesced = TRUE
    BY <1>1, <1>3, ControllerStores
  <2>2. Over(call[t], -2) \in CallRecords
    BY <1>1, CallTypes, OverFacts
  <2>3. UNCHANGED <<reg, vq, dev, kept>>
    BY DEF Disable
  <2>4. NvmeTypeOK'
    BY <1>1, <1>3, <2>1, <2>2, <2>3, RegistersType DEF NvmeTypeOK
  <2>5. RegistersStep
    BY <1>1, <1>3, <2>1, <2>3 DEF RegistersStep, PagesInv
  <2>6. QED
    BY <1>2, <1>3, <2>1, <2>3, <2>4, <2>5, GivesUp
<1>4. CASE SetCall(t, [call[t] EXCEPT !.pc = "clear"]) /\ UNCHANGED ctrl
  <2>1. "clear" \in CallPcs
    BY DEF CallPcs
  <2>2. QED
    BY <1>2, <1>4, <2>1, JustGoesOn DEF Disable
<1>5. QED
  BY <1>3, <1>4 DEF Disable

LEMMA ClearStep ==
    ASSUME NvmeInv, NEW t \in Callers, Clear(t)
    PROVE  NvmeInv'
<1>1. NvmeTypeOK /\ PagesInv /\ call[t] \in CallRecords /\ CallOK(call[t])
  BY CallTypes DEF NvmeInv, CallsInv
<1>2. call[t].pc = "clear" /\ (call[t].wave = {} \/ ctrl.failed)
  BY <1>1 DEF Clear, CallAt, CallOK
<1>3. PICK x \in CallPcs : x = "quiet"
  BY DEF CallPcs
<1>4. PICK r : r = [call[t] EXCEPT !.pc = x]
  OBVIOUS
<1>5. r \in CallRecords /\ r.pc = x /\ r.wave = call[t].wave
  BY SMTT(30), <1>1, <1>4, WithPc
<1>6. reg' \in [en : BOOLEAN, rdy : BOOLEAN] /\ reg'.en = FALSE
  <2>1. PICK no \in BOOLEAN : no = FALSE
    OBVIOUS
  <2>2. [reg EXCEPT !.en = no] \in [en : BOOLEAN, rdy : BOOLEAN] /\ [reg EXCEPT !.en = no].en = no
    BY SMTT(30), <1>1 DEF NvmeTypeOK
  <2>3. QED
    BY <2>1, <2>2 DEF Clear
<1>7. UNCHANGED <<ctrl, vq, dev, kept>> /\ SetCall(t, r)
  BY <1>3, <1>4 DEF Clear
<1>8. NvmeTypeOK'
  BY <1>1, <1>5, <1>6, <1>7, RegistersType DEF NvmeTypeOK
<1>9. RegistersStep
  BY <1>6, <1>7 DEF RegistersStep
<1>10. CallOK(r)'
  BY <1>2, <1>3, <1>5, <1>7 DEF CallOK
<1>11. QED
  BY <1>2, <1>3, <1>4, <1>5, <1>7, <1>8, <1>9, <1>10, GoesOn

LEMMA QuietStep ==
    ASSUME NvmeInv, NEW t \in Callers, Quiet(t)
    PROVE  NvmeInv'
<1>1. NvmeTypeOK /\ PagesInv /\ CallOK(call[t])
  BY DEF NvmeInv, CallsInv
<1>2. call[t].pc = "quiet" /\ (call[t].wave = {} \/ ctrl.failed)
  BY <1>1 DEF Quiet, CallAt, CallOK
<1>3. PICK b \in BOOLEAN : b = (ctrl.dma_quiesced \/ ~reg.rdy)
  OBVIOUS
<1>4. /\ ctrl' \in [failed : BOOLEAN, io_ready : BOOLEAN, dma_quiesced : BOOLEAN]
      /\ ctrl'.failed = ctrl.failed /\ ctrl'.dma_quiesced = b
  BY <1>1, <1>3, ControllerStores DEF Quiet
<1>5. Over(call[t], -2) \in CallRecords
  BY <1>1, CallTypes, OverFacts
<1>6. UNCHANGED <<reg, vq, dev, kept>> /\ SetCall(t, Over(call[t], -2))
  BY DEF Quiet
<1>7. NvmeTypeOK'
  BY <1>1, <1>4, <1>5, <1>6, RegistersType DEF NvmeTypeOK
<1>8. RegistersStep
  BY <1>1, <1>3, <1>4, <1>6 DEF RegistersStep, PagesInv
<1>9. QED
  BY <1>2, <1>4, <1>6, <1>7, <1>8, GivesUp

LEMMA FreeBounceStep ==
    ASSUME NvmeInv, NEW t \in Callers, FreeBounce(t)
    PROVE  NvmeInv'
<1>1. NvmeTypeOK /\ PagesInv /\ CallsInv /\ call[t] \in CallRecords
  BY CallTypes DEF NvmeInv
<1>2. call[t].pc = "free" /\ call[t].wave = {} /\ call[t].calls \in Nat
  BY <1>1, CallFields DEF FreeBounce, CallAt, CallsInv, CallOK
<1>3. PICK n \in Nat : n = call[t].calls + 1
  BY SMTT(30), <1>2
<1>4. PICK r : r = [NoCall EXCEPT !.calls = n]
  OBVIOUS
<1>5. r \in CallRecords /\ r.wave = {} /\ r.pc = "idle" /\ r.calls = n
  BY <1>4, NoCallType
<1>6. UNCHANGED <<ctrl, reg, vq, dev>> /\ SetCall(t, r)
  BY <1>3, <1>4 DEF FreeBounce
<1>7. Moved(t, r)
  BY <1>1, <1>5, <1>6, SetCallMoves
<1>8. /\ kept \subseteq kept' /\ kept' \subseteq Callers \X Nat
      /\ call[t].rc = -2 /\ ~ctrl.dma_quiesced => <<t, call[t].calls>> \in kept'
  <2>1. PICK p \in Callers \X Nat : p = <<t, call[t].calls>>
    BY <1>2
  <2>2. kept' = IF call[t].rc # -2 \/ ctrl.dma_quiesced THEN kept ELSE kept \cup {p}
    BY <2>1 DEF FreeBounce
  <2>3. kept \subseteq Callers \X Nat
    BY <1>1 DEF NvmeTypeOK
  <2> HIDE DEF NvmeInv
  <2>4. CASE call[t].rc # -2 \/ ctrl.dma_quiesced
    BY <2>2, <2>3, <2>4
  <2>5. CASE ~(call[t].rc # -2 \/ ctrl.dma_quiesced)
    BY <2>1, <2>2, <2>3, <2>5
  <2>6. QED
    BY <2>4, <2>5
<1>9. NvmeTypeOK'
  BY <1>1, <1>5, <1>6, <1>8, RegistersType DEF NvmeTypeOK
<1>10. CallOK(r)' /\ r.pc # "submit" /\ call[t].pc # "submit"
  BY <1>2, <1>5 DEF CallOK
<1>11. CallsInv' /\ HeldInv' /\ VerdictsInv' /\ OwnedInv' /\ OnceInv' /\ RingInv'
  BY <1>2, <1>5, <1>6, <1>7, <1>10, MoveInv
<1>12. RegistersStep
  BY <1>1, <1>6 DEF RegistersStep, PagesInv
<1>13. ASSUME NEW e \in Entries, InFlight(e), e.cmd.by = t, e.cmd.call = call[t].calls
       PROVE  call[t].rc = -2
  BY <1>1, <1>2, <1>13 DEF PagesInv, PageOK, InFlight
<1>14. CommandsKept(t, r)
  BY <1>1, <1>3, <1>5, <1>6, <1>8, <1>13 DEF CommandsKept, PagesInv
<1>15. SlotsKept
  BY <1>6 DEF SlotsKept, Sent
<1>16. dev'.running \subseteq dev.running /\ r.calls = call[t].calls + 1
  BY <1>3, <1>5, <1>6
<1>17. PagesInv'
  BY <1>5, <1>7, <1>8, <1>12, <1>14, <1>15, <1>16, MovePages
<1>18. QED
  BY <1>9, <1>11, <1>17 DEF NvmeInv

-----------------------------------------------------------------------------
(* Identifiers *)

\* A free identifier is claimed by a call that is to send its next member.
LEMMA ClaimStep ==
    ASSUME NvmeInv, NEW t \in Callers, nvme_cid_claim_locked(t),
           CallAt(t, "claim") \/ CallAt(t, "alloc"), UNCHANGED <<ctrl, reg, dev, kept>>
    PROVE  NvmeInv'
<1>1. /\ NvmeTypeOK /\ CallsInv /\ HeldInv /\ VerdictsInv /\ OwnedInv /\ OnceInv /\ RingInv
      /\ PagesInv /\ call[t] \in CallRecords /\ CallOK(call[t])
  BY CallTypes DEF NvmeInv, CallsInv
<1>2. PICK c \in CIDs : /\ c \notin vq.in_use
                        /\ vq' = [vq EXCEPT !.in_use = @ \cup {c}, !.result[c] = NoVerdict]
                        /\ SetCall(t, [call[t] EXCEPT !.pc = "submit", !.cid = c])
  BY DEF nvme_cid_claim_locked, FreeCids
<1>3. PICK x \in CallPcs : x = "submit"
  BY DEF CallPcs
<1>4. PICK r : r = [call[t] EXCEPT !.pc = x, !.cid = c]
  OBVIOUS
<1>5. /\ r \in CallRecords /\ r.pc = x /\ r.cid = c /\ r.wave = call[t].wave
      /\ r.kind = call[t].kind /\ r.calls = call[t].calls
  <2>1. PICK a : a = [call[t] EXCEPT !.pc = x]
    OBVIOUS
  <2>2. r = [a EXCEPT !.cid = c]
    BY SMTT(30), <1>4, <2>1
  <2>3. /\ a \in CallRecords /\ a.pc = x /\ a.wave = call[t].wave
        /\ a.kind = call[t].kind /\ a.calls = call[t].calls
    BY SMTT(30), <1>1, <2>1, WithPc
  <2>4. QED
    BY SMTT(30), <2>2, <2>3, WithCid
<1>6. Moved(t, r)
  BY <1>1, <1>2, <1>3, <1>4, <1>5, SetCallMoves
<1>7. /\ vq' \in Queues /\ vq'.in_use = vq.in_use \cup {c}
      /\ vq'.result[c].v = 0 /\ \A d \in CIDs : d # c => vq'.result[d] = vq.result[d]
      /\ vq'.tail = vq.tail /\ vq'.sq = vq.sq /\ vq'.cq = vq.cq
  <2>1. PICK u \in SUBSET CIDs : u = vq.in_use \cup {c}
    BY <1>1, QueueTypes
  <2>2. PICK f : f = [vq.result EXCEPT ![c] = NoVerdict]
    OBVIOUS
  <2>3. /\ f \in [CIDs -> Verdicts] /\ f[c] = NoVerdict
        /\ \A d \in CIDs : d # c => f[d] = vq.result[d]
    <3>1. vq.result \in [CIDs -> Verdicts] /\ NoVerdict \in Verdicts
      BY <1>1, QueueTypes, NoVerdictType
    <3>2. QED
      BY SMTT(30), <2>2, <3>1
  <2>4. PICK a : a = [vq EXCEPT !.in_use = u]
    OBVIOUS
  <2>5. vq' = [a EXCEPT !.result = f]
    BY SMTT(30), <1>2, <2>1, <2>2, <2>4
  <2>6. vq \in Queues
    BY <1>1, QueueTypes
  <2>7. /\ a \in Queues /\ a.in_use = u /\ a.tail = vq.tail /\ a.sq = vq.sq /\ a.cq = vq.cq
    BY SMTT(30), <2>4, <2>6, WithInUse
  <2>8. /\ vq' \in Queues /\ vq'.in_use = u /\ vq'.result = f /\ vq'.tail = vq.tail
        /\ vq'.sq = vq.sq /\ vq'.cq = vq.cq
    BY SMTT(30), <2>3, <2>5, <2>7, WithResult
  <2>9. QED
    BY <2>1, <2>3, <2>8, NoVerdictType
<1>8. call'[t] = r /\ \A u \in Callers : u # t => call'[u] = call[u]
  BY <1>6 DEF Moved
<1>9. NvmeTypeOK'
  BY <1>1, <1>6, <1>7 DEF NvmeTypeOK, Moved
<1>10. CallsInv'
  <2>1. CallOK(r)
    BY <1>1, <1>3, <1>5 DEF CallOK, CallAt
  <2>2. QED
    BY <1>1, <1>8, <2>1 DEF CallsInv, CallOK
<1>11. Held(t)' = Held(t) \cup {c} /\ \A u \in Callers : u # t => Held(u)' = Held(u)
  BY <1>3, <1>5, <1>8 DEF Held, CallAt
<1>12. ASSUME NEW u \in Callers
       PROVE  Held(u) \subseteq vq.in_use /\ c \notin Held(u) /\ call'[u].wave = call[u].wave
  BY <1>1, <1>2, <1>5, <1>8 DEF HeldInv, HeldOK
<1>13. HeldInv'
  <2>1. ASSUME NEW u \in Callers PROVE HeldOK(u)'
    <3>1. HeldOK(u)
      BY <1>1 DEF HeldInv
    <3>2. Held(u)' \subseteq vq'.in_use
      BY <1>7, <1>11, <1>12
    <3>3. \A m, n \in call'[u].wave : m.cid = n.cid => m = n
      BY <1>12, <3>1 DEF HeldOK
    <3>4. ASSUME call'[u].pc = "submit", NEW m \in call'[u].wave PROVE m.cid # call'[u].cid
      <4>1. CASE u = t
        BY <1>5, <1>8, <1>12, <3>4, <4>1 DEF Held
      <4>2. CASE u # t
        BY <1>8, <3>1, <3>4, <4>2 DEF HeldOK, CallAt
      <4>3. QED
        BY <4>1, <4>2
    <3>5. ASSUME call'[u].pc = "submit" PROVE vq'.result[call'[u].cid].v = 0
      <4>1. CASE u = t
        BY <1>5, <1>7, <1>8, <4>1
      <4>2. CASE u # t
        <5>1. call[u].cid \in Held(u) /\ call'[u].cid = call[u].cid /\ vq.result[call[u].cid].v = 0
          BY <1>8, <3>1, <3>5, <4>2 DEF HeldOK, Held, CallAt
        <5>2. call[u].cid # c /\ call[u].cid \in CIDs
          BY <1>1, <1>12, <5>1, QueueTypes
        <5>3. QED
          BY <1>7, <5>1, <5>2
      <4>3. QED
        BY <4>1, <4>2
    <3>6. QED
      BY <3>2, <3>3, <3>4, <3>5 DEF HeldOK, CallAt
  <2>2. ASSUME NEW u \in Callers, NEW v \in Callers, u # v PROVE Held(u)' \cap Held(v)' = {}
    <3>1. Held(u) \cap Held(v) = {}
      BY <1>1, <2>2 DEF HeldInv
    <3>2. QED
      BY <1>11, <1>12, <2>2, <3>1
  <2>3. ASSUME ~ctrl'.failed, NEW d \in vq'.in_use PROVE \E u \in Callers : d \in Held(u)'
    <3>1. CASE d = c
      BY <1>11, <3>1
    <3>2. CASE d # c
      <4>1. PICK u \in Callers : d \in Held(u)
        BY <1>1, <1>7, <2>3, <3>2 DEF HeldInv
      <4>2. QED
        BY <1>11, <4>1
    <3>3. QED
      BY <3>1, <3>2
  <2>4. QED
    BY <2>1, <2>2, <2>3 DEF HeldInv
<1>14. VerdictsInv'
  <2> SUFFICES ASSUME NEW u \in Callers, NEW m \in call'[u].wave, vq'.result[m.cid].v # 0
               PROVE  vq'.result[m.cid].cmd = m.cmd
    BY DEF VerdictsInv
  <2>1. m \in call[u].wave /\ m.cid \in Held(u)
    BY <1>12 DEF Held
  <2>2. m.cid # c /\ m.cid \in CIDs
    BY <1>1, <1>12, <2>1, QueueTypes
  <2>3. QED
    BY <1>1, <1>7, <2>1, <2>2 DEF VerdictsInv
<1>15. ASSUME NEW e, Owned(e) PROVE Owned(e)'
  <2>1. e.cid \in vq.in_use /\ e.cid # c /\ e.cid \in CIDs
    BY <1>1, <1>2, <1>15, QueueTypes DEF Owned
  <2>2. e.cid \in vq'.in_use /\ vq'.result[e.cid].v = 0
    BY <1>7, <1>15, <2>1 DEF Owned
  <2>3. ASSUME NEW u \in Callers PROVE call'[u].pc = "submit" => call'[u].cid # e.cid
    BY <1>5, <1>8, <1>15, <2>1 DEF Owned, CallAt
  <2>4. QED
    BY <1>12, <1>15, <2>2, <2>3 DEF Owned, CallAt
<1>16. OwnedInv'
  BY <1>1, <1>7, <1>15 DEF OwnedInv, Sent
<1>17. OnceInv' /\ RingInv'
  BY <1>1, <1>7, RingsSame
<1>18. PagesInv'
  <2>1. SlotsKept /\ RegistersStep
    BY <1>1, <1>7 DEF SlotsKept, Sent, RegistersStep, PagesInv
  <2>2. ASSUME NEW e \in Entries, InFlight(e), e.cmd.by = t, e.cmd.call = call[t].calls
        PROVE  e \in r.wave
    BY <1>1, <1>5, <2>2 DEF PagesInv, PageOK, InFlight, CallAt
  <2>3. CommandsKept(t, r)
    BY <1>3, <1>5, <2>2 DEF CommandsKept
  <2>4. QED
    BY <1>5, <1>6, <2>1, <2>3, MovePages
<1>19. QED
  BY <1>9, <1>10, <1>13, <1>14, <1>16, <1>17, <1>18 DEF NvmeInv

LEMMA ClaimActionStep ==
    ASSUME NvmeInv, NEW t \in Callers, Claim(t)
    PROVE  NvmeInv'
<1>1. CallOK(call[t])
  BY DEF NvmeInv, CallsInv
<1>2. call[t].pc = "claim" /\ call[t].kind = "batch"
  BY <1>1 DEF Claim, CallAt, CallOK
<1>3. CASE nvme_cid_claim_locked(t)
  BY <1>3, ClaimStep DEF Claim
<1>4. CASE SetCall(t, [call[t] EXCEPT !.pc = IF call[t].wave # {} THEN "wait" ELSE "alloc"])
           /\ UNCHANGED vq
  <2>1. PICK x \in CallPcs : x = IF call[t].wave # {} THEN "wait" ELSE "alloc"
    BY DEF CallPcs
  <2>2. x \notin {"idle", "submit", "free", "claim", "disable", "clear", "quiet"}
    BY <2>1
  <2>3. x \in {"alloc"} => call[t].wave = {}
    BY <2>1
  <2>4. SetCall(t, [call[t] EXCEPT !.pc = x])
    BY <1>4, <2>1
  <2>5. QED
    BY <1>2, <1>4, <2>2, <2>3, <2>4, JustGoesOn DEF Claim
<1>5. QED
  BY <1>3, <1>4 DEF Claim

LEMMA AllocStep ==
    ASSUME NvmeInv, NEW t \in Callers, Alloc(t)
    PROVE  NvmeInv'
<1>1. CallOK(call[t])
  BY DEF NvmeInv, CallsInv
<1>2. call[t].pc = "alloc" /\ call[t].kind # "shutdown" /\ call[t].wave = {}
  BY <1>1 DEF Alloc, CallAt, CallOK
<1>3. CASE SetCall(t, Over(call[t], -2)) /\ UNCHANGED vq
  BY <1>2, <1>3, JustGivesUp DEF Alloc
<1>4. CASE nvme_cid_claim_locked(t)
  BY <1>4, ClaimStep DEF Alloc
<1>5. CASE SetCall(t, [call[t] EXCEPT !.pc = "stop"]) /\ UNCHANGED vq
  <2>1. "stop" \in CallPcs
    BY DEF CallPcs
  <2>2. QED
    BY <1>2, <1>5, <2>1, JustGoesOn DEF Alloc
<1>6. QED
  BY <1>3, <1>4, <1>5 DEF Alloc

\* The call goes to r without the identifiers cs; it is over only when it has
\* no command left.
GivesBack(t, r, cs) ==
    /\ CallOK(r) /\ r.pc # "submit" /\ r.wave \subseteq call[t].wave
    /\ cs \subseteq Held(t) /\ {m.cid : m \in r.wave} = Held(t) \ cs
    /\ \A c \in cs : vq.result[c].v # 0 \/ (CallAt(t, "submit") /\ c = call[t].cid)
    /\ r.calls = call[t].calls \/ r.calls = call[t].calls + 1
    /\ r.wave # {} => r.calls = call[t].calls /\ r.pc # "idle" /\ r.kind = call[t].kind

\* The identifiers cs are given back, and the commands of the call that are in
\* flight stay its own.
LEMMA ReleaseStep ==
    ASSUME NvmeInv, NEW t \in Callers, NEW r \in CallRecords, SetCall(t, r),
           NEW cs \in SUBSET CIDs, vq' = Released(cs), UNCHANGED <<ctrl, reg, dev, kept>>,
           CallAt(t, "submit") \/ CallAt(t, "wait"),
           GivesBack(t, r, cs)
    PROVE  NvmeInv'
<1>1. NvmeTypeOK /\ HeldInv /\ OwnedInv /\ PagesInv /\ Moved(t, r)
  BY SetCallMoves DEF NvmeInv
<1>2. /\ vq' \in Queues /\ vq'.sq = vq.sq
  BY <1>1, ReleasedFields
<1>3. NvmeTypeOK'
  BY <1>1, <1>2 DEF NvmeTypeOK, Moved
<1>4. CallsInv' /\ HeldInv' /\ VerdictsInv' /\ OwnedInv' /\ OnceInv' /\ RingInv'
  BY <1>1, ReleaseInv DEF GivesBack
<1>5. ASSUME NEW e \in Entries, InFlight(e), e.cmd.by = t, e.cmd.call = call[t].calls
      PROVE  e \in r.wave
  <2>1. PageOK(e) /\ Owned(e)
    BY <1>1, <1>5 DEF InFlight, PagesInv, OwnedInv
  <2>2. e \in call[t].wave
    BY <1>5, <2>1 DEF PageOK, CallAt
  <2>3. e.cid \in Held(t) /\ e.cid \notin cs
    BY <2>1, <2>2 DEF Owned, Held, GivesBack
  <2>4. PICK m \in r.wave : m.cid = e.cid
    BY <2>3 DEF GivesBack
  <2>5. QED
    BY <1>1, <2>2, <2>4 DEF HeldInv, HeldOK, GivesBack
<1>6. CommandsKept(t, r)
  BY <1>5 DEF CommandsKept, GivesBack
<1>7. SlotsKept /\ RegistersStep
  BY <1>1, <1>2 DEF SlotsKept, Sent, RegistersStep, PagesInv
<1>8. PagesInv'
  BY <1>1, <1>6, <1>7, MovePages DEF GivesBack
<1>9. QED
  BY <1>3, <1>4, <1>8 DEF NvmeInv

LEMMA OnwardFacts ==
    ASSUME NEW r \in CallRecords, NEW o, o = Onward(r), r.kind # "shutdown",
           r.kind = "bounce" => r.next > 1
    PROVE  /\ o \in CallRecords /\ o.wave = r.wave /\ CallOK(o) /\ o.pc # "submit"
           /\ o.calls = r.calls \/ o.calls = r.calls + 1
           /\ r.wave # {} => o.calls = r.calls /\ o.pc # "idle" /\ o.kind = r.kind
<1>1. ASSUME NEW x \in CallPcs, o = [r EXCEPT !.pc = x],
             x = "wait" \/ (x = "claim" /\ r.kind = "batch")
      PROVE  /\ o \in CallRecords /\ o.wave = r.wave /\ CallOK(o) /\ o.pc # "submit"
             /\ o.calls = r.calls /\ o.pc # "idle" /\ o.kind = r.kind
  <2>1. /\ o \in CallRecords /\ o.wave = r.wave /\ o.pc = x /\ o.calls = r.calls
        /\ o.kind = r.kind /\ o.next = r.next
    BY SMTT(30), <1>1, WithPc
  <2>2. QED
    BY <1>1, <2>1 DEF CallOK
<1>2. CASE r.next <= Size(r.kind) /\ Cardinality(r.wave) < Wave
  <2>1. r.kind # "bounce"
    <3>1. SUFFICES ASSUME r.kind = "bounce" PROVE FALSE
      OBVIOUS
    <3>2. r.next <= 1 /\ r.next > 1 /\ r.next \in Nat
      BY <1>2, <3>1, CallFields DEF Size
    <3>3. QED
      BY SMTT(30), <3>2
  <2>2. r.kind = "batch"
    BY <2>1, CallFields
  <2>3. "claim" \in CallPcs /\ o = [r EXCEPT !.pc = "claim"]
    BY <1>2 DEF Onward, CallPcs
  <2>4. QED
    BY <1>1, <2>2, <2>3
<1>3. CASE ~(r.next <= Size(r.kind) /\ Cardinality(r.wave) < Wave) /\ r.wave # {}
  <2>1. "wait" \in CallPcs /\ o = [r EXCEPT !.pc = "wait"]
    BY <1>3 DEF Onward, CallPcs
  <2>2. QED
    BY <1>1, <2>1
<1>4. CASE ~(r.next <= Size(r.kind) /\ Cardinality(r.wave) < Wave) /\ r.wave = {}
  <2>1. o = Over(r, r.rc) /\ r.rc \in {0, -1, -2}
    BY <1>4, CallFields DEF Onward
  <2>2. PICK rc \in {0, -1, -2} : rc = r.rc
    BY <2>1
  <2>3. o = Over(r, rc)
    BY <2>1, <2>2
  <2>4. /\ o \in CallRecords /\ o.wave = {} /\ CallOK(o) /\ o.pc \in {"free", "idle"}
        /\ r.kind = "bounce" => o.calls = r.calls
        /\ r.kind # "bounce" => o.calls = r.calls + 1
    <3>1. /\ Over(r, rc) \in CallRecords /\ Over(r, rc).wave = {} /\ CallOK(Over(r, rc))
          /\ Over(r, rc).pc \in {"free", "idle"}
          /\ r.kind = "bounce" => Over(r, rc).calls = r.calls
          /\ r.kind # "bounce" => Over(r, rc).calls = r.calls + 1
      BY OverFacts
    <3>2. QED
      BY <2>3, <3>1
  <2>5. o.pc # "submit"
    BY <2>4
  <2>6. QED
    BY <1>4, <2>4, <2>5
<1>5. QED
  BY <1>2, <1>3, <1>4

\* A call about to send: what it holds.
LEMMA SubmitFacts ==
    ASSUME NvmeInv, NEW t \in Callers, CallAt(t, "submit")
    PROVE  /\ call[t] \in CallRecords /\ call[t].cid \in CIDs /\ call[t].kind # "shutdown"
           /\ call[t].kind = "bounce" => call[t].wave = {}
           /\ call[t].next + 1 \in Nat \ {0} /\ call[t].next + 1 > 1
           /\ \A m \in call[t].wave : m.cid # call[t].cid
           /\ Held(t) = {m.cid : m \in call[t].wave} \cup {call[t].cid}
           /\ call[t].cid \in vq.in_use /\ vq.result[call[t].cid].v = 0
<1>1. NvmeTypeOK /\ CallOK(call[t]) /\ HeldOK(t) /\ call[t] \in CallRecords
  BY CallTypes DEF NvmeInv, CallsInv, HeldInv
<1>2. call[t].next \in Nat \ {0} /\ call[t].cid \in CIDs
  BY <1>1, CallFields
<1>3. call[t].next + 1 \in Nat \ {0} /\ call[t].next + 1 > 1
  BY SMTT(30), <1>2
<1>4. Held(t) = {m.cid : m \in call[t].wave} \cup {call[t].cid}
  BY DEF Held
<1>5. QED
  BY <1>1, <1>2, <1>3, <1>4 DEF CallOK, HeldOK, CallAt

LEMMA BuildFailsStep ==
    ASSUME NvmeInv, NEW t \in Callers, BuildFails(t)
    PROVE  NvmeInv'
<1>1. /\ CallAt(t, "submit") /\ UNCHANGED <<ctrl, reg, dev, kept>>
  BY DEF BuildFails
<1>2. /\ call[t] \in CallRecords /\ call[t].cid \in CIDs /\ call[t].kind # "shutdown"
      /\ call[t].kind = "bounce" => call[t].wave = {}
      /\ call[t].next + 1 \in Nat \ {0} /\ call[t].next + 1 > 1
      /\ \A m \in call[t].wave : m.cid # call[t].cid
      /\ Held(t) = {m.cid : m \in call[t].wave} \cup {call[t].cid}
  BY <1>1, SubmitFacts
<1>3. PICK cs \in SUBSET CIDs : cs = {call[t].cid}
  BY <1>2
<1>4. PICK r : /\ SetCall(t, r) /\ r \in CallRecords /\ r.wave = call[t].wave /\ CallOK(r)
               /\ r.pc # "submit" /\ (r.calls = call[t].calls \/ r.calls = call[t].calls + 1)
               /\ r.wave # {} => r.calls = call[t].calls /\ r.pc # "idle" /\ r.kind = call[t].kind
  <2>1. CASE call[t].kind = "bounce"
    <3>1. PICK r : r = Over(call[t], -1)
      OBVIOUS
    <3>2. /\ r \in CallRecords /\ r.wave = {} /\ CallOK(r) /\ r.pc \in {"free", "idle"}
          /\ r.calls = call[t].calls
      BY <1>2, <2>1, <3>1, OverFacts
    <3>3. SetCall(t, r)
      BY <2>1, <3>1 DEF BuildFails
    <3>4. QED
      BY <1>2, <2>1, <3>2, <3>3
  <2>2. CASE call[t].kind # "bounce"
    <3>1. PICK n \in Nat \ {0} : n = call[t].next + 1
      BY <1>2
    <3>2. PICK a : a = [call[t] EXCEPT !.next = n]
      OBVIOUS
    <3>3. /\ a \in CallRecords /\ a.wave = call[t].wave /\ a.kind = call[t].kind
          /\ a.calls = call[t].calls
      BY SMTT(30), <1>2, <3>2, WithNext
    <3>4. PICK r : r = Onward(a)
      OBVIOUS
    <3>5. SetCall(t, r)
      BY <2>2, <3>1, <3>2, <3>4 DEF BuildFails
    <3>6. /\ r \in CallRecords /\ r.wave = a.wave /\ CallOK(r) /\ r.pc # "submit"
          /\ r.calls = a.calls \/ r.calls = a.calls + 1
          /\ a.wave # {} => r.calls = a.calls /\ r.pc # "idle" /\ r.kind = a.kind
      <4>1. a.kind # "shutdown" /\ a.kind # "bounce"
        BY <1>2, <2>2, <3>3
      <4>2. QED
        BY <3>3, <3>4, <4>1, OnwardFacts
    <3>7. QED
      BY <3>3, <3>5, <3>6
  <2>3. QED
    BY <2>1, <2>2
<1>5. vq' = Released(cs)
  BY <1>3 DEF BuildFails
<1>6. cs \subseteq Held(t) /\ {m.cid : m \in r.wave} = Held(t) \ cs
  BY <1>2, <1>3, <1>4
<1>7. \A c \in cs : vq.result[c].v # 0 \/ (CallAt(t, "submit") /\ c = call[t].cid)
  BY <1>1, <1>3
<1>8. GivesBack(t, r, cs)
  <2>1. r.wave \subseteq call[t].wave
    BY <1>4
  <2>2. QED
    BY <1>4, <1>6, <1>7, <2>1 DEF GivesBack
<1>9. QED
  BY <1>1, <1>4, <1>5, <1>8, ReleaseStep

LEMMA RefusedStep ==
    ASSUME NvmeInv, NEW t \in Callers, CallAt(t, "submit"), vq' = Released({call[t].cid}),
           SetCall(t, Refused(call[t], -2)), UNCHANGED <<ctrl, reg, dev, kept>>
    PROVE  NvmeInv'
<1>1. /\ call[t] \in CallRecords /\ call[t].cid \in CIDs /\ call[t].kind # "shutdown"
      /\ call[t].kind = "bounce" => call[t].wave = {}
      /\ \A m \in call[t].wave : m.cid # call[t].cid
      /\ Held(t) = {m.cid : m \in call[t].wave} \cup {call[t].cid}
  BY SubmitFacts
<1>2. PICK cs \in SUBSET CIDs : cs = {call[t].cid}
  BY <1>1
<1>3. PICK r : r = Refused(call[t], -2)
  OBVIOUS
<1>4. /\ r \in CallRecords /\ r.wave = call[t].wave /\ CallOK(r)
      /\ r.pc # "submit" /\ (r.calls = call[t].calls \/ r.calls = call[t].calls + 1)
      /\ r.wave # {} => r.calls = call[t].calls /\ r.pc # "idle" /\ r.kind = call[t].kind
  <2>1. CASE call[t].wave = {}
    <3>1. r = Over(call[t], -2)
      BY <1>3, <2>1 DEF Refused
    <3>2. /\ r \in CallRecords /\ r.wave = {} /\ CallOK(r) /\ r.pc \in {"free", "idle"}
          /\ r.calls = call[t].calls \/ r.calls = call[t].calls + 1
      <4>1. /\ Over(call[t], -2) \in CallRecords /\ Over(call[t], -2).wave = {}
            /\ CallOK(Over(call[t], -2)) /\ Over(call[t], -2).pc \in {"free", "idle"}
            /\ call[t].kind = "bounce" => Over(call[t], -2).calls = call[t].calls
            /\ call[t].kind # "bounce" => Over(call[t], -2).calls = call[t].calls + 1
        BY <1>1, OverFacts
      <4>2. QED
        BY <3>1, <4>1
    <3>3. r.pc # "submit"
      BY <3>2
    <3>4. QED
      BY <2>1, <3>2, <3>3
  <2>2. CASE call[t].wave # {}
    <3>1. PICK x \in CallPcs : x = "wait"
      BY DEF CallPcs
    <3>2. PICK a : a = [call[t] EXCEPT !.pc = x]
      OBVIOUS
    <3>3. r = [call[t] EXCEPT !.pc = x, !.rc = -2]
      BY <1>3, <2>2, <3>1 DEF Refused
    <3>4. r = [a EXCEPT !.rc = -2]
      BY SMTT(30), <3>2, <3>3
    <3>5. /\ a \in CallRecords /\ a.pc = x /\ a.wave = call[t].wave /\ a.kind = call[t].kind
          /\ a.calls = call[t].calls
      BY SMTT(30), <1>1, <3>2, WithPc
    <3>6. /\ r \in CallRecords /\ r.pc = x /\ r.wave = a.wave /\ r.kind = a.kind
          /\ r.calls = a.calls
      BY SMTT(30), <3>4, <3>5, WithRc
    <3>7. CallOK(r)
      BY <1>1, <2>2, <3>1, <3>5, <3>6 DEF CallOK
    <3>8. r.pc # "submit" /\ r.pc # "idle"
      BY <3>1, <3>6
    <3>9. QED
      BY <3>5, <3>6, <3>7, <3>8
  <2>3. QED
    BY <2>1, <2>2
<1>5. vq' = Released(cs) /\ SetCall(t, r)
  BY <1>2, <1>3
<1>6. cs \subseteq Held(t) /\ {m.cid : m \in r.wave} = Held(t) \ cs
  BY <1>1, <1>2, <1>4
<1>7. \A c \in cs : vq.result[c].v # 0 \/ (CallAt(t, "submit") /\ c = call[t].cid)
  BY <1>2
<1>8. GivesBack(t, r, cs)
  <2>1. r.wave \subseteq call[t].wave
    BY <1>4
  <2>2. QED
    BY <1>4, <1>6, <1>7, <2>1 DEF GivesBack
<1>9. QED
  BY <1>4, <1>5, <1>8, ReleaseStep

\* The next command of a call.
LEMMA CommandType ==
    ASSUME NvmeInv, NEW t \in Callers, CallAt(t, "submit"),
           NEW e, e = [cid |-> call[t].cid, cmd |-> Cmd(t)]
    PROVE  /\ e \in Entries /\ e # NoEntry /\ e.cid = call[t].cid /\ e.cmd.by = t
           /\ e.cmd.kind = call[t].kind /\ e.cmd.call = call[t].calls
<1>1. /\ call[t] \in CallRecords /\ call[t].kind # "shutdown"
  BY SubmitFacts
<1>2. /\ call[t].kind \in {"bounce", "batch"} /\ call[t].calls \in Nat /\ call[t].next \in Nat
      /\ call[t].cid \in CIDs
  BY <1>1, CallFields
<1>3. PICK m : m = Cmd(t)
  OBVIOUS
<1>4. m \in Commands /\ m.by = t /\ m.kind = call[t].kind /\ m.call = call[t].calls
  BY SMTT(30), <1>2, <1>3 DEF Cmd, Commands
<1>5. e \in Entries /\ e.cid = call[t].cid /\ e.cmd = m
  <2>1. e = [cid |-> call[t].cid, cmd |-> m]
    BY <1>3
  <2>2. QED
    BY SMTT(30), <1>2, <1>4, <2>1 DEF Entries
<1>6. NoEntry.cmd = None
  BY SMTT(30) DEF NoEntry
<1>7. QED
  BY <1>4, <1>5, <1>6, NvmeConstants

\* The rings when the tail moves over a command.
LEMMA TailMoves ==
    ASSUME NvmeTypeOK, RingInv, vq'.tail = (vq.tail + 1) % Depth, dev' = dev,
           vq'.sq[vq.tail] # NoEntry, \A i \in CIDs : i # vq.tail => vq'.sq[i] = vq.sq[i]
    PROVE  RingInv'
<1>1. vq.tail \in CIDs /\ dev.head \in CIDs
  BY QueueTypes
<1>2. SUFFICES ASSUME NEW i \in CIDs, Doorbelled(i)', i # vq.tail PROVE Sent(i)'
  BY DEF RingInv, Sent
<1>3. PICK h \in CIDs, k \in CIDs, l \in CIDs :
        /\ h = dev.head /\ k = vq.tail /\ l = vq'.tail
        /\ l = IF k + 1 = Depth THEN 0 ELSE k + 1
  BY <1>1, NextSlot
<1>4. IF h <= l THEN h <= i /\ i < l ELSE h <= i \/ i < l
  BY <1>2, <1>3 DEF Doorbelled
<1>5. IF h <= k THEN h <= i /\ i < k ELSE h <= i \/ i < k
  BY SMTT(30), <1>2, <1>3, <1>4, NvmeConstants DEF CIDs
<1>6. Doorbelled(i)
  BY <1>3, <1>5 DEF Doorbelled
<1>7. QED
  BY <1>2, <1>6 DEF RingInv, Sent

\* The command e goes into the ring under the identifier its call holds.
LEMMA SentStep ==
    ASSUME NvmeInv, NEW t \in Callers, CallAt(t, "submit"), UNCHANGED <<ctrl, reg, dev, kept>>,
           NEW e, e = [cid |-> call[t].cid, cmd |-> Cmd(t)],
           vq' = [vq EXCEPT !.sq[vq.tail] = e, !.tail = (@ + 1) % Depth],
           SetCall(t, Onward([call[t] EXCEPT !.next = @ + 1, !.wave = @ \cup {e}]))
    PROVE  NvmeInv'
<1>1. /\ NvmeTypeOK /\ CallsInv /\ HeldInv /\ VerdictsInv /\ OwnedInv /\ OnceInv /\ RingInv
      /\ PagesInv
  BY DEF NvmeInv
<1>2. /\ e \in Entries /\ e # NoEntry /\ e.cid = call[t].cid /\ e.cmd.by = t
      /\ e.cmd.kind = call[t].kind /\ e.cmd.call = call[t].calls
  BY CommandType
<1>3. /\ call[t] \in CallRecords /\ call[t].cid \in CIDs /\ call[t].kind # "shutdown"
      /\ call[t].next + 1 \in Nat \ {0} /\ call[t].next + 1 > 1
      /\ \A m \in call[t].wave : m.cid # call[t].cid
      /\ Held(t) = {m.cid : m \in call[t].wave} \cup {call[t].cid}
      /\ call[t].cid \in vq.in_use /\ vq.result[call[t].cid].v = 0
  BY SubmitFacts
<1>4. PICK r : /\ r \in CallRecords /\ SetCall(t, r) /\ r.wave = call[t].wave \cup {e}
               /\ CallOK(r) /\ r.pc # "submit" /\ r.pc # "idle" /\ r.calls = call[t].calls
               /\ r.kind = call[t].kind
  <2>1. PICK n \in Nat \ {0} : n = call[t].next + 1
    BY <1>3
  <2>2. PICK w \in SUBSET Entries : w = call[t].wave \cup {e}
    BY <1>2, <1>3, CallFields
  <2>3. PICK a : a = [call[t] EXCEPT !.next = n]
    OBVIOUS
  <2>4. PICK b : b = [call[t] EXCEPT !.next = n, !.wave = w]
    OBVIOUS
  <2>5. b = [a EXCEPT !.wave = w]
    BY SMTT(30), <2>3, <2>4
  <2>6. /\ a \in CallRecords /\ a.next = n /\ a.kind = call[t].kind /\ a.calls = call[t].calls
    BY SMTT(30), <1>3, <2>3, WithNext
  <2>7. /\ b \in CallRecords /\ b.next = n /\ b.kind = call[t].kind /\ b.calls = call[t].calls
        /\ b.wave = w
    BY SMTT(30), <2>5, <2>6, WithWave
  <2>8. PICK r : r = Onward(b)
    OBVIOUS
  <2>9. /\ r \in CallRecords /\ r.wave = b.wave /\ CallOK(r) /\ r.pc # "submit"
        /\ b.wave # {} => r.calls = b.calls /\ r.pc # "idle" /\ r.kind = b.kind
    <3>1. b.kind # "shutdown" /\ (b.kind = "bounce" => b.next > 1)
      BY <1>3, <2>1, <2>7
    <3>2. QED
      BY <2>7, <2>8, <3>1, OnwardFacts
  <2>10. SetCall(t, r)
    BY <2>1, <2>2, <2>4, <2>8
  <2>11. b.wave # {}
    BY <2>2, <2>7
  <2>12. QED
    BY <2>2, <2>7, <2>9, <2>10, <2>11
<1>5. Moved(t, r)
  BY <1>1, <1>4, SetCallMoves
<1>6. call'[t] = r /\ \A u \in Callers : u # t => call'[u] = call[u]
  BY <1>5 DEF Moved
<1>7. /\ vq' \in Queues /\ vq'.in_use = vq.in_use /\ vq'.result = vq.result /\ vq'.cq = vq.cq
      /\ vq'.tail = (vq.tail + 1) % Depth /\ vq'.sq[vq.tail] = e
      /\ \A i \in CIDs : i # vq.tail => vq'.sq[i] = vq.sq[i]
  <2>1. vq \in Queues /\ vq.tail \in CIDs /\ vq.sq \in [CIDs -> Entries \cup {NoEntry}]
    BY <1>1, QueueTypes
  <2>2. PICK k \in CIDs : k = (vq.tail + 1) % Depth
    BY <2>1, NextSlot
  <2>3. PICK f : f = [vq.sq EXCEPT ![vq.tail] = e]
    OBVIOUS
  <2>4. /\ f \in [CIDs -> Entries \cup {NoEntry}] /\ f[vq.tail] = e
        /\ \A i \in CIDs : i # vq.tail => f[i] = vq.sq[i]
    BY SMTT(30), <1>2, <2>1, <2>3
  <2>5. PICK a : a = [vq EXCEPT !.sq = f]
    OBVIOUS
  <2>6. vq' = [vq EXCEPT !.sq = f, !.tail = k]
    BY SMTT(30), <2>2, <2>3
  <2>7. vq' = [a EXCEPT !.tail = k]
    BY SMTT(30), <2>5, <2>6
  <2>8. /\ a \in Queues /\ a.sq = f /\ a.in_use = vq.in_use /\ a.result = vq.result
        /\ a.cq = vq.cq
    BY SMTT(30), <2>1, <2>4, <2>5, WithSq
  <2>9. /\ vq' \in Queues /\ vq'.sq = f /\ vq'.in_use = vq.in_use /\ vq'.result = vq.result
        /\ vq'.cq = vq.cq /\ vq'.tail = k
    <3>1. PICK o : o = vq'
      OBVIOUS
    <3>2. /\ o \in Queues /\ o.tail = k /\ o.in_use = a.in_use
          /\ o.result = a.result /\ o.sq = a.sq /\ o.cq = a.cq
      BY SMTT(30), <2>7, <2>8, <3>1, WithTail
    <3>3. QED
      BY <2>8, <3>1, <3>2
  <2>10. QED
    BY <2>2, <2>4, <2>9
<1>8. NvmeTypeOK'
  BY <1>1, <1>5, <1>7 DEF NvmeTypeOK, Moved
<1>9. CallsInv'
  BY <1>1, <1>4, <1>6 DEF CallsInv, CallOK
<1>10. ASSUME NEW u \in Callers PROVE Held(u)' = Held(u)
  <2>1. CASE u = t
    BY SMTT(30), <1>2, <1>3, <1>4, <1>6, <2>1 DEF Held, CallAt
  <2>2. CASE u # t
    BY <1>6, <2>2 DEF Held, CallAt
  <2>3. QED
    BY <2>1, <2>2
<1>11. HeldInv'
  <2>1. ASSUME NEW u \in Callers PROVE HeldOK(u)'
    <3>1. HeldOK(u)
      BY <1>1 DEF HeldInv
    <3>2. CASE u = t
      <4>1. Held(u)' \subseteq vq'.in_use
        BY <1>7, <1>10, <3>1 DEF HeldOK
      <4>2. \A m, n \in call'[t].wave : m.cid = n.cid => m = n
        <5>1. call'[t].wave = call[t].wave \cup {e}
          BY <1>4, <1>6
        <5>2. \A m, n \in call[t].wave : m.cid = n.cid => m = n
          BY <3>1, <3>2 DEF HeldOK
        <5>3. \A m \in call[t].wave : m.cid # e.cid
          BY <1>2, <1>3
        <5>4. QED
          BY <5>1, <5>2, <5>3
      <4>3. QED
        BY <1>4, <1>6, <3>2, <4>1, <4>2 DEF HeldOK, CallAt
    <3>3. CASE u # t
      <4>1. Held(u)' \subseteq vq'.in_use
        BY <1>7, <1>10, <3>1 DEF HeldOK
      <4>2. call'[u] = call[u] /\ vq'.result = vq.result
        BY <1>6, <1>7, <3>3
      <4>3. QED
        BY <3>1, <4>1, <4>2 DEF HeldOK, CallAt
    <3>4. QED
      BY <3>2, <3>3
  <2>2. \A u, v \in Callers : u # v => Held(u)' \cap Held(v)' = {}
    BY <1>1, <1>10 DEF HeldInv
  <2>3. ASSUME ~ctrl'.failed, NEW d \in vq'.in_use PROVE \E u \in Callers : d \in Held(u)'
    <3>1. PICK u \in Callers : d \in Held(u)
      BY <1>1, <1>7, <2>3 DEF HeldInv
    <3>2. QED
      BY <1>10, <3>1
  <2>4. QED
    BY <2>1, <2>2, <2>3 DEF HeldInv
<1>12. VerdictsInv'
  <2> SUFFICES ASSUME NEW u \in Callers, NEW m \in call'[u].wave, vq'.result[m.cid].v # 0
               PROVE  vq'.result[m.cid].cmd = m.cmd
    BY DEF VerdictsInv
  <2>1. m \in call[u].wave
    BY SMTT(30), <1>2, <1>3, <1>4, <1>6, <1>7
  <2>2. QED
    BY <1>1, <1>7, <2>1 DEF VerdictsInv
<1>13. ASSUME NEW o, Owned(o) PROVE Owned(o)' /\ o.cid # e.cid
  <2>1. o.cid # e.cid
    BY <1>2, <1>13 DEF Owned
  <2>2. o.cid \in vq'.in_use /\ vq'.result[o.cid].v = 0
    BY <1>7, <1>13 DEF Owned
  <2>3. ASSUME NEW u \in Callers
        PROVE  /\ call'[u].pc = "submit" => call'[u].cid # o.cid
               /\ \A m \in call'[u].wave : m.cid = o.cid => m.cmd = o.cmd
    BY <1>4, <1>6, <1>13, <2>1 DEF Owned, CallAt
  <2>4. QED
    BY <2>1, <2>2, <2>3 DEF Owned, CallAt
<1>14. Owned(e)'
  <2>1. e.cid \in vq'.in_use /\ vq'.result[e.cid].v = 0
    BY <1>2, <1>3, <1>7
  <2>2. ASSUME NEW u \in Callers, u # t PROVE e.cid \notin Held(u)'
    <3>1. Held(u) \cap Held(t) = {}
      BY <1>1, <2>2 DEF HeldInv
    <3>2. e.cid \in Held(t)
      BY <1>2, <1>3
    <3>3. QED
      BY <1>10, <3>1, <3>2
  <2>3. ASSUME NEW u \in Callers
        PROVE  /\ call'[u].pc = "submit" => call'[u].cid # e.cid
               /\ \A m \in call'[u].wave : m.cid = e.cid => m.cmd = e.cmd
    <3>1. CASE u = t
      BY <1>2, <1>3, <1>4, <1>6, <3>1
    <3>2. CASE u # t
      BY <2>2, <3>2 DEF Held, CallAt
    <3>3. QED
      BY <3>1, <3>2
  <2>4. QED
    BY <2>1, <2>3 DEF Owned, CallAt
<1>15. ASSUME NEW i \in CIDs
       PROVE  /\ i = vq.tail => vq'.sq[i] = e
              /\ i # vq.tail => vq'.sq[i] = vq.sq[i] /\ (Sent(i)' => Sent(i))
  BY <1>7 DEF Sent
<1>16. OwnedInv'
  <2>1. ASSUME NEW i \in CIDs, Sent(i)' PROVE Owned(vq.sq[i])'
    <3>1. CASE i = vq.tail
      BY <1>14, <1>15, <3>1
    <3>2. CASE i # vq.tail
      <4>1. PICK o : o = vq.sq[i] /\ Owned(o)
        BY <1>1, <1>15, <2>1, <3>2 DEF OwnedInv
      <4>2. Owned(o)' /\ vq'.sq[i] = o
        BY <1>13, <1>15, <3>2, <4>1
      <4>3. QED
        BY <4>2
    <3>3. QED
      BY <3>1, <3>2
  <2>2. (\A d \in dev'.running : Owned(d)') /\ \A k \in DOMAIN vq'.cq : Owned(vq.cq[k])'
    BY <1>1, <1>7, <1>13 DEF OwnedInv
  <2>3. QED
    BY <2>1, <2>2 DEF OwnedInv
<1>17. ASSUME NEW i \in CIDs, i # vq.tail, Sent(i)'
       PROVE  Sent(i) /\ vq'.sq[i] = vq.sq[i] /\ vq.sq[i].cid # e.cid
  BY <1>1, <1>13, <1>15, <1>17 DEF OwnedInv
<1>18. OnceInv'
  <2>1. ASSUME NEW i \in CIDs, NEW j \in CIDs, Sent(i)', Sent(j)', vq'.sq[i].cid = vq'.sq[j].cid
        PROVE  i = j
    BY SMTT(30), <1>1, <1>15, <1>17, <2>1 DEF OnceInv
  <2>2. (\A d \in dev.running : e.cid # d.cid) /\ \A k \in DOMAIN vq.cq : e.cid # vq.cq[k].cid
    BY <1>1, <1>13 DEF OwnedInv
  <2>3. ASSUME NEW i \in CIDs, Sent(i)'
        PROVE  /\ \A d \in dev.running : vq'.sq[i].cid # d.cid
               /\ \A k \in DOMAIN vq.cq : vq'.sq[i].cid # vq.cq[k].cid
    <3>1. CASE i = vq.tail
      BY <1>15, <2>2, <3>1
    <3>2. CASE i # vq.tail
      <4>1. Sent(i) /\ vq'.sq[i] = vq.sq[i]
        BY <1>17, <2>3, <3>2
      <4>2. QED
        BY <1>1, <4>1 DEF OnceInv
    <3>3. QED
      BY <3>1, <3>2
  <2>4. /\ \A d, f \in dev'.running : d.cid = f.cid => d = f
        /\ \A k, l \in DOMAIN vq'.cq : vq'.cq[k].cid = vq'.cq[l].cid => k = l
        /\ \A d \in dev'.running : \A k \in DOMAIN vq'.cq : d.cid # vq'.cq[k].cid
    BY SMTT(30), <1>1, <1>7 DEF OnceInv
  <2>5. ASSUME NEW i \in CIDs, Sent(i)'
        PROVE  /\ \A d \in dev'.running : vq'.sq[i].cid # d.cid
               /\ \A k \in DOMAIN vq'.cq : vq'.sq[i].cid # vq'.cq[k].cid
    <3>1. dev'.running = dev.running /\ vq'.cq = vq.cq
      BY <1>7
    <3>2. QED
      BY <2>3, <2>5, <3>1
  <2>6. \A i, j \in CIDs : Sent(i)' /\ Sent(j)' /\ vq'.sq[i].cid = vq'.sq[j].cid => i = j
    BY <2>1
  <2>7. QED
    BY <2>4, <2>5, <2>6 DEF OnceInv
<1>19. RingInv'
  BY <1>1, <1>2, <1>7, TailMoves
<1>20. PagesInv'
  <2>1. PageOK(e)' /\ ~Forgotten(e)'
    <3>1. e.cmd.call \in Nat /\ e.cmd.call <= r.calls /\ ~(e.cmd.call < r.calls)
      BY SMTT(30), <1>2, <1>3, <1>4, CallFields
    <3>2. QED
      BY <1>2, <1>4, <1>6, <3>1 DEF PageOK, Forgotten
  <2>2. SlotsKept
    BY <1>15, <1>17, <2>1 DEF SlotsKept
  <2>3. ASSUME NEW d \in Entries, InFlight(d), d.cmd.by = t, d.cmd.call = call[t].calls
        PROVE  d \in r.wave
    BY <1>1, <1>4, <2>3 DEF PagesInv, PageOK, InFlight, CallAt
  <2>4. CommandsKept(t, r)
    BY <1>4, <2>3 DEF CommandsKept
  <2>5. RegistersStep
    BY <1>1 DEF RegistersStep, PagesInv
  <2>6. QED
    BY <1>4, <1>5, <2>2, <2>4, <2>5, MovePages
<1>21. QED
  BY <1>8, <1>9, <1>11, <1>12, <1>16, <1>18, <1>19, <1>20 DEF NvmeInv

LEMMA SubmitStep ==
    ASSUME NvmeInv, NEW t \in Callers, Submit(t)
    PROVE  NvmeInv'
<1>1. CASE vq' = Released({call[t].cid}) /\ SetCall(t, Refused(call[t], -2))
  BY <1>1, RefusedStep DEF Submit
<1>2. CASE ~(vq' = Released({call[t].cid}) /\ SetCall(t, Refused(call[t], -2)))
  <2>1. PICK e : e = [cid |-> call[t].cid, cmd |-> Cmd(t)]
    OBVIOUS
  <2>2. QED
    BY <1>2, <2>1, SentStep DEF Submit
<1>3. QED
  BY <1>1, <1>2

-----------------------------------------------------------------------------
(* Verdicts *)

\* The least of a finite set of at most two verdicts is one of them.
LEMMA WorstType ==
    ASSUME NEW rc \in {0, -1, -2}, NEW S
    PROVE  Min({rc} \cup {-1 : m \in S}) \in {0, -1, -2}
<1>1. PICK T : T = {rc} \cup {-1 : m \in S}
  OBVIOUS
<1>2. T \subseteq {0, -1, -2} /\ \A x \in T : x = rc \/ x = -1
  BY <1>1
<1>3. \E x \in T : \A y \in T : x <= y
  <2>1. CASE -1 \in T /\ rc = 0
    <3>1. \A y \in T : -1 <= y
      BY SMTT(30), <1>2, <2>1
    <3>2. QED
      BY <2>1, <3>1
  <2>2. CASE ~(-1 \in T /\ rc = 0)
    <3>1. \A y \in T : rc <= y
      BY SMTT(30), <1>2, <2>2
    <3>2. rc \in T
      BY <1>1
    <3>3. QED
      BY <3>1, <3>2
  <2>3. QED
    BY <2>1, <2>2
<1>4. Min(T) \in T
  BY <1>3 DEF Min
<1>5. QED
  BY <1>1, <1>2, <1>4

LEMMA ReapedFacts ==
    ASSUME NEW r \in CallRecords
    PROVE  /\ Reaped(r) \in CallRecords /\ Reaped(r).wave = r.wave \ Answered(r.wave)
           /\ Reaped(r).kind = r.kind /\ Reaped(r).calls = r.calls
           /\ Reaped(r).next = r.next
<1>1. PICK w \in SUBSET Entries : w = r.wave \ Answered(r.wave)
  BY CallFields
<1>2. PICK c \in {0, -1, -2} :
        c = Min({r.rc} \cup {-1 : m \in {x \in Answered(r.wave) : vq.result[x.cid].v = -1}})
  <2>1. r.rc \in {0, -1, -2}
    BY CallFields
  <2>2. QED
    BY <2>1, WorstType
<1>3. PICK a : a = [r EXCEPT !.wave = w]
  OBVIOUS
<1>4. PICK o : o = [r EXCEPT !.wave = w, !.rc = c]
  OBVIOUS
<1>5. o = [a EXCEPT !.rc = c]
  BY SMTT(30), <1>3, <1>4
<1>6. /\ a \in CallRecords /\ a.wave = w /\ a.kind = r.kind /\ a.calls = r.calls
      /\ a.next = r.next
  BY SMTT(30), <1>3, WithWave
<1>7. /\ o \in CallRecords /\ o.wave = w /\ o.kind = r.kind /\ o.calls = r.calls
      /\ o.next = r.next
  BY SMTT(30), <1>5, <1>6, WithRc
<1>8. Reaped(r) = o
  BY <1>1, <1>2, <1>4 DEF Reaped
<1>9. QED
  BY <1>1, <1>7, <1>8

LEMMA WaitStep ==
    ASSUME NvmeInv, NEW t \in Callers, nvme_io_wait_many(t)
    PROVE  NvmeInv'
<1>1. /\ call[t] \in CallRecords /\ CallOK(call[t]) /\ HeldOK(t) /\ NvmeTypeOK
  BY CallTypes DEF NvmeInv, CallsInv, HeldInv
<1>2. /\ CallAt(t, "wait") /\ UNCHANGED <<ctrl, reg, dev, kept>> /\ call[t].kind # "shutdown"
      /\ call[t].kind = "bounce" => call[t].next > 1
  BY <1>1 DEF nvme_io_wait_many, CallOK, CallAt
<1>3. Held(t) = {m.cid : m \in call[t].wave}
  BY <1>2 DEF Held, CallAt
<1>4. PICK cs \in SUBSET CIDs : cs = {m.cid : m \in Answered(call[t].wave)}
  <2>1. Held(t) \subseteq CIDs
    BY <1>1, QueueTypes DEF HeldOK
  <2>2. Answered(call[t].wave) \subseteq call[t].wave
    BY DEF Answered
  <2>3. QED
    BY <1>3, <2>1, <2>2
<1>5. PICK q : q = Reaped(call[t])
  OBVIOUS
<1>6. /\ q \in CallRecords /\ q.wave = call[t].wave \ Answered(call[t].wave)
      /\ q.kind = call[t].kind /\ q.calls = call[t].calls /\ q.next = call[t].next
  BY <1>1, <1>5, ReapedFacts
<1>7. \A m \in call[t].wave : m \in Answered(call[t].wave) <=> vq.result[m.cid].v # 0
  BY DEF Answered
<1>8. /\ cs \subseteq Held(t) /\ {m.cid : m \in q.wave} = Held(t) \ cs
      /\ \A c \in cs : vq.result[c].v # 0
  <2>1. ASSUME NEW c \in cs PROVE c \in Held(t) /\ vq.result[c].v # 0
    <3>1. PICK m \in Answered(call[t].wave) : c = m.cid
      BY <1>4, <2>1
    <3>2. QED
      BY <1>3, <3>1 DEF Answered
  <2>2. ASSUME NEW m \in q.wave PROVE m.cid \in Held(t) \ cs
    BY <1>3, <1>6, <1>7, <2>1, <2>2
  <2>3. ASSUME NEW c \in Held(t) \ cs PROVE \E m \in q.wave : c = m.cid
    BY <1>3, <1>4, <1>6, <2>3
  <2>4. {m.cid : m \in q.wave} \subseteq Held(t) \ cs
    BY <2>2
  <2>5. Held(t) \ cs \subseteq {m.cid : m \in q.wave}
    BY <2>3
  <2>6. QED
    BY <2>1, <2>4, <2>5
<1>9. vq' = Released(cs)
  BY <1>4 DEF nvme_io_wait_many
<1>10. ASSUME NEW r \in CallRecords, SetCall(t, r), CallOK(r), r.pc # "submit",
              r.wave = q.wave, r.calls = call[t].calls \/ r.calls = call[t].calls + 1,
              r.wave # {} => r.calls = call[t].calls /\ r.pc # "idle" /\ r.kind = call[t].kind
       PROVE  NvmeInv'
  <2>1. r.wave \subseteq call[t].wave
    BY <1>6, <1>10
  <2>2. GivesBack(t, r, cs)
    BY <1>8, <1>10, <2>1 DEF GivesBack
  <2>3. QED
    BY <1>2, <1>9, <1>10, <2>2, ReleaseStep
<1>11. CASE /\ q.wave = {} /\ q.rc = 0 /\ q.next <= Size(q.kind)
            /\ SetCall(t, [q EXCEPT !.pc = "claim"])
  <2>1. q.kind = "batch"
    <3>1. ASSUME q.kind = "bounce" PROVE FALSE
      <4>1. q.next <= 1 /\ q.next > 1 /\ q.next \in Nat
        BY <1>2, <1>6, <1>11, <3>1, CallFields DEF Size
      <4>2. QED
        BY SMTT(30), <4>1
    <3>2. QED
      BY <1>2, <1>6, <3>1, CallFields
  <2>2. PICK x \in CallPcs : x = "claim"
    BY DEF CallPcs
  <2>3. PICK r : r = [q EXCEPT !.pc = x]
    OBVIOUS
  <2>4. /\ r \in CallRecords /\ r.pc = x /\ r.wave = q.wave /\ r.kind = q.kind
        /\ r.calls = q.calls
    BY SMTT(30), <1>6, <2>3, WithPc
  <2>5. CallOK(r) /\ r.pc # "submit"
    BY <2>1, <2>2, <2>4 DEF CallOK
  <2>6. SetCall(t, r)
    BY <1>11, <2>2, <2>3
  <2>7. QED
    BY <1>6, <1>10, <1>11, <2>4, <2>5, <2>6
<1>12. CASE q.wave = {} /\ SetCall(t, Over(q, q.rc))
  <2>1. PICK rc \in {0, -1, -2} : rc = q.rc
    BY <1>6, CallFields
  <2>2. PICK r : r = Over(q, rc)
    OBVIOUS
  <2>3. /\ r \in CallRecords /\ r.wave = {} /\ CallOK(r) /\ r.pc \in {"free", "idle"}
        /\ r.calls = q.calls \/ r.calls = q.calls + 1
    <3>1. /\ Over(q, rc) \in CallRecords /\ Over(q, rc).wave = {} /\ CallOK(Over(q, rc))
          /\ Over(q, rc).pc \in {"free", "idle"}
          /\ q.kind = "bounce" => Over(q, rc).calls = q.calls
          /\ q.kind # "bounce" => Over(q, rc).calls = q.calls + 1
      BY <1>6, OverFacts
    <3>2. QED
      BY <2>2, <3>1
  <2>4. r.pc # "submit" /\ SetCall(t, r)
    BY <1>12, <2>1, <2>2, <2>3
  <2>5. QED
    BY <1>6, <1>10, <1>12, <2>3, <2>4
<1>13. CASE q.wave # {} /\ SetCall(t, [q EXCEPT !.pc = "check"])
  <2>1. PICK x \in CallPcs : x = "check"
    BY DEF CallPcs
  <2>2. PICK r : r = [q EXCEPT !.pc = x]
    OBVIOUS
  <2>3. /\ r \in CallRecords /\ r.pc = x /\ r.wave = q.wave /\ r.kind = q.kind
        /\ r.calls = q.calls /\ r.next = q.next
    BY SMTT(30), <1>6, <2>2, WithPc
  <2>4. CallOK(r) /\ r.pc # "submit" /\ r.pc # "idle"
    BY <1>2, <1>6, <2>1, <2>3 DEF CallOK
  <2>5. SetCall(t, r)
    BY <1>13, <2>1, <2>2
  <2>6. QED
    BY <1>6, <1>10, <2>3, <2>4, <2>5
<1>14. QED
  <2>1. CASE q.wave = {}
    BY <1>5, <1>11, <1>12, <2>1 DEF nvme_io_wait_many
  <2>2. CASE q.wave # {}
    BY <1>5, <1>13, <2>2 DEF nvme_io_wait_many
  <2>3. QED
    BY <2>1, <2>2

\* A drain finds the one completion of an identifier.
LEMMA VerdictFacts ==
    ASSUME NvmeTypeOK, OnceInv, NEW c \in CIDs, Posted(c) # {}
    PROVE  \E k \in DOMAIN vq.cq :
             /\ vq.cq[k].cid = c /\ Verdict(vq.cq[Min(Posted(c))]) \in Verdicts
             /\ Verdict(vq.cq[Min(Posted(c))]).v # 0
             /\ Verdict(vq.cq[Min(Posted(c))]).cmd = vq.cq[k].cmd
<1>1. PICK k \in DOMAIN vq.cq : vq.cq[k].cid = c
  BY DEF Posted
<1>2. Posted(c) = {k}
  <2>1. \A l \in DOMAIN vq.cq : vq.cq[l].cid = c => l = k
    BY <1>1 DEF OnceInv
  <2>2. QED
    BY <1>1, <2>1 DEF Posted
<1>3. vq.cq \in Seq(Completions)
  BY QueueTypes
<1>4. k \in Nat /\ vq.cq[k] \in Completions
  BY SMTT(30), <1>1, <1>3
<1>5. Min({k}) = k
  <2>1. Min({k}) = CHOOSE x \in {k} : \A y \in {k} : x <= y
    BY DEF Min
  <2>2. k <= k
    BY SMTT(30), <1>4
  <2>3. QED
    BY SMTT(30), <2>1, <2>2
<1>6. PICK e \in Completions : e = vq.cq[k]
  BY <1>4
<1>7. Verdict(e) \in Verdicts /\ Verdict(e).v # 0 /\ Verdict(e).cmd = e.cmd
  BY SMTT(30) DEF Verdict, Verdicts, Completions
<1>8. Verdict(vq.cq[Min(Posted(c))]) = Verdict(e)
  BY <1>2, <1>5, <1>6
<1>9. QED
  BY <1>1, <1>6, <1>7, <1>8

LEMMA DrainStep ==
    ASSUME NvmeInv, nvme_drain_cq
    PROVE  NvmeInv'
<1>1. /\ NvmeTypeOK /\ CallsInv /\ HeldInv /\ VerdictsInv /\ OwnedInv /\ OnceInv /\ RingInv
      /\ PagesInv /\ UNCHANGED <<ctrl, reg, dev, call, kept>>
  BY DEF NvmeInv, nvme_drain_cq
<1>2. /\ vq' \in Queues /\ vq'.in_use = vq.in_use /\ vq'.tail = vq.tail /\ vq'.sq = vq.sq
      /\ vq'.cq = <<>>
      /\ \A c \in CIDs : vq'.result[c] = IF vq.result[c].v = 0 /\ Posted(c) # {}
                                         THEN Verdict(vq.cq[Min(Posted(c))]) ELSE vq.result[c]
  <2>1. PICK f : f = [c \in CIDs |-> IF vq.result[c].v = 0 /\ Posted(c) # {}
                                     THEN Verdict(vq.cq[Min(Posted(c))]) ELSE vq.result[c]]
    OBVIOUS
  <2>2. ASSUME NEW c \in CIDs PROVE f[c] \in Verdicts
    <3>1. vq.result[c] \in Verdicts
      BY <1>1, QueueTypes
    <3>2. Posted(c) # {} => Verdict(vq.cq[Min(Posted(c))]) \in Verdicts
      BY <1>1, VerdictFacts
    <3>3. QED
      BY <2>1, <3>1, <3>2
  <2>3. f \in [CIDs -> Verdicts]
    BY <2>1, <2>2
  <2>4. vq \in Queues
    BY <1>1, QueueTypes
  <2>5. PICK a : a = [vq EXCEPT !.result = f]
    OBVIOUS
  <2>6. vq' = [vq EXCEPT !.result = f, !.cq = <<>>]
    BY <2>1 DEF nvme_drain_cq
  <2>7. vq' = [a EXCEPT !.cq = <<>>]
    BY SMTT(30), <2>5, <2>6
  <2>8. /\ a \in Queues /\ a.result = f /\ a.in_use = vq.in_use /\ a.tail = vq.tail
        /\ a.sq = vq.sq
    BY SMTT(30), <2>3, <2>4, <2>5, WithResult
  <2>9. PICK x \in Seq(Completions) : x = <<>>
    <3>1. <<>> \in Seq(Completions)
      BY SMTT(30)
    <3>2. QED
      BY <3>1
  <2>10. /\ vq' \in Queues /\ vq'.cq = x /\ vq'.in_use = a.in_use
         /\ vq'.result = a.result /\ vq'.tail = a.tail /\ vq'.sq = a.sq
    <3>1. PICK o : o = vq'
      OBVIOUS
    <3>2. o = [a EXCEPT !.cq = x]
      BY <2>7, <2>9, <3>1
    <3>3. /\ o \in Queues /\ o.cq = x /\ o.in_use = a.in_use
          /\ o.result = a.result /\ o.tail = a.tail /\ o.sq = a.sq
      BY SMTT(30), <2>8, <3>2, WithCq
    <3>4. QED
      BY <3>1, <3>3
  <2>11. QED
    BY <2>1, <2>8, <2>9, <2>10
<1>3. ASSUME NEW c \in CIDs, \A k \in DOMAIN vq.cq : vq.cq[k].cid # c
      PROVE  vq'.result[c] = vq.result[c]
  <2>1. Posted(c) = {}
    BY <1>3 DEF Posted
  <2>2. QED
    BY <1>2, <2>1
<1>4. NvmeTypeOK'
  BY <1>1, <1>2 DEF NvmeTypeOK
<1>5. CallsInv'
  BY <1>1 DEF CallsInv, CallOK
<1>6. ASSUME NEW t \in Callers PROVE Held(t)' = Held(t)
  BY <1>1 DEF Held, CallAt
<1>7. HeldInv'
  <2>1. ASSUME NEW t \in Callers PROVE HeldOK(t)'
    <3>1. HeldOK(t)
      BY <1>1 DEF HeldInv
    <3>2. Held(t)' \subseteq vq'.in_use /\ call' = call
      BY <1>1, <1>2, <1>6, <3>1 DEF HeldOK
    <3>3. ASSUME CallAt(t, "submit") PROVE vq'.result[call[t].cid].v = 0
      <4>1. call[t].cid \in CIDs
        BY <1>1, CallTypes, CallFields
      <4>2. \A k \in DOMAIN vq.cq : vq.cq[k].cid # call[t].cid
        BY <1>1, <3>3 DEF OwnedInv, Owned
      <4>3. QED
        BY <1>3, <3>1, <3>3, <4>1, <4>2 DEF HeldOK
    <3>4. QED
      BY <3>1, <3>2, <3>3 DEF HeldOK, CallAt
  <2>2. \A t, u \in Callers : t # u => Held(t)' \cap Held(u)' = {}
    BY <1>1, <1>6 DEF HeldInv
  <2>3. ASSUME ~ctrl'.failed, NEW c \in vq'.in_use PROVE \E t \in Callers : c \in Held(t)'
    <3>1. PICK t \in Callers : c \in Held(t)
      BY <1>1, <1>2, <2>3 DEF HeldInv
    <3>2. QED
      BY <1>6, <3>1
  <2>4. QED
    BY <2>1, <2>2, <2>3 DEF HeldInv
<1>8. VerdictsInv'
  <2> SUFFICES ASSUME NEW t \in Callers, NEW m \in call[t].wave, vq'.result[m.cid].v # 0
               PROVE  vq'.result[m.cid].cmd = m.cmd
    BY <1>1 DEF VerdictsInv
  <2>1. m.cid \in CIDs
    BY <1>1, CallTypes, CallFields, EntryFields
  <2>2. CASE vq'.result[m.cid] = vq.result[m.cid]
    BY <1>1, <2>2 DEF VerdictsInv
  <2>3. CASE vq'.result[m.cid] # vq.result[m.cid]
    <3>1. Posted(m.cid) # {} /\ vq'.result[m.cid] = Verdict(vq.cq[Min(Posted(m.cid))])
      BY <1>2, <2>1, <2>3
    <3>2. PICK k \in DOMAIN vq.cq : /\ vq.cq[k].cid = m.cid
                                    /\ Verdict(vq.cq[Min(Posted(m.cid))]).cmd = vq.cq[k].cmd
      BY <1>1, <2>1, <3>1, VerdictFacts
    <3>3. m.cmd = vq.cq[k].cmd
      BY <1>1, <3>2 DEF OwnedInv, Owned
    <3>4. QED
      BY <3>1, <3>2, <3>3
  <2>4. QED
    BY <2>2, <2>3
<1>9. ASSUME NEW e, Owned(e), \A k \in DOMAIN vq.cq : vq.cq[k].cid # e.cid
      PROVE  Owned(e)'
  <2>1. e.cid \in CIDs
    BY <1>1, <1>9, QueueTypes DEF Owned
  <2>2. vq'.result[e.cid] = vq.result[e.cid]
    BY <1>3, <1>9, <2>1
  <2>3. QED
    BY <1>1, <1>2, <1>9, <2>2 DEF Owned, CallAt
<1>10. DOMAIN vq'.cq = {}
  BY SMTT(30), <1>2
<1>11. OwnedInv'
  <2>1. ASSUME NEW i \in CIDs, Sent(i)' PROVE Owned(vq.sq[i])'
    <3>1. Sent(i)
      BY <1>2, <2>1 DEF Sent
    <3>2. PICK e : e = vq.sq[i]
      OBVIOUS
    <3>3. Owned(e)
      BY <1>1, <3>1, <3>2 DEF OwnedInv
    <3>4. \A k \in DOMAIN vq.cq : vq.cq[k].cid # e.cid
      BY <1>1, <3>1, <3>2 DEF OnceInv
    <3>5. Owned(e)' /\ vq'.sq[i] = e
      BY <1>2, <1>9, <3>2, <3>3, <3>4
    <3>6. QED
      BY <3>5
  <2>2. ASSUME NEW e \in dev.running PROVE Owned(e)'
    BY <1>1, <1>9 DEF OwnedInv, OnceInv
  <2>3. QED
    BY <1>1, <1>10, <2>1, <2>2 DEF OwnedInv
<1>12. OnceInv'
  BY SMTT(30), <1>1, <1>2, <1>10 DEF OnceInv, Sent
<1>13. RingInv'
  BY <1>1, <1>2 DEF RingInv, Sent, Doorbelled
<1>14. PagesInv'
  <2>1. \A e : (PageOK(e) => PageOK(e)') /\ (Forgotten(e)' => Forgotten(e))
    BY <1>1, <1>2 DEF PageOK, Forgotten
  <2>2. QED
    BY <1>1, <1>2, <2>1 DEF PagesInv, Sent
<1>15. QED
  BY <1>4, <1>5, <1>7, <1>8, <1>11, <1>12, <1>13, <1>14 DEF NvmeInv

-----------------------------------------------------------------------------
(* The device *)

\* What the calls know of their commands does not change with the rings.
LEMMA CallsSame ==
    ASSUME NvmeInv, UNCHANGED <<ctrl, call>>, vq'.in_use = vq.in_use, vq'.result = vq.result
    PROVE  /\ CallsInv' /\ HeldInv' /\ VerdictsInv'
           /\ \A e : Owned(e) => Owned(e)'
<1>1. CallsInv /\ HeldInv /\ VerdictsInv
  BY DEF NvmeInv
<1>2. CallsInv' /\ VerdictsInv'
  <2>1. CallsInv'
    BY <1>1 DEF CallsInv, CallOK
  <2>2. VerdictsInv'
    BY <1>1 DEF VerdictsInv
  <2>3. QED
    BY <2>1, <2>2
<1>3. \A t \in Callers : Held(t)' = Held(t)
  BY DEF Held, CallAt
<1>4. ASSUME NEW t \in Callers PROVE HeldOK(t)'
  <2>1. HeldOK(t)
    BY <1>1 DEF HeldInv
  <2>2. QED
    BY <1>3, <2>1 DEF HeldOK, CallAt
<1>5. HeldInv'
  <2>1. \A t, u \in Callers : t # u => Held(t)' \cap Held(u)' = {}
    BY <1>1, <1>3 DEF HeldInv
  <2>2. ASSUME ~ctrl'.failed, NEW c \in vq'.in_use PROVE \E t \in Callers : c \in Held(t)'
    <3>1. PICK t \in Callers : c \in Held(t)
      BY <1>1, <2>2 DEF HeldInv
    <3>2. QED
      BY <1>3, <3>1
  <2>3. QED
    BY <1>4, <2>1, <2>2 DEF HeldInv
<1>6. ASSUME NEW e, Owned(e) PROVE Owned(e)'
  BY <1>6 DEF Owned, CallAt
<1>7. QED
  BY <1>2, <1>5, <1>6

\* The head moves over the command of its slot.
LEMMA HeadMoves ==
    ASSUME NvmeTypeOK, RingInv, dev'.head = (dev.head + 1) % Depth, vq'.tail = vq.tail,
           dev.head # vq.tail, \A i \in CIDs : i # dev.head => vq'.sq[i] = vq.sq[i]
    PROVE  RingInv' /\ Sent(dev.head)
<1>1. vq.tail \in CIDs /\ dev.head \in CIDs
  BY QueueTypes
<1>2. PICK h \in CIDs, k \in CIDs, l \in CIDs :
        /\ h = dev.head /\ k = vq.tail /\ l = dev'.head
        /\ l = IF h + 1 = Depth THEN 0 ELSE h + 1
  BY <1>1, NextSlot
<1>3. IF h <= k THEN h <= h /\ h < k ELSE h <= h \/ h < k
  BY SMTT(30), <1>2 DEF CIDs
<1>4. Sent(dev.head)
  <2>1. Doorbelled(h)
    BY <1>2, <1>3 DEF Doorbelled
  <2>2. QED
    BY <1>2, <2>1 DEF RingInv
<1>5. ASSUME NEW i \in CIDs, Doorbelled(i)' PROVE Sent(i)'
  <2>1. IF l <= k THEN l <= i /\ i < k ELSE l <= i \/ i < k
    BY <1>2, <1>5 DEF Doorbelled
  <2>2. i # h /\ IF h <= k THEN h <= i /\ i < k ELSE h <= i \/ i < k
    BY SMTT(30), <1>2, <2>1, NvmeConstants DEF CIDs
  <2>3. Doorbelled(i) /\ i # dev.head
    BY <1>2, <2>2 DEF Doorbelled
  <2>4. QED
    BY <2>3 DEF RingInv, Sent
<1>6. QED
  BY <1>4, <1>5 DEF RingInv

LEMMA FetchStep ==
    ASSUME NvmeInv, Fetch
    PROVE  NvmeInv'
<1>1. /\ NvmeTypeOK /\ OwnedInv /\ OnceInv /\ RingInv /\ PagesInv
      /\ UNCHANGED <<ctrl, reg, call, kept>> /\ reg.en /\ dev.head # vq.tail
  BY DEF NvmeInv, Fetch
<1>2. PICK h \in CIDs : h = dev.head
  BY <1>1, QueueTypes
<1>3. PICK e : e = vq.sq[h]
  OBVIOUS
<1>4. /\ vq' \in Queues /\ vq'.in_use = vq.in_use /\ vq'.result = vq.result /\ vq'.cq = vq.cq
      /\ vq'.tail = vq.tail /\ vq'.sq[h] = NoEntry
      /\ \A i \in CIDs : i # h => vq'.sq[i] = vq.sq[i]
  <2>1. vq \in Queues /\ vq.sq \in [CIDs -> Entries \cup {NoEntry}]
    BY <1>1, QueueTypes
  <2>2. PICK f : f = [vq.sq EXCEPT ![h] = NoEntry]
    OBVIOUS
  <2>3. /\ f \in [CIDs -> Entries \cup {NoEntry}] /\ f[h] = NoEntry
        /\ \A i \in CIDs : i # h => f[i] = vq.sq[i]
    BY SMTT(30), <2>1, <2>2
  <2>4. PICK o : o = vq'
    OBVIOUS
  <2>5. o = [vq EXCEPT !.sq = f]
    BY SMTT(30), <1>2, <2>2, <2>4 DEF Fetch
  <2>6. /\ o \in Queues /\ o.sq = f /\ o.in_use = vq.in_use /\ o.result = vq.result
        /\ o.tail = vq.tail /\ o.cq = vq.cq
    BY SMTT(30), <2>1, <2>3, <2>5, WithSq
  <2>7. QED
    BY <2>3, <2>4, <2>6
<1>5. dev'.head = (dev.head + 1) % Depth /\ dev'.running = dev.running \cup {e}
  BY SMTT(30), <1>2, <1>3 DEF Fetch
<1>6. RingInv' /\ Sent(h)
  BY <1>1, <1>2, <1>4, <1>5, HeadMoves
<1>7. e \in Entries
  BY <1>1, <1>3, <1>6, QueueTypes DEF Sent
<1>8. NvmeTypeOK'
  <2>1. PICK k \in CIDs : k = (dev.head + 1) % Depth
    BY <1>2, NextSlot
  <2>2. PICK R \in SUBSET Entries : R = dev.running \cup {e}
    BY <1>1, <1>7, QueueTypes
  <2>3. dev' = [head |-> k, running |-> R]
    BY <1>2, <1>3, <2>1, <2>2 DEF Fetch
  <2>4. dev' \in [head : CIDs, running : SUBSET Entries]
    BY SMTT(30), <2>1, <2>2, <2>3
  <2>5. QED
    BY <1>1, <1>4, <2>4 DEF NvmeTypeOK
<1>9. /\ CallsInv' /\ HeldInv' /\ VerdictsInv'
      /\ \A d : Owned(d) => Owned(d)'
  BY <1>1, <1>4, CallsSame
<1>10. ASSUME NEW i \in CIDs, Sent(i)' PROVE i # h /\ Sent(i) /\ vq'.sq[i] = vq.sq[i]
  <2>1. vq'.sq[i] # NoEntry
    BY <1>10 DEF Sent
  <2>2. i # h
    BY <1>4, <2>1
  <2>3. vq'.sq[i] = vq.sq[i]
    BY <1>4, <2>2
  <2>4. QED
    BY <2>1, <2>2, <2>3 DEF Sent
<1>11. OwnedInv'
  <2>1. ASSUME NEW i \in CIDs, Sent(i)' PROVE Owned(vq.sq[i])'
    <3>1. PICK d : d = vq.sq[i] /\ d = vq'.sq[i] /\ Owned(d)
      BY <1>1, <1>10, <2>1 DEF OwnedInv
    <3>2. Owned(d)'
      BY <1>9, <3>1
    <3>3. QED
      BY <3>1, <3>2
  <2>2. ASSUME NEW d \in dev'.running PROVE Owned(d)'
    <3>1. Owned(d)
      BY <1>1, <1>3, <1>5, <1>6, <2>2 DEF OwnedInv
    <3>2. QED
      BY <1>9, <3>1
  <2>3. ASSUME NEW k \in DOMAIN vq'.cq PROVE Owned(vq.cq[k])'
    <3>1. PICK d : d = vq.cq[k] /\ d = vq'.cq[k] /\ Owned(d)
      BY <1>1, <1>4 DEF OwnedInv
    <3>2. Owned(d)'
      BY <1>9, <3>1
    <3>3. QED
      BY <3>1, <3>2
  <2>4. QED
    BY <2>1, <2>2, <2>3 DEF OwnedInv
<1>12. OnceInv'
  <2>1. ASSUME NEW i \in CIDs, NEW j \in CIDs, Sent(i)', Sent(j)', vq'.sq[i].cid = vq'.sq[j].cid
        PROVE  i = j
    BY <1>1, <1>10, <2>1 DEF OnceInv
  <2>2. /\ \A d \in dev.running : e.cid # d.cid
        /\ \A k \in DOMAIN vq.cq : e.cid # vq.cq[k].cid
    BY <1>1, <1>3, <1>6 DEF OnceInv
  <2>3. ASSUME NEW i \in CIDs, Sent(i)'
        PROVE  /\ \A d \in dev'.running : vq'.sq[i].cid # d.cid
               /\ \A k \in DOMAIN vq'.cq : vq'.sq[i].cid # vq'.cq[k].cid
    <3>1. i # h /\ Sent(i) /\ vq'.sq[i] = vq.sq[i]
      BY <1>10, <2>3
    <3>2. vq.sq[i].cid # e.cid
      BY <1>1, <1>3, <1>6, <3>1 DEF OnceInv
    <3>3. /\ \A d \in dev.running : vq.sq[i].cid # d.cid
          /\ \A k \in DOMAIN vq.cq : vq.sq[i].cid # vq.cq[k].cid
      BY <1>1, <3>1 DEF OnceInv
    <3>4. QED
      BY <1>4, <1>5, <3>1, <3>2, <3>3
  <2>4. ASSUME NEW d \in dev'.running, NEW f \in dev'.running, d.cid = f.cid PROVE d = f
    BY <1>1, <1>5, <2>2, <2>4 DEF OnceInv
  <2>5. \A k, l \in DOMAIN vq'.cq : vq'.cq[k].cid = vq'.cq[l].cid => k = l
    BY <1>1, <1>4 DEF OnceInv
  <2>6. ASSUME NEW d \in dev'.running, NEW k \in DOMAIN vq'.cq PROVE d.cid # vq'.cq[k].cid
    <3>1. k \in DOMAIN vq.cq /\ vq'.cq[k] = vq.cq[k]
      BY <1>4, <2>6
    <3>2. CASE d = e
      BY <2>2, <3>1, <3>2
    <3>3. CASE d \in dev.running
      BY <1>1, <3>1, <3>3 DEF OnceInv
    <3>4. QED
      BY <1>5, <2>6, <3>2, <3>3
  <2>7. QED
    BY <2>1, <2>3, <2>4, <2>5, <2>6 DEF OnceInv
<1>13. PagesInv'
  <2>1. ASSUME NEW d PROVE PageOK(d)' = PageOK(d) /\ Forgotten(d)' = Forgotten(d)
    BY <1>1 DEF PageOK, Forgotten
  <2>2. ASSUME NEW i \in CIDs, Sent(i)'
        PROVE  PageOK(vq.sq[i])' /\ (Forgotten(vq.sq[i])' => ~reg'.en)
    <3>1. PICK d : /\ d = vq.sq[i] /\ d = vq'.sq[i] /\ PageOK(d) /\ (Forgotten(d) => ~reg.en)
      BY <1>1, <1>10, <2>2 DEF PagesInv
    <3>2. PageOK(d)' /\ (Forgotten(d)' => ~reg'.en)
      BY <1>1, <2>1, <3>1
    <3>3. QED
      BY <3>1, <3>2
  <2>3. PageOK(e) /\ ~Forgotten(e)
    BY <1>1, <1>3, <1>6 DEF PagesInv
  <2>4. ASSUME NEW d \in dev'.running
        PROVE  PageOK(d)' /\ (Forgotten(d)' => ~reg'.en /\ ctrl'.dma_quiesced)
    <3>1. PageOK(d) /\ (Forgotten(d) => ~reg.en /\ ctrl.dma_quiesced)
      BY <1>1, <1>5, <2>3, <2>4 DEF PagesInv
    <3>2. QED
      BY <1>1, <2>1, <3>1
  <2>5. QED
    BY <1>1, <2>2, <2>4 DEF PagesInv
<1>14. QED
  BY <1>6, <1>8, <1>9, <1>11, <1>12, <1>13 DEF NvmeInv

LEMMA CompleteStep ==
    ASSUME NvmeInv, Complete
    PROVE  NvmeInv'
<1>1. /\ NvmeTypeOK /\ OwnedInv /\ OnceInv /\ RingInv /\ PagesInv
      /\ UNCHANGED <<ctrl, reg, call, kept>>
  BY DEF NvmeInv, Complete
<1>2. PICK e \in dev.running, ok \in BOOLEAN :
        /\ vq' = [vq EXCEPT !.cq = Append(@, [cid |-> e.cid, ok |-> ok, cmd |-> e.cmd])]
        /\ dev' = [dev EXCEPT !.running = @ \ {e}]
  BY DEF Complete
<1>3. PICK m : m = [cid |-> e.cid, ok |-> ok, cmd |-> e.cmd]
  OBVIOUS
<1>4. e \in Entries
  BY <1>1, QueueTypes
<1>5. m \in Completions /\ m.cid = e.cid /\ m.cmd = e.cmd
  <2>1. e.cid \in CIDs /\ e.cmd \in Commands
    BY <1>4, EntryFields
  <2>2. QED
    BY SMTT(30), <1>3, <2>1 DEF Completions
<1>6. PICK n \in Nat : /\ DOMAIN vq.cq = 1..n /\ Append(vq.cq, m) \in Seq(Completions)
                       /\ DOMAIN Append(vq.cq, m) = 1..(n + 1)
                       /\ Append(vq.cq, m)[n + 1] = m
                       /\ \A k \in 1..n : Append(vq.cq, m)[k] = vq.cq[k]
  <2>1. vq.cq \in Seq(Completions)
    BY <1>1, QueueTypes
  <2>2. PICK q \in Seq(Completions) : q = vq.cq
    BY <2>1
  <2>3. /\ Len(q) \in Nat /\ DOMAIN q = 1..Len(q) /\ Append(q, m) \in Seq(Completions)
        /\ DOMAIN Append(q, m) = 1..(Len(q) + 1) /\ Append(q, m)[Len(q) + 1] = m
        /\ \A k \in 1..Len(q) : Append(q, m)[k] = q[k]
    BY SMTT(30), <1>5
  <2>4. QED
    BY <2>2, <2>3
<1>7. /\ vq' \in Queues /\ vq'.cq = Append(vq.cq, m) /\ vq'.in_use = vq.in_use
      /\ vq'.result = vq.result /\ vq'.tail = vq.tail /\ vq'.sq = vq.sq
  <2>1. PICK o : o = vq'
    OBVIOUS
  <2>2. PICK x \in Seq(Completions) : x = Append(vq.cq, m)
    BY <1>6
  <2>3. o = [vq EXCEPT !.cq = x]
    BY <1>2, <1>3, <2>1, <2>2
  <2>4. vq \in Queues
    BY <1>1, QueueTypes
  <2>5. /\ o \in Queues /\ o.cq = x /\ o.in_use = vq.in_use
        /\ o.result = vq.result /\ o.tail = vq.tail /\ o.sq = vq.sq
    BY SMTT(30), <2>3, <2>4, WithCq
  <2>6. QED
    BY <2>1, <2>2, <2>5
<1>8. /\ dev' \in [head : CIDs, running : SUBSET Entries]
      /\ dev'.head = dev.head /\ dev'.running = dev.running \ {e}
  BY SMTT(30), <1>1, <1>2 DEF NvmeTypeOK
<1>9. NvmeTypeOK'
  BY <1>1, <1>7, <1>8 DEF NvmeTypeOK
<1>10. /\ CallsInv' /\ HeldInv' /\ VerdictsInv'
       /\ \A d : Owned(d) => Owned(d)'
  BY <1>1, <1>7, CallsSame
<1>11. ASSUME NEW k \in DOMAIN vq'.cq
       PROVE  \/ k \in DOMAIN vq.cq /\ vq'.cq[k] = vq.cq[k]
              \/ k = n + 1 /\ vq'.cq[k] = m
  <2>1. k \in 1..n \/ k = n + 1
    BY SMTT(30), <1>6, <1>7
  <2>2. QED
    BY <1>6, <1>7, <2>1
<1>12. Owned(m)
  <2>1. Owned(e)
    BY <1>1 DEF OwnedInv
  <2>2. QED
    BY <1>5, <2>1 DEF Owned
<1>13. OwnedInv'
  <2>1. ASSUME NEW i \in CIDs, Sent(i)' PROVE Owned(vq.sq[i])'
    <3>1. PICK d : d = vq.sq[i] /\ d = vq'.sq[i] /\ Owned(d)
      BY <1>1, <1>7, <2>1 DEF OwnedInv, Sent
    <3>2. Owned(d)'
      BY <1>10, <3>1
    <3>3. QED
      BY <3>1, <3>2
  <2>2. ASSUME NEW d \in dev'.running PROVE Owned(d)'
    BY <1>1, <1>8, <1>10, <2>2 DEF OwnedInv
  <2>3. ASSUME NEW k \in DOMAIN vq'.cq PROVE Owned(vq.cq[k])'
    <3>1. PICK d : d = vq'.cq[k]
      OBVIOUS
    <3>2. Owned(d)
      BY <1>1, <1>11, <1>12, <2>3, <3>1 DEF OwnedInv
    <3>3. Owned(d)'
      BY <1>10, <3>2
    <3>4. QED
      BY <3>1, <3>3
  <2>4. QED
    BY <2>1, <2>2, <2>3 DEF OwnedInv
<1>14. OnceInv'
  <2>1. /\ \A k \in DOMAIN vq.cq : vq.cq[k].cid # m.cid
        /\ \A d \in dev.running : d.cid = m.cid => d = e
        /\ \A i \in CIDs : Sent(i) => vq.sq[i].cid # m.cid
    BY <1>1, <1>5 DEF OnceInv
  <2>2. ASSUME NEW k \in DOMAIN vq'.cq, NEW l \in DOMAIN vq'.cq, vq'.cq[k].cid = vq'.cq[l].cid
        PROVE  k = l
    BY <1>1, <1>11, <2>1, <2>2 DEF OnceInv
  <2>3. ASSUME NEW d \in dev'.running, NEW k \in DOMAIN vq'.cq PROVE d.cid # vq'.cq[k].cid
    <3>1. d \in dev.running /\ d # e
      BY <1>8, <2>3
    <3>2. QED
      BY <1>1, <1>11, <2>1, <2>3, <3>1 DEF OnceInv
  <2>4. ASSUME NEW i \in CIDs, Sent(i)'
        PROVE  /\ Sent(i) /\ \A d \in dev'.running : vq'.sq[i].cid # d.cid
               /\ \A k \in DOMAIN vq'.cq : vq'.sq[i].cid # vq'.cq[k].cid
    <3>1. Sent(i) /\ vq'.sq[i] = vq.sq[i]
      BY <1>7, <2>4 DEF Sent
    <3>2. /\ \A d \in dev.running : vq.sq[i].cid # d.cid
          /\ \A k \in DOMAIN vq.cq : vq.sq[i].cid # vq.cq[k].cid
      BY <1>1, <3>1 DEF OnceInv
    <3>3. ASSUME NEW k \in DOMAIN vq'.cq PROVE vq'.sq[i].cid # vq'.cq[k].cid
      BY <1>11, <2>1, <3>1, <3>2
    <3>4. QED
      BY <1>8, <3>1, <3>2, <3>3
  <2>5. \A i, j \in CIDs : Sent(i)' /\ Sent(j)' /\ vq'.sq[i].cid = vq'.sq[j].cid => i = j
    BY <1>1, <1>7, <2>4 DEF OnceInv
  <2>6. \A c, d \in dev'.running : c.cid = d.cid => c = d
    BY <1>1, <1>8 DEF OnceInv
  <2>7. QED
    BY <2>2, <2>3, <2>4, <2>5, <2>6 DEF OnceInv
<1>15. RingInv'
  BY <1>1, <1>7, <1>8 DEF RingInv, Sent, Doorbelled
<1>16. PagesInv'
  <2>1. ASSUME NEW d PROVE PageOK(d)' = PageOK(d) /\ Forgotten(d)' = Forgotten(d)
    BY <1>1 DEF PageOK, Forgotten
  <2>2. ASSUME NEW i \in CIDs, Sent(i)'
        PROVE  PageOK(vq.sq[i])' /\ (Forgotten(vq.sq[i])' => ~reg'.en)
    <3>1. PICK d : d = vq.sq[i] /\ d = vq'.sq[i]
      BY <1>7
    <3>2. PageOK(d) /\ (Forgotten(d) => ~reg.en)
      BY <1>1, <1>7, <2>2, <3>1 DEF PagesInv, Sent
    <3>3. PageOK(d)' /\ (Forgotten(d)' => ~reg'.en)
      BY <1>1, <2>1, <3>2
    <3>4. QED
      BY <3>1, <3>3
  <2>3. ASSUME NEW d \in dev'.running
        PROVE  PageOK(d)' /\ (Forgotten(d)' => ~reg'.en /\ ctrl'.dma_quiesced)
    <3>1. PageOK(d) /\ (Forgotten(d) => ~reg.en /\ ctrl.dma_quiesced)
      BY <1>1, <1>8, <2>3 DEF PagesInv
    <3>2. QED
      BY <1>1, <2>1, <3>1
  <2>4. QED
    BY <1>1, <2>2, <2>3 DEF PagesInv
<1>17. QED
  BY <1>9, <1>10, <1>13, <1>14, <1>15, <1>16 DEF NvmeInv

LEMMA HaltStep ==
    ASSUME NvmeInv, Halt
    PROVE  NvmeInv'
<1>1. /\ NvmeTypeOK /\ OwnedInv /\ OnceInv /\ RingInv /\ PagesInv
      /\ UNCHANGED <<ctrl, vq, call, kept>> /\ ~reg.en
  BY DEF NvmeInv, Halt
<1>2. /\ reg' \in [en : BOOLEAN, rdy : BOOLEAN] /\ reg'.en = reg.en
  <2>1. PICK no \in BOOLEAN : no = FALSE
    OBVIOUS
  <2>2. reg' = [reg EXCEPT !.rdy = no]
    BY <2>1 DEF Halt
  <2>3. QED
    BY SMTT(30), <1>1, <2>2 DEF NvmeTypeOK
<1>3. /\ dev' \in [head : CIDs, running : SUBSET Entries]
      /\ dev'.head = dev.head /\ dev'.running = {}
  BY SMTT(30), <1>1 DEF Halt, NvmeTypeOK
<1>4. NvmeTypeOK'
  BY <1>1, <1>2, <1>3 DEF NvmeTypeOK
<1>5. /\ CallsInv' /\ HeldInv' /\ VerdictsInv'
      /\ \A d : Owned(d) => Owned(d)'
  BY <1>1, CallsSame
<1>6. OwnedInv'
  BY <1>1, <1>3, <1>5 DEF OwnedInv, Sent
<1>7. OnceInv'
  BY <1>1, <1>3 DEF OnceInv, Sent
<1>8. RingInv'
  BY <1>1, <1>3 DEF RingInv, Sent, Doorbelled
<1>9. PagesInv'
  BY <1>1, <1>2, <1>3 DEF PagesInv, Sent, PageOK, Forgotten
<1>10. QED
  BY <1>4, <1>5, <1>6, <1>7, <1>8, <1>9 DEF NvmeInv

-----------------------------------------------------------------------------
(* The invariant and the theorems *)

LEMMA NvmeInitInv == NvmeInit => NvmeInv
<1> SUFFICES ASSUME NvmeInit PROVE NvmeInv
  OBVIOUS
<1>1. NoCall \in CallRecords /\ NoCall.pc = "idle" /\ NoCall.wave = {}
  <2>1. 0 \in CIDs
    BY CidZero
  <2>2. QED
    BY SMTT(30), <2>1 DEF NoCall, CallRecords, CallPcs
<1>2. \A t \in Callers : call[t] = NoCall
  BY DEF NvmeInit
<1>3. /\ vq.in_use = {} /\ vq.result = [c \in CIDs |-> NoVerdict]
      /\ vq.sq = [i \in CIDs |-> NoEntry] /\ vq.tail = 0 /\ vq.cq = <<>>
      /\ vq \in Queues
  <2>1. PICK f \in [CIDs -> Verdicts] : f = [c \in CIDs |-> NoVerdict]
    BY NoVerdictType
  <2>2. PICK g \in [CIDs -> Entries \cup {NoEntry}] : g = [i \in CIDs |-> NoEntry]
    OBVIOUS
  <2>3. vq = [in_use |-> {}, result |-> f, sq |-> g, tail |-> 0, cq |-> <<>>]
    BY <2>1, <2>2 DEF NvmeInit
  <2>4. /\ vq.in_use = {} /\ vq.result = f /\ vq.sq = g /\ vq.tail = 0 /\ vq.cq = <<>>
    BY SMTT(30), <2>3
  <2>5. PICK S : S = Seq(Completions)
    OBVIOUS
  <2>6. PICK x \in S : x = <<>>
    <3>1. <<>> \in Seq(Completions)
      BY SMTT(30)
    <3>2. QED
      BY <2>5, <3>1
  <2>7. vq = [in_use |-> {}, result |-> f, sq |-> g, tail |-> 0, cq |-> x]
    BY <2>3, <2>6
  <2>8. vq \in [in_use : SUBSET CIDs, result : [CIDs -> Verdicts], tail : CIDs,
                sq : [CIDs -> Entries \cup {NoEntry}], cq : S]
    BY SMTT(30), <2>1, <2>2, <2>6, <2>7, CidZero
  <2>9. QED
    BY <2>1, <2>2, <2>4, <2>5, <2>8 DEF Queues
<1>4. /\ dev \in [head : CIDs, running : SUBSET Entries] /\ dev.head = 0 /\ dev.running = {}
  <2>1. dev = [head |-> 0, running |-> {}]
    BY DEF NvmeInit
  <2>2. QED
    BY SMTT(30), <2>1, CidZero
<1>5. /\ ctrl \in [failed : BOOLEAN, io_ready : BOOLEAN, dma_quiesced : BOOLEAN]
      /\ ~ctrl.dma_quiesced
  <2>1. PICK yes \in BOOLEAN, no \in BOOLEAN : yes = TRUE /\ no = FALSE
    OBVIOUS
  <2>2. ctrl = [failed |-> no, io_ready |-> yes, dma_quiesced |-> no]
    BY <2>1 DEF NvmeInit
  <2>3. /\ ctrl \in [failed : BOOLEAN, io_ready : BOOLEAN, dma_quiesced : BOOLEAN]
        /\ ctrl.dma_quiesced = no
    BY SMTT(30), <2>2
  <2>4. QED
    BY <2>1, <2>3
<1>6. reg \in [en : BOOLEAN, rdy : BOOLEAN] /\ reg.rdy
  <2>1. PICK yes \in BOOLEAN : yes = TRUE
    OBVIOUS
  <2>2. reg = [en |-> yes, rdy |-> yes]
    BY <2>1 DEF NvmeInit
  <2>3. reg \in [en : BOOLEAN, rdy : BOOLEAN] /\ reg.rdy = yes
    BY SMTT(30), <2>2
  <2>4. QED
    BY <2>1, <2>3
<1>7. NvmeTypeOK
  <2>1. call \in [Callers -> CallRecords]
    BY <1>1 DEF NvmeInit
  <2>2. QED
    BY <1>3, <1>4, <1>5, <1>6, <2>1 DEF NvmeTypeOK, NvmeInit
<1>8. CallsInv
  BY <1>1, <1>2 DEF CallsInv, CallOK
<1>9. \A t \in Callers : Held(t) = {} /\ call[t].wave = {} /\ ~CallAt(t, "submit")
  BY <1>1, <1>2 DEF Held, CallAt
<1>10. HeldInv
  BY <1>3, <1>9 DEF HeldInv, HeldOK
<1>11. VerdictsInv
  BY <1>9 DEF VerdictsInv
<1>12. (\A i \in CIDs : ~Sent(i)) /\ dev.running = {} /\ DOMAIN vq.cq = {}
  <2>1. DOMAIN vq.cq = {}
    BY SMTT(30), <1>3
  <2>2. QED
    BY <1>3, <1>4, <2>1 DEF Sent
<1>13. OwnedInv /\ OnceInv
  BY <1>12 DEF OwnedInv, OnceInv
<1>14. PagesInv
  BY <1>5, <1>6, <1>12 DEF PagesInv
<1>15. RingInv
  <2>1. ASSUME NEW i \in CIDs PROVE ~Doorbelled(i)
    <3>1. ~(0 <= i /\ i < 0) /\ 0 <= 0
      BY SMTT(30) DEF CIDs
    <3>2. QED
      BY <1>3, <1>4, <3>1 DEF Doorbelled
  <2>2. QED
    BY <2>1 DEF RingInv
<1>16. QED
  BY <1>7, <1>8, <1>10, <1>11, <1>13, <1>14, <1>15 DEF NvmeInv

LEMMA NvmeNextInv == NvmeInv /\ [NvmeNext]_nvmeVars => NvmeInv'
<1> SUFFICES ASSUME NvmeInv, [NvmeNext]_nvmeVars PROVE NvmeInv'
  OBVIOUS
<1>1. ASSUME NEW t \in Callers, NEW kind \in {"bounce", "batch"}, Call(t, kind) PROVE NvmeInv'
  BY <1>1, CallStep
<1>2. ASSUME NEW t \in Callers, Claim(t) PROVE NvmeInv'
  BY <1>2, ClaimActionStep
<1>3. ASSUME NEW t \in Callers, Alloc(t) PROVE NvmeInv'
  BY <1>3, AllocStep
<1>4. ASSUME NEW t \in Callers, BuildFails(t) PROVE NvmeInv'
  BY <1>4, BuildFailsStep
<1>5. ASSUME NEW t \in Callers, Submit(t) PROVE NvmeInv'
  BY <1>5, SubmitStep
<1>6. ASSUME NEW t \in Callers, nvme_io_wait_many(t) PROVE NvmeInv'
  BY <1>6, WaitStep
<1>7. ASSUME NEW t \in Callers, Check(t) PROVE NvmeInv'
  BY <1>7, CheckStep
<1>8. ASSUME NEW t \in Callers, FailStop(t) PROVE NvmeInv'
  BY <1>8, FailStopStep
<1>9. ASSUME NEW t \in Callers, Fail(t) PROVE NvmeInv'
  BY <1>9, FailStep
<1>10. ASSUME NEW t \in Callers, Shutdown(t) PROVE NvmeInv'
  BY <1>10, ShutdownStep
<1>11. ASSUME NEW t \in Callers, Disable(t) PROVE NvmeInv'
  BY <1>11, DisableStep
<1>12. ASSUME NEW t \in Callers, Clear(t) PROVE NvmeInv'
  BY <1>12, ClearStep
<1>13. ASSUME NEW t \in Callers, Quiet(t) PROVE NvmeInv'
  BY <1>13, QuietStep
<1>14. ASSUME NEW t \in Callers, FreeBounce(t) PROVE NvmeInv'
  BY <1>14, FreeBounceStep
<1>15. CASE nvme_drain_cq
  BY <1>15, DrainStep
<1>16. CASE Fetch
  BY <1>16, FetchStep
<1>17. CASE Complete
  BY <1>17, CompleteStep
<1>18. CASE Halt
  BY <1>18, HaltStep
<1>19. CASE UNCHANGED nvmeVars
  <2>1. /\ NvmeTypeOK /\ OwnedInv /\ OnceInv /\ RingInv /\ PagesInv
        /\ UNCHANGED <<ctrl, reg, vq, dev, call, kept>>
    BY <1>19 DEF NvmeInv, nvmeVars
  <2>2. NvmeTypeOK'
    BY <2>1 DEF NvmeTypeOK
  <2>3. /\ CallsInv' /\ HeldInv' /\ VerdictsInv'
        /\ \A d : Owned(d) => Owned(d)'
    BY <2>1, CallsSame
  <2>4. OwnedInv'
    BY <2>1, <2>3 DEF OwnedInv, Sent
  <2>5. OnceInv' /\ RingInv'
    BY <2>1, RingsSame
  <2>6. PagesInv'
    BY <2>1 DEF PagesInv, Sent, PageOK, Forgotten
  <2>7. QED
    BY <2>2, <2>3, <2>4, <2>5, <2>6 DEF NvmeInv
<1>20. QED
  BY <1>1, <1>2, <1>3, <1>4, <1>5, <1>6, <1>7, <1>8, <1>9, <1>10, <1>11, <1>12, <1>13, <1>14,
     <1>15, <1>16, <1>17, <1>18, <1>19 DEF NvmeNext

\* The invariant the three properties follow from holds in every state.
THEOREM NvmeInvariant == NvmeSpec => []NvmeInv
BY NvmeInitInv, NvmeNextInv, PTL DEF NvmeSpec

\* Whatever nvme_drain_cq stores under a reused identifier, the verdict a
\* thread of nvme_io_wait_many finds there is that of its own command.
THEOREM VerdictsAreOwn == NvmeSpec => []VerdictIsOwn
<1>1. NvmeInv => VerdictIsOwn
  BY DEF NvmeInv, VerdictsInv, VerdictIsOwn
<1>2. QED
  BY <1>1, NvmeInvariant, PTL

\* nvme_cid_claim_locked and nvme_free_cid neither lose an identifier nor give
\* one to two commands, until nvme_fail_stop gives them all up.
THEOREM CidsAreConserved == NvmeSpec => []CidsConserved
<1>1. NvmeInv => CidsConserved
  <2> SUFFICES ASSUME NvmeInv PROVE CidsConserved
    OBVIOUS
  <2>1. HeldInv
    BY DEF NvmeInv
  <2>2. ASSUME ~ctrl.failed PROVE vq.in_use = UNION {Held(t) : t \in Callers}
    <3>1. \A t \in Callers : Held(t) \subseteq vq.in_use
      BY <2>1 DEF HeldInv, HeldOK
    <3>2. \A c \in vq.in_use : \E t \in Callers : c \in Held(t)
      BY <2>1, <2>2 DEF HeldInv
    <3>3. QED
      BY <3>1, <3>2
  <2>3. QED
    BY <2>1, <2>2 DEF CidsConserved, HeldInv
<1>2. QED
  BY <1>1, NvmeInvariant, PTL

\* nvme_io_bounce frees a page only when the device is done with it or was
\* found quiet, whoever times out or shuts down meanwhile.
THEOREM FreedPagesAreQuiet == NvmeSpec => []FreedPagesQuiet
<1>1. NvmeInv => FreedPagesQuiet
  <2> SUFFICES ASSUME NvmeInv, NEW e \in dev.running, e.cmd.kind = "bounce",
                      <<e.cmd.by, e.cmd.call>> \notin kept, ~(~reg.en /\ ctrl.dma_quiesced)
               PROVE  ~CallAt(e.cmd.by, "idle") /\ e.cmd.call = call[e.cmd.by].calls
    BY DEF FreedPagesQuiet
  <2>1. NvmeTypeOK /\ PageOK(e) /\ ~Forgotten(e)
    BY DEF NvmeInv, PagesInv
  <2>2. e.cmd.by \in Callers /\ e.cmd.call \in Nat
    BY <2>1, QueueTypes, EntryFields
  <2>3. call[e.cmd.by].calls \in Nat
    BY <2>1, <2>2, CallTypes, CallFields
  <2>4. e.cmd.call <= call[e.cmd.by].calls /\ ~(e.cmd.call < call[e.cmd.by].calls)
    BY <2>1 DEF PageOK, Forgotten
  <2>5. e.cmd.call = call[e.cmd.by].calls
    BY SMTT(30), <2>2, <2>3, <2>4
  <2>6. QED
    BY <2>1, <2>5 DEF PageOK, CallAt
<1>2. QED
  BY <1>1, NvmeInvariant, PTL

=============================================================================
