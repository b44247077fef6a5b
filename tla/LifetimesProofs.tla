--------------------------- MODULE LifetimesProofs ---------------------------
(* Proofs about what may be freed or reused while a CPU still holds it.       *)
(* Pcid: a tag is not reused while a stale translation carries it.  VfsRcu: a *)
(* page under a lookup is not freed, a reference pins, an object is released *)
(* once, and the drainer gets on.                                            *)
EXTENDS Pcid, VfsRcu, FiniteSetTheorems, TLAPS

-----------------------------------------------------------------------------
(* Pcid: NoForeignTranslation for every number of CPUs, spaces and tags *)

\* No space has a tag and no CPU remembers one.
LEMMA PcidInitInv == PcidInit => PcidInv
<1>1. PcidInit => PcidTypeOK
  BY PcidConstants DEF PcidInit, PcidTypeOK, Ids, PCID_MIN, PCID_KERNEL
<1>2. QED
  BY <1>1, PcidConstants
  DEF PcidInit, PcidInv, TagsInv, ReleaseInv, CleanInv, Clean, PCID_KERNEL

\* A new space gets a tag nobody has, or none.
LEMMA AllocStep ==
    ASSUME PcidInv, NEW s \in Spaces, pcid_alloc(s)
    PROVE  PcidInv'
<1>1. /\ stage[s] = "unborn" /\ stage' = [stage EXCEPT ![s] = "live"]
      /\ UNCHANGED <<todo, cached, loaded, next, warm, tlb>>
      /\ \A c \in Cpus : loaded[c] # s /\ next[c] # s
  BY PcidConstants DEF pcid_alloc, PcidInv, TagsInv
<1>2. CASE UNCHANGED <<bitmap, next_hint, pcid, early>>
  <2>1. PcidTypeOK'
    BY <1>1, <1>2 DEF PcidInv, PcidTypeOK
  <2>2. pcid[s] = PCID_KERNEL
    BY <1>1 DEF PcidInv, TagsInv
  <2>3. TagsInv'
    BY <1>1, <1>2, <2>2 DEF PcidInv, PcidTypeOK, TagsInv
  <2>4. ReleaseInv'
    BY <1>1, <1>2 DEF PcidInv, PcidTypeOK, ReleaseInv
  <2>5. CleanInv'
    BY <1>1, <1>2, <2>2 DEF PcidInv, PcidTypeOK, CleanInv, Clean, Ids, PCID_MIN, PCID_KERNEL
  <2>6. QED
    BY <2>1, <2>3, <2>4, <2>5 DEF PcidInv
<1>3. CASE \E id \in Ids \ bitmap :
             /\ bitmap' = bitmap \cup {id}
             /\ next_hint' = NextHint(id)
             /\ pcid' = [pcid EXCEPT ![s] = id]
             /\ early' = early \cup {x \in {s} : \E u \in Spaces :
                                stage[u] \in {"clear", "flush"} /\ pcid[u] = id}
  <2>1. PICK id \in Ids \ bitmap :
             /\ bitmap' = bitmap \cup {id}
             /\ next_hint' = NextHint(id)
             /\ pcid' = [pcid EXCEPT ![s] = id]
             /\ early' = early \cup {x \in {s} : \E u \in Spaces :
                                stage[u] \in {"clear", "flush"} /\ pcid[u] = id}
    BY <1>3, Zenon
  <2>2. PcidTypeOK'
    <3>1. next_hint' \in Ids
      BY <2>1, PcidConstants DEF NextHint, Ids, PCID_MIN
    <3>2. QED
      BY <1>1, <2>1, <3>1 DEF PcidInv, PcidTypeOK
  <2>3. /\ pcid'[s] = id /\ id # PCID_KERNEL
        /\ \A u \in Spaces \ {s} : pcid'[u] = pcid[u] /\ stage'[u] = stage[u]
        /\ stage'[s] = "live"
    BY <1>1, <2>1 DEF PcidInv, PcidTypeOK, Ids, PCID_MIN, PCID_KERNEL
  <2>4. TagsInv'
    BY <1>1, <2>1, <2>3 DEF PcidInv, PcidTypeOK, TagsInv
  <2>5. ReleaseInv'
    BY <1>1, <2>1, <2>3 DEF PcidInv, PcidTypeOK, ReleaseInv
  <2>6. s \notin early' => \A c \in Cpus : id \notin cached[c]
    BY <2>1 DEF PcidInv, ReleaseInv
  <2>7. CleanInv'
    BY <1>1, <2>1, <2>3, <2>6 DEF PcidInv, CleanInv, Clean
  <2>8. QED
    BY <2>2, <2>4, <2>5, <2>7 DEF PcidInv
<1>4. QED
  BY <1>2, <1>3 DEF pcid_alloc, Scan

\* The last user is gone; the tag is free and every CPU has still to forget it.
LEMMA FreeStep ==
    ASSUME PcidInv, NEW s \in Spaces, pcid_free(s)
    PROVE  PcidInv'
<1>1. /\ stage[s] = "live" /\ \A c \in Cpus : loaded[c] # s /\ next[c] # s
      /\ UNCHANGED <<pcid, cached, loaded, next, warm, tlb, early>>
      /\ \A u \in Spaces \ {s} : stage'[u] = stage[u] /\ todo'[u] = todo[u]
      /\ stage'[s] \in {"clear", "dead"}
  BY DEF pcid_free, PcidInv, PcidTypeOK
<1>2. PcidTypeOK'
  <2>1. pcid[s] \in Ids \cup {PCID_KERNEL} /\ next_hint' \in Ids /\ bitmap' \subseteq Ids
    BY DEF pcid_free, PcidInv, PcidTypeOK
  <2>2. stage' \in [Spaces -> {"unborn", "live", "clear", "flush", "dead"}]
    BY DEF pcid_free, PcidInv, PcidTypeOK
  <2>3. todo' \in [Spaces -> SUBSET Cpus]
    BY DEF pcid_free, PcidInv, PcidTypeOK
  <2>4. QED
    BY <1>1, <2>1, <2>2, <2>3 DEF PcidInv, PcidTypeOK
<1>3. TagsInv'
  BY <1>1 DEF pcid_free, PcidInv, PcidTypeOK, TagsInv, PCID_KERNEL
<1>4. ReleaseInv'
  <2>1. CASE pcid[s] = PCID_KERNEL
    BY <1>1, <2>1 DEF pcid_free, PcidInv, PcidTypeOK, ReleaseInv
  <2>2. CASE pcid[s] # PCID_KERNEL
    <3>1. bitmap' = bitmap \ {pcid[s]} /\ stage'[s] = "clear" /\ todo'[s] = Cpus
      BY <2>2 DEF pcid_free, PcidInv, PcidTypeOK
    <3>2. QED
      BY <1>1, <3>1 DEF PcidInv, ReleaseInv
  <2>3. QED
    BY <2>1, <2>2
<1>5. CleanInv'
  BY <1>1 DEF PcidInv, CleanInv, Clean
<1>6. QED
  BY <1>2, <1>3, <1>4, <1>5 DEF PcidInv

\* One CPU forgets the tag.
LEMMA InvalidateStep ==
    ASSUME PcidInv, NEW s \in Spaces, NEW c \in Cpus, cpu_pcid_invalidate(s, c)
    PROVE  PcidInv'
<1>1. /\ stage[s] = "clear" /\ stage'[s] \in {"flush", "clear"}
      /\ UNCHANGED <<bitmap, next_hint, pcid, loaded, next, warm, tlb, early>>
      /\ \A u \in Spaces \ {s} : stage'[u] = stage[u] /\ todo'[u] = todo[u]
      /\ todo'[s] = todo[s] \ {c} /\ (stage'[s] = "flush" => todo[s] = {c})
      /\ cached'[c] = cached[c] \ {pcid[s]}
      /\ \A d \in Cpus \ {c} : cached'[d] = cached[d]
  BY DEF cpu_pcid_invalidate, PcidInv, PcidTypeOK
<1>2. PcidTypeOK'
  BY DEF cpu_pcid_invalidate, PcidInv, PcidTypeOK
<1>3. TagsInv'
  BY <1>1 DEF PcidInv, PcidTypeOK, TagsInv
<1>4. ReleaseInv'
  BY <1>1 DEF PcidInv, ReleaseInv
<1>5. CleanInv'
  BY <1>1 DEF PcidInv, CleanInv, Clean
<1>6. QED
  BY <1>2, <1>3, <1>4, <1>5 DEF PcidInv

\* The flush of one CPU takes entries away.
LEMMA FlushStep ==
    ASSUME PcidInv, NEW s \in Spaces, NEW c \in Cpus, pcid_flush_context(s, c)
    PROVE  PcidInv'
<1>1. /\ stage[s] = "flush" /\ stage'[s] = "dead"
      /\ UNCHANGED <<bitmap, next_hint, pcid, todo, cached, loaded, next, warm, early>>
      /\ \A u \in Spaces \ {s} : stage'[u] = stage[u]
      /\ \A d \in Cpus : tlb'[d] \subseteq tlb[d]
  BY DEF pcid_flush_context, PcidInv, PcidTypeOK
<1>2. PcidTypeOK'
  BY DEF pcid_flush_context, PcidInv, PcidTypeOK
<1>3. TagsInv'
  BY <1>1 DEF PcidInv, PcidTypeOK, TagsInv
<1>4. ReleaseInv'
  BY <1>1 DEF PcidInv, ReleaseInv
<1>5. CleanInv'
  BY <1>1 DEF PcidInv, CleanInv, Clean
<1>6. QED
  BY <1>2, <1>3, <1>4, <1>5 DEF PcidInv

\* The switch that finds the bit set has found a clean tag.
LEMMA TestStep ==
    ASSUME PcidInv, NEW s \in Spaces, NEW c \in Cpus, SwitchTest(c, s)
    PROVE  PcidInv'
<1>1. /\ next[c] = None /\ loaded[c] # s /\ stage[s] = "live" /\ s # None
      /\ UNCHANGED <<spaceVars, loaded, tlb, early>>
      /\ next'[c] = s /\ warm'[c] = (pcid[s] \in cached[c])
      /\ cached'[c] = cached[c] \cup ({pcid[s]} \ {PCID_KERNEL})
      /\ \A d \in Cpus \ {c} : /\ next'[d] = next[d] /\ warm'[d] = warm[d]
                               /\ cached'[d] = cached[d]
  BY PcidConstants DEF SwitchTest, PcidInv, PcidTypeOK
<1>2. PcidTypeOK'
  BY DEF SwitchTest, PcidInv, PcidTypeOK, spaceVars
<1>3. TagsInv'
  BY <1>1 DEF PcidInv, TagsInv, spaceVars
<1>4. ReleaseInv'
  BY <1>1 DEF PcidInv, TagsInv, ReleaseInv, spaceVars
<1>5. CleanInv'
  <2>1. \A d \in Cpus, u \in Spaces : Clean(d, u)' <=> Clean(d, u)
    BY <1>1 DEF Clean, spaceVars
  <2>2. pcid[s] \in cached[c] => pcid[s] # PCID_KERNEL
    BY DEF PcidInv, PcidTypeOK, Ids, PCID_MIN, PCID_KERNEL
  <2>3. \A u \in Spaces : stage[u] = "live" /\ pcid[u] \in cached'[c] =>
                            pcid[u] \in cached[c] \/ u = s
    BY <1>1 DEF PcidInv, TagsInv
  <2>4. \A u \in Spaces : pcid'[u] = pcid[u] /\ stage'[u] = stage[u] /\ u # None
    BY <1>1, PcidConstants DEF spaceVars
  <2>5. ASSUME NEW d \in Cpus, NEW u \in Spaces \ early
        PROVE  /\ loaded[d] = u => Clean(d, u)
               /\ next'[d] = u /\ warm'[d] => pcid[u] # PCID_KERNEL /\ Clean(d, u)
               /\ stage[u] = "live" /\ pcid[u] \in cached'[d] =>
                    Clean(d, u) \/ (next'[d] = u /\ ~warm'[d])
    <3>1. CASE d # c
      BY <1>1, <3>1 DEF PcidInv, CleanInv
    <3>2. CASE d = c /\ u # s
      BY <1>1, <2>3, <2>4, <3>2 DEF PcidInv, CleanInv
    <3>3. CASE d = c /\ u = s
      BY <1>1, <2>2, <2>4, <3>3, Zenon DEF PcidInv, CleanInv
    <3>4. QED
      BY <3>1, <3>2, <3>3
  <2>6. QED
    BY <1>1, <2>1, <2>4, <2>5 DEF CleanInv
<1>6. QED
  BY <1>2, <1>3, <1>4, <1>5 DEF PcidInv

\* The load of a tag that was not remembered flushes it.
LEMMA LoadStep ==
    ASSUME PcidInv, NEW c \in Cpus, SwitchLoad(c) \/ SwitchKernel(c)
    PROVE  PcidInv'
<1>1. CASE SwitchLoad(c)
  <2>1. /\ next[c] # None /\ loaded'[c] = next[c] /\ next'[c] = None
        /\ UNCHANGED <<spaceVars, cached, warm, early>>
        /\ \A d \in Cpus \ {c} : /\ loaded'[d] = loaded[d] /\ next'[d] = next[d]
                                 /\ tlb'[d] = tlb[d]
        /\ tlb'[c] = IF warm[c] THEN tlb[c] ELSE {e \in tlb[c] : e[1] # pcid[next[c]]}
    BY <1>1 DEF SwitchLoad, PcidInv, PcidTypeOK
  <2>2. PcidTypeOK'
    BY <1>1 DEF SwitchLoad, PcidInv, PcidTypeOK, spaceVars
  <2>3. TagsInv' /\ ReleaseInv'
    BY <2>1 DEF PcidInv, TagsInv, ReleaseInv, spaceVars
  <2>4. CleanInv'
    BY <2>1, PcidConstants DEF PcidInv, CleanInv, Clean, spaceVars
  <2>5. QED
    BY <2>2, <2>3, <2>4 DEF PcidInv
<1>2. CASE SwitchKernel(c)
  <2>1. /\ loaded'[c] = None
        /\ UNCHANGED <<spaceVars, cached, next, warm, early>>
        /\ \A d \in Cpus \ {c} : loaded'[d] = loaded[d]
        /\ \A d \in Cpus : tlb'[d] \subseteq tlb[d]
    BY <1>2 DEF SwitchKernel, PcidInv, PcidTypeOK
  <2>2. PcidTypeOK'
    BY <1>2 DEF SwitchKernel, PcidInv, PcidTypeOK, spaceVars
  <2>3. TagsInv' /\ ReleaseInv'
    BY <2>1 DEF PcidInv, TagsInv, ReleaseInv, spaceVars
  <2>4. CleanInv'
    BY <2>1, PcidConstants DEF PcidInv, CleanInv, Clean, spaceVars
  <2>5. QED
    BY <2>2, <2>3, <2>4 DEF PcidInv
<1>3. QED
  BY <1>1, <1>2

\* A translation is cached under a tag that only the running space has.
LEMMA AccessStep ==
    ASSUME PcidInv, NEW c \in Cpus, Access(c)
    PROVE  PcidInv'
<1>1. /\ loaded[c] \in Spaces /\ stage[loaded[c]] = "live"
      /\ UNCHANGED <<spaceVars, cached, loaded, next, warm, early>>
      /\ tlb'[c] = tlb[c] \cup {<<pcid[loaded[c]], loaded[c]>>}
      /\ \A d \in Cpus \ {c} : tlb'[d] = tlb[d]
  BY DEF Access, PcidInv, PcidTypeOK, TagsInv
<1>2. PcidTypeOK'
  BY <1>1 DEF Access, PcidInv, PcidTypeOK, spaceVars
<1>3. TagsInv' /\ ReleaseInv'
  BY <1>1 DEF PcidInv, TagsInv, ReleaseInv, spaceVars
<1>4. ASSUME NEW s \in Spaces, stage[s] = "live", Clean(c, s),
             pcid[s] # PCID_KERNEL \/ s = loaded[c]
      PROVE  Clean(c, s)'
  BY <1>1, <1>4 DEF PcidInv, TagsInv, Clean, spaceVars
<1>5. \A d \in Cpus \ {c}, s \in Spaces : Clean(d, s)' <=> Clean(d, s)
  BY <1>1 DEF Clean, spaceVars
<1>6. CleanInv'
  <2>1. SUFFICES ASSUME NEW d \in Cpus, NEW s \in Spaces \ early
                 PROVE  /\ loaded[d] = s => Clean(d, s)'
                        /\ next[d] = s /\ warm[d] => pcid[s] # PCID_KERNEL /\ Clean(d, s)'
                        /\ stage[s] = "live" /\ pcid[s] \in cached[d] =>
                             Clean(d, s)' \/ (next[d] = s /\ ~warm[d])
    BY <1>1 DEF CleanInv, spaceVars
  <2>2. CASE d # c
    BY <1>5, <2>2 DEF PcidInv, CleanInv
  <2>3. CASE d = c
    <3>1. pcid[s] \in cached[c] => pcid[s] # PCID_KERNEL
      BY DEF PcidInv, PcidTypeOK, Ids, PCID_MIN, PCID_KERNEL
    <3>2. s # None /\ (loaded[c] = s \/ next[c] = s => stage[s] = "live")
      BY PcidConstants DEF PcidInv, TagsInv
    <3>3. QED
      BY <1>4, <2>3, <3>1, <3>2 DEF PcidInv, CleanInv
  <2>4. QED
    BY <2>2, <2>3
<1>7. QED
  BY <1>2, <1>3, <1>6 DEF PcidInv

\* No CPU runs an address space with another one's translations under its tag,
\* for any number of CPUs, spaces and tags, and however the release of a tag,
\* its next allocation and the switches interleave, unless the tag was given
\* out inside the pcid_free that released it.
THEOREM PcidNoForeignTranslation == PcidSpec => []NoForeignTranslation
<1>1. PcidInv /\ [PcidNext]_pcidVars => PcidInv'
  <2>1. SUFFICES ASSUME PcidInv, [PcidNext]_pcidVars PROVE PcidInv'
    OBVIOUS
  <2>2. CASE PcidNext
    BY <2>1, <2>2, AllocStep, FreeStep, InvalidateStep, FlushStep, TestStep, LoadStep,
       AccessStep DEF PcidNext
  <2>3. CASE UNCHANGED pcidVars
    BY <2>1, <2>3 DEF pcidVars, spaceVars, PcidInv, PcidTypeOK, TagsInv, ReleaseInv, CleanInv, Clean
  <2>4. QED
    BY <2>1, <2>2, <2>3
<1>2. PcidInv => NoForeignTranslation
  BY DEF PcidInv, PcidTypeOK, CleanInv, Clean, NoForeignTranslation
<1>3. QED
  BY PcidInitInv, <1>1, <1>2, PTL DEF PcidSpec

-----------------------------------------------------------------------------
(* VfsRcu *)

\* The leaves are first order; the ones that cite SMT need arithmetic or types.
USE ZenonT(30)

-----------------------------------------------------------------------------
(* What a user thread's step changes *)

\* Only thread t moves.
OthersStay(t) ==
    \A u \in Threads \ {t} : pc'[u] = pc[u] /\ obj'[u] = obj[u]

UserTypes == pc' \in [Threads -> UserPcs] /\ obj' \in [Threads -> Objects \cup {None}]

\* A Move changes the place and the object of one thread.
LEMMA MoveEffect ==
    ASSUME RcuTypeOK, NEW t \in Threads, NEW to \in UserPcs,
           NEW p \in Objects \cup {None}, Move(t, to, p)
    PROVE  /\ pc'[t] = to /\ obj'[t] = p
           /\ OthersStay(t)
           /\ UserTypes
           /\ UNCHANGED <<run, rcu_up, ack, ipi, dpc, batch, self_id, arming, pending>>
<1>1. pc \in [Threads -> UserPcs] /\ obj \in [Threads -> Objects \cup {None}]
  BY DEF RcuTypeOK
<1>2. pc' = [pc EXCEPT ![t] = to] /\ obj' = [obj EXCEPT ![t] = p]
  BY DEF Move
<1>3. pc'[t] = to /\ obj'[t] = p
  BY <1>1, <1>2
<1>4. OthersStay(t)
  BY <1>1, <1>2 DEF OthersStay
<1>5. UserTypes
  BY SMT, <1>1, <1>2 DEF UserTypes
<1>6. UNCHANGED <<run, rcu_up, ack, ipi, dpc, batch, self_id, arming, pending>>
  BY DEF Move, ipiVars, dVars
<1>7. QED
  BY <1>3, <1>4, <1>5, <1>6

\* The kinds of user steps, told apart by what they do to the objects.

\* t neither holds nor takes out an object, before and after.
Neutral(t) ==
    /\ ~Leaving(t) /\ pc[t] # "hold" /\ ~Leaving(t)' /\ pc'[t] # "hold"
    /\ pc'[t] = "raw" => /\ obj'[t] \in indexed
                         /\ rcu_up \/ pc[t] = "section"
    /\ pc'[t] = "section" => rcu_up
    /\ UNCHANGED <<indexed, refs, evicted, life, queue>>
    /\ \/ pc[t] # "wake" /\ UNCHANGED <<on_wait, dstate, timer>>
       \/ DeferWake(t)

\* t counts itself in on a live object nobody releases.
Takes(t, p) ==
    /\ ~Leaving(t) /\ pc[t] # "hold" /\ pc[t] # "wake"
    /\ pc'[t] = "hold" /\ obj'[t] = p
    /\ refs' = [refs EXCEPT ![p] = @ + 1]
    /\ life[p] = "live" /\ (p \in Nodes \/ ~evicted[p])
    /\ p \in Nodes => refs[p] # 0
    /\ UNCHANGED <<indexed, evicted, life, queue, on_wait, dstate, timer>>

\* A count that is not zero has a holder, and the other way round.
LEMMA HoldersFinite ==
    ASSUME NEW q
    PROVE  IsFiniteSet(Holders(q)) /\ Cardinality(Holders(q)) \in Nat
<1> DEFINE H == {t \in Threads : pc[t] = "hold" /\ obj[t] = q}
<1>1. IsFiniteSet(H)
  <2>1. H \in SUBSET Threads
    OBVIOUS
  <2>2. QED
    BY <2>1, VfsRcuConstants, FS_Subset
<1>2. CacheRef(q) = {} \/ CacheRef(q) = {None}
  BY DEF CacheRef
<1>3. IsFiniteSet(H \cup {None})
  BY <1>1, FS_AddElement
<1> HIDE DEF H
<1>4. H \cup {} = H
  OBVIOUS
<1>5. IsFiniteSet(Holders(q))
  <2>1. Holders(q) = H \cup CacheRef(q)
    BY DEF Holders, H
  <2>2. QED
    BY <2>1, <1>1, <1>2, <1>3, <1>4
<1>6. QED
  BY <1>5, FS_CardinalityType

LEMMA HoldersMember ==
    \A q, h : h \in Holders(q) <=>
        \/ h \in Threads /\ pc[h] = "hold" /\ obj[h] = q
        \/ h = None /\ q \in Nodes /\ (q \in indexed \/ Unlinking(q))
<1> TAKE q, h
<1>1. h \in CacheRef(q) <=> h = None /\ q \in Nodes /\ (q \in indexed \/ Unlinking(q))
  BY DEF CacheRef
<1>2. QED
  BY <1>1 DEF Holders

LEMMA HoldersMemberNext ==
    \A q, h : h \in Holders(q)' <=>
        \/ h \in Threads /\ pc'[h] = "hold" /\ obj'[h] = q
        \/ h = None /\ q \in Nodes /\ (q \in indexed' \/ Unlinking(q)')
<1> TAKE q, h
<1>1. h \in CacheRef(q)' <=> h = None /\ q \in Nodes /\ (q \in indexed' \/ Unlinking(q)')
  BY DEF CacheRef
<1>2. QED
  BY <1>1 DEF Holders

\* Thread t, on its CPU, is the only one that moves.
OnlyMoves(t) ==
    /\ \E c \in CPUs : run[c] = t
    /\ OthersStay(t) /\ UserTypes
    /\ UNCHANGED <<run, rcu_up, ack, ipi, dpc, batch, self_id, arming, pending>>

Places == {"idle", "section", "raw", "locked", "wake", "spin"}

\* The kind of every step of a user thread.
LEMMA UserKinds ==
    ASSUME RcuTypeOK, CountInv, NEW t \in Threads, UserStart(t) \/ UserStep(t)
    PROVE  /\ OnlyMoves(t)
           /\ \/ Neutral(t)
              \/ \E p \in Objects : \/ Takes(t, p) \/ vfs_cache_insert(t, p)
                                    \/ vfs_cache_invalidate(t, p)
              \/ vfs_cache_put(t) \/ vfs_page_evict(t)
              \/ vfs_rcu_defer(t) \/ ReclaimNow(t)
<1> DEFINE Kind == \/ Neutral(t)
                   \/ \E p \in Objects : \/ Takes(t, p) \/ vfs_cache_insert(t, p)
                                         \/ vfs_cache_invalidate(t, p)
                   \/ vfs_cache_put(t) \/ vfs_page_evict(t)
                   \/ vfs_rcu_defer(t) \/ ReclaimNow(t)
<1>1. obj[t] \in Objects \cup {None} /\ indexed \subseteq Objects
  BY DEF RcuTypeOK
<1>2. ASSUME NEW from, Runs(t, from), NEW to \in UserPcs, NEW p \in Objects \cup {None},
             Move(t, to, p)
      PROVE  OnlyMoves(t) /\ pc[t] = from /\ pc'[t] = to /\ obj'[t] = p
  BY <1>2, MoveEffect DEF Runs, OnlyMoves
<1>3. {"idle", "section", "raw", "locked", "hold", "unlinked", "release", "now",
       "wake", "spin"} \subseteq UserPcs
  BY DEF UserPcs
<1>4. ASSUME NEW from \in Places, Runs(t, from), NEW to \in Places \ {"raw"},
             NEW p \in Objects \cup {None}, Move(t, to, p),
             to = "section" => rcu_up,
             UNCHANGED <<indexed, refs, evicted, life, queue>>,
             DeferWake(t) \/ (from # "wake" /\ UNCHANGED <<on_wait, dstate, timer>>)
      PROVE  OnlyMoves(t) /\ Neutral(t)
  <2>1. to \in UserPcs
    BY <1>3 DEF Places
  <2>2. OnlyMoves(t) /\ pc[t] = from /\ pc'[t] = to /\ obj'[t] = p
    BY <2>1, <1>2, <1>4
  <2>3. from \notin {"hold", "unlinked", "release", "now"}
    BY DEF Places
  <2>4. to \notin {"hold", "unlinked", "release", "now"}
    BY DEF Places
  <2>5. QED
    BY <2>2, <2>3, <2>4, <1>4 DEF Neutral, Leaving
<1>5. ASSUME NEW from \in {"idle", "section"}, Runs(t, from), NEW p \in indexed,
             Move(t, "raw", p), rcu_up \/ from = "section",
             UNCHANGED <<indexed, refs, evicted, life, queue, on_wait, dstate, timer>>
      PROVE  OnlyMoves(t) /\ Neutral(t)
  <2>1. OnlyMoves(t) /\ pc[t] = from /\ pc'[t] = "raw" /\ obj'[t] = p
    BY <1>1, <1>2, <1>3, <1>5
  <2>2. QED
    BY <2>1, <1>5 DEF Neutral, Leaving
<1>6. ASSUME NEW from \in {"raw", "locked"}, Runs(t, from), NEW p \in Objects,
             Move(t, "hold", p), refs' = [refs EXCEPT ![p] = @ + 1],
             life[p] = "live", p \in Nodes \/ ~evicted[p], p \in Nodes => refs[p] # 0,
             UNCHANGED <<indexed, evicted, life, queue, on_wait, dstate, timer>>
      PROVE  OnlyMoves(t) /\ Takes(t, p)
  <2>1. OnlyMoves(t) /\ pc[t] = from /\ pc'[t] = "hold" /\ obj'[t] = p
    BY <1>1, <1>2, <1>3, <1>6
  <2>2. QED
    BY <2>1, <1>6 DEF Takes, Leaving
<1>7. ASSUME NEW p \in Objects, vfs_cache_insert(t, p)
      PROVE  OnlyMoves(t) /\ Kind
  BY <1>2, <1>3, <1>7 DEF vfs_cache_insert
<1>8. ASSUME NEW p \in Objects, vfs_cache_invalidate(t, p)
      PROVE  OnlyMoves(t) /\ Kind
  BY <1>2, <1>3, <1>8 DEF vfs_cache_invalidate
<1>9. ASSUME NEW p \in Objects, vfs_dentry_lookup_fast(t, p)
      PROVE  OnlyMoves(t) /\ Kind
  BY <1>5, <1>9 DEF vfs_dentry_lookup_fast, objVars, sleepVars
<1>10. ASSUME vfs_cache_lookup(t)
       PROVE  OnlyMoves(t) /\ Kind
  <2>1. (IF rcu_up THEN "section" ELSE "locked") \in Places \ {"raw"}
    BY DEF Places
  <2>2. "idle" \in Places
    BY DEF Places
  <2>3. OnlyMoves(t) /\ Neutral(t)
    BY <1>4, <1>10, <2>1, <2>2 DEF vfs_cache_lookup, objVars, sleepVars
  <2>4. QED
    BY <2>3
<1>11. ASSUME SpinStart(t)
       PROVE  OnlyMoves(t) /\ Kind
  <2>1. "idle" \in Places /\ "spin" \in Places
    BY DEF Places
  <2>2. OnlyMoves(t) /\ Neutral(t)
    BY <1>4, <1>11, <2>1 DEF SpinStart, objVars, sleepVars
  <2>3. QED
    BY <2>2
<1>12. ASSUME NEW p \in Objects, LookupLoad(t, p)
       PROVE  OnlyMoves(t) /\ Kind
  BY <1>5, <1>12 DEF LookupLoad, objVars, sleepVars
<1>13. ASSUME LookupMiss(t)
       PROVE  OnlyMoves(t) /\ Kind
  <2>1. "section" \in Places /\ "idle" \in Places
    BY DEF Places
  <2>2. OnlyMoves(t) /\ Neutral(t)
    BY <1>4, <1>13, <2>1 DEF LookupMiss, objVars, sleepVars
  <2>3. QED
    BY <2>2
<1>14. ASSUME vfs_page_tryref(t)
       PROVE  OnlyMoves(t) /\ Kind
  <2>1. Runs(t, "raw") /\ life[obj[t]] # "free"
    BY <1>14 DEF vfs_page_tryref
  <2>2. UNCHANGED <<indexed, evicted, life, queue, on_wait, dstate, timer>>
    BY <1>14 DEF vfs_page_tryref, sleepVars
  <2>3. obj[t] \in Objects
    BY <2>1 DEF CountInv, Runs
  <2>4. CASE MayRef(obj[t])
    <3>1. refs' = [refs EXCEPT ![obj[t]] = @ + 1] /\ Move(t, "hold", obj[t])
      BY <1>14, <2>4 DEF vfs_page_tryref
    <3>2. obj[t] \in Nodes \/ ~evicted[obj[t]]
      BY <2>4 DEF MayRef
    <3>3. obj[t] \in Nodes => refs[obj[t]] # 0
      BY <2>4 DEF MayRef
    <3>4. life[obj[t]] \in {"free", "live", "queued"}
      BY <2>3 DEF RcuTypeOK
    <3>5. life[obj[t]] = "live"
      BY <2>1, <2>3, <3>2, <3>3, <3>4 DEF CountInv
    <3>6. OnlyMoves(t) /\ Takes(t, obj[t])
      BY <1>6, <2>1, <2>2, <2>3, <3>1, <3>2, <3>3, <3>5
    <3>7. QED
      BY <2>3, <3>6
  <2>5. CASE ~MayRef(obj[t])
    <3>1. refs' = refs /\ Move(t, "locked", None)
      BY <1>14, <2>5 DEF vfs_page_tryref
    <3>2. "raw" \in Places /\ "locked" \in Places
      BY DEF Places
    <3>3. OnlyMoves(t) /\ Neutral(t)
      BY <1>4, <2>1, <2>2, <3>1, <3>2
    <3>4. QED
      BY <3>3
  <2>6. QED
    BY <2>4, <2>5
<1>15. ASSUME vfs_cache_lookup_locked(t)
       PROVE  OnlyMoves(t) /\ Kind
  <2>1. Runs(t, "locked")
    BY <1>15 DEF vfs_cache_lookup_locked
  <2>2. UNCHANGED <<indexed, evicted, life, queue, on_wait, dstate, timer>>
    BY <1>15 DEF vfs_cache_lookup_locked, sleepVars
  <2>3. ASSUME NEW p \in indexed, refs' = [refs EXCEPT ![p] = @ + 1], Move(t, "hold", p)
        PROVE  OnlyMoves(t) /\ Kind
    <3>1. p \in Objects
      BY <1>1
    <3>2. life[p] = "live" /\ (p \in Nodes \/ ~evicted[p])
      BY DEF CountInv
    <3>3. p \in Nodes => refs[p] # 0
      <4> SUFFICES ASSUME p \in Nodes PROVE refs[p] # 0
        OBVIOUS
      <4>1. None \in Holders(p)
        BY HoldersMember
      <4>2. Holders(p) # {}
        BY <4>1
      <4>3. Cardinality(Holders(p)) # 0
        BY <4>2, HoldersFinite, FS_EmptySet
      <4>4. QED
        BY <4>3, <3>1 DEF CountInv
    <3>4. OnlyMoves(t) /\ Takes(t, p)
      BY <1>6, <2>1, <2>2, <2>3, <3>1, <3>2, <3>3
    <3>5. QED
      BY <3>1, <3>4
  <2>4. ASSUME refs' = refs, Move(t, "idle", None)
        PROVE  OnlyMoves(t) /\ Kind
    <3>1. "idle" \in Places /\ "locked" \in Places
      BY DEF Places
    <3>2. OnlyMoves(t) /\ Neutral(t)
      BY <1>4, <2>1, <2>2, <2>4, <3>1
    <3>3. QED
      BY <3>2
  <2>5. QED
    BY <1>15, <2>3, <2>4 DEF vfs_cache_lookup_locked
<1>16. ASSUME vfs_cache_put(t)
       PROVE  OnlyMoves(t) /\ Kind
  BY <1>1, <1>2, <1>3, <1>16 DEF vfs_cache_put
<1>17. ASSUME vfs_page_evict(t)
       PROVE  OnlyMoves(t) /\ Kind
  BY <1>1, <1>2, <1>3, <1>17 DEF vfs_page_evict
<1>18. ASSUME vfs_rcu_defer(t)
       PROVE  OnlyMoves(t) /\ Kind
  BY <1>1, <1>2, <1>3, <1>18 DEF vfs_rcu_defer
<1>19. ASSUME ReclaimNow(t)
       PROVE  OnlyMoves(t) /\ Kind
  BY <1>1, <1>2, <1>3, <1>19 DEF ReclaimNow
<1>20. ASSUME DeferWake(t)
       PROVE  OnlyMoves(t) /\ Kind
  <2>1. "wake" \in Places /\ "idle" \in Places
    BY DEF Places
  <2>2. OnlyMoves(t) /\ Neutral(t)
    BY <1>4, <1>20, <2>1 DEF DeferWake, objVars
  <2>3. QED
    BY <2>2
<1>21. ASSUME SpinEnd(t)
       PROVE  OnlyMoves(t) /\ Kind
  <2>1. "spin" \in Places /\ "idle" \in Places
    BY DEF Places
  <2>2. OnlyMoves(t) /\ Neutral(t)
    BY <1>4, <1>21, <2>1 DEF SpinEnd, objVars, sleepVars
  <2>3. QED
    BY <2>2
<1> HIDE DEF Kind
<1>22. OnlyMoves(t) /\ Kind
  BY <1>7, <1>8, <1>9, <1>10, <1>11, <1>12, <1>13, <1>14, <1>15, <1>16, <1>17,
     <1>18, <1>19, <1>20, <1>21 DEF UserStart, UserStep
<1>23. QED
  BY <1>22 DEF Kind

-----------------------------------------------------------------------------
(* The counts *)

LEMMA ThreadHolder ==
    ASSUME NEW q, NEW h \in Threads
    PROVE  /\ h \in Holders(q) <=> pc[h] = "hold" /\ obj[h] = q
           /\ h \in Holders(q)' <=> pc'[h] = "hold" /\ obj'[h] = q
<1>1. h # None
  BY VfsRcuConstants
<1>2. h \in Holders(q) <=> pc[h] = "hold" /\ obj[h] = q
  BY SMT, <1>1, HoldersMember
<1>3. h \in Holders(q)' <=> pc'[h] = "hold" /\ obj'[h] = q
  BY SMT, <1>1, HoldersMemberNext
<1>4. QED
  BY <1>2, <1>3

\* When t moves, the others are counted as before.
LEMMA OtherHolders ==
    ASSUME NEW q, NEW t \in Threads, OthersStay(t),
           q \in indexed' \/ Unlinking(q)' <=> q \in indexed \/ Unlinking(q)
    PROVE  \A h : h # t => (h \in Holders(q)' <=> h \in Holders(q))
<1> TAKE h
<1>1. CASE h \in Threads \ {t}
  <2>1. pc'[h] = pc[h] /\ obj'[h] = obj[h]
    BY <1>1 DEF OthersStay
  <2>2. QED
    BY <1>1, <2>1, ThreadHolder
<1>2. CASE h \notin Threads
  <2>1. h \in Holders(q) <=> h = None /\ q \in Nodes /\ (q \in indexed \/ Unlinking(q))
    BY SMT, <1>2, HoldersMember
  <2>2. h \in Holders(q)' <=> h = None /\ q \in Nodes /\ (q \in indexed' \/ Unlinking(q)')
    BY SMT, <1>2, HoldersMemberNext
  <2>3. QED
    BY SMT, <2>1, <2>2
<1>3. QED
  BY <1>1, <1>2

LEMMA SameHolders ==
    ASSUME NEW q, NEW t \in Threads, OthersStay(t),
           pc'[t] = "hold" /\ obj'[t] = q <=> pc[t] = "hold" /\ obj[t] = q,
           q \in indexed' \/ Unlinking(q)' <=> q \in indexed \/ Unlinking(q)
    PROVE  Holders(q)' = Holders(q)
<1>1. t \in Holders(q)' <=> t \in Holders(q)
  BY ThreadHolder
<1>2. \A h : h \in Holders(q)' <=> h \in Holders(q)
  BY <1>1, OtherHolders
<1>3. QED
  BY <1>2

LEMMA SameUnlinking ==
    ASSUME NEW q, NEW t \in Threads, OthersStay(t),
           pc'[t] = "unlinked" /\ obj'[t] = q <=> pc[t] = "unlinked" /\ obj[t] = q
    PROVE  Unlinking(q)' <=> Unlinking(q)
<1>1. \A u \in Threads : pc'[u] = "unlinked" /\ obj'[u] = q <=> pc[u] = "unlinked" /\ obj[u] = q
  BY DEF OthersStay
<1>2. QED
  BY <1>1 DEF Unlinking

LEMMA CountFrame ==
    ASSUME CountInv, UNCHANGED <<pc, obj, indexed, refs, evicted, life>>
    PROVE  CountInv'
BY DEF CountInv, Leaving, Leaves, Holders, CacheRef, Unlinking

LEMMA NeutralCount ==
    ASSUME RcuTypeOK, CountInv, NEW t \in Threads, OnlyMoves(t), Neutral(t)
    PROVE  CountInv'
<1>1. OthersStay(t) /\ UNCHANGED <<indexed, refs, evicted, life>>
  BY DEF OnlyMoves, Neutral
<1>2. \A u \in Threads : (pc[u] = "raw" \/ pc[u] = "hold" \/ Leaving(u) => obj[u] \in Objects)'
  <2> TAKE u \in Threads
  <2>1. CASE u = t
    BY <2>1, <1>1 DEF Neutral, RcuTypeOK
  <2>2. CASE u # t
    BY <2>2, <1>1 DEF OthersStay, CountInv, Leaving
  <2>3. QED
    BY <2>1, <2>2
<1>3. \A p \in Objects : (refs[p] = Cardinality(Holders(p)))'
  <2> TAKE p \in Objects
  <2>1. Unlinking(p)' <=> Unlinking(p)
    BY <1>1, SameUnlinking DEF Neutral, Leaving
  <2>2. Holders(p)' = Holders(p)
    BY <1>1, <2>1, SameHolders DEF Neutral
  <2>3. QED
    BY <1>1, <2>2 DEF CountInv
<1>4. \A u \in Threads : (Leaving(u) => Leaves(u))'
  <2> TAKE u \in Threads
  <2>1. ~Leaving(t)' /\ \A v \in Threads : Leaving(v)' => v # t /\ Leaving(v) /\ obj'[v] = obj[v] /\ pc'[v] = pc[v]
    BY <1>1 DEF Neutral, OthersStay, Leaving
  <2>2. QED
    BY <1>1, <2>1 DEF CountInv, Leaves
<1>5. QED
  BY <1>1, <1>2, <1>3, <1>4 DEF CountInv

LEMMA TakesCount ==
    ASSUME RcuTypeOK, CountInv, NEW t \in Threads, NEW p \in Objects,
           OnlyMoves(t), Takes(t, p)
    PROVE  CountInv' /\ refs' \in [Objects -> Nat]
<1>1. OthersStay(t) /\ UNCHANGED <<indexed, evicted, life>>
  BY DEF OnlyMoves, Takes
<1>2. refs \in [Objects -> Nat] /\ refs' = [refs EXCEPT ![p] = @ + 1]
  BY DEF Takes, RcuTypeOK
<1>3. refs' \in [Objects -> Nat] /\ refs'[p] = refs[p] + 1
  BY SMT, <1>2
<1>4. \A q \in Objects \ {p} : refs'[q] = refs[q]
  BY <1>2
<1>5. \A u \in Threads : (pc[u] = "raw" \/ pc[u] = "hold" \/ Leaving(u) => obj[u] \in Objects)'
  <2> TAKE u \in Threads
  <2>1. CASE u = t
    BY <2>1, <1>1 DEF Takes
  <2>2. CASE u # t
    BY <2>2, <1>1 DEF OthersStay, CountInv, Leaving
  <2>3. QED
    BY <2>1, <2>2
<1>6. \A q \in Objects : (refs[q] = Cardinality(Holders(q)))'
  <2> TAKE q \in Objects
  <2>1. Unlinking(q)' <=> Unlinking(q)
    BY <1>1, SameUnlinking DEF Takes, Leaving
  <2>2. CASE q # p
    <3>1. Holders(q)' = Holders(q)
      BY <1>1, <2>1, <2>2, SameHolders DEF Takes
    <3>2. QED
      BY <1>4, <2>2, <3>1 DEF CountInv
  <2>3. CASE q = p
    <3>1. t \notin Holders(p)
      BY HoldersMember, VfsRcuConstants DEF Takes
    <3>2. t \in Holders(p)'
      BY ThreadHolder DEF Takes
    <3>3. \A h : h # t => (h \in Holders(p)' <=> h \in Holders(p))
      BY <1>1, <2>1, <2>3, OtherHolders
    <3>4. Holders(p)' = Holders(p) \cup {t}
      BY <3>2, <3>3
    <3>5. Cardinality(Holders(p) \cup {t}) = Cardinality(Holders(p)) + 1
      BY <3>1, HoldersFinite, FS_AddElement
    <3>6. refs[p] = Cardinality(Holders(p))
      BY DEF CountInv
    <3>7. QED
      BY <1>3, <2>3, <3>4, <3>5, <3>6
  <2>4. QED
    BY <2>2, <2>3
<1>7. \A u \in Threads : (Leaving(u) => Leaves(u))'
  <2> TAKE u \in Threads
  <2>1. \A v \in Threads : Leaving(v)' => v # t /\ Leaving(v) /\ obj'[v] = obj[v] /\ pc'[v] = pc[v]
    BY <1>1 DEF Takes, OthersStay, Leaving
  <2>2. ASSUME Leaving(u)' PROVE Leaves(u)'
    <3>1. Leaving(u) /\ Leaves(u) /\ obj'[u] = obj[u] /\ pc'[u] = pc[u] /\ obj[u] \in Objects
      BY <2>1, <2>2 DEF CountInv
    <3>2. pc[u] # "unlinked" => obj[u] # p
      BY <3>1 DEF Leaves, Takes
    <3>3. pc[u] # "unlinked" => refs'[obj[u]] = 0
      BY <1>4, <3>1, <3>2 DEF Leaves
    <3>4. QED
      BY <1>1, <2>1, <3>1, <3>3 DEF Leaves
  <2>3. QED
    BY <2>2
<1>8. \A q \in Objects : life'[q] # "live" => refs'[q] = 0
  <2> TAKE q \in Objects
  <2>1. life'[q] # "live" => q # p
    BY <1>1 DEF Takes
  <2>2. QED
    BY <1>1, <1>4, <2>1 DEF CountInv
<1>9. QED
  BY <1>1, <1>3, <1>5, <1>6, <1>7, <1>8 DEF CountInv

\* A new object has no holder but its creator and its cache.
LEMMA InsertCount ==
    ASSUME RcuTypeOK, CountInv, NEW t \in Threads, NEW p \in Objects,
           OnlyMoves(t), vfs_cache_insert(t, p)
    PROVE  /\ CountInv'
           /\ refs' \in [Objects -> Nat] /\ evicted' \in [Objects -> BOOLEAN]
           /\ life' \in [Objects -> {"free", "live", "queued"}]
<1>1. OthersStay(t)
  BY DEF OnlyMoves
<1>2. pc[t] = "idle" /\ life[p] = "free"
  BY DEF vfs_cache_insert, Runs
<1>3. pc'[t] = "hold" /\ obj'[t] = p
  <2>1. Move(t, "hold", p) /\ "hold" \in UserPcs
    BY DEF vfs_cache_insert, UserPcs
  <2>2. QED
    BY <2>1, MoveEffect
<1>4. indexed' = indexed \cup {p}
  BY DEF vfs_cache_insert
<1>5. /\ refs \in [Objects -> Nat] /\ evicted \in [Objects -> BOOLEAN]
      /\ life \in [Objects -> {"free", "live", "queued"}]
      /\ refs' = [refs EXCEPT ![p] = IF p \in Nodes THEN 2 ELSE 1]
      /\ evicted' = [evicted EXCEPT ![p] = FALSE]
      /\ life' = [life EXCEPT ![p] = "live"]
  BY DEF vfs_cache_insert, RcuTypeOK
<1>6. /\ refs' \in [Objects -> Nat] /\ evicted' \in [Objects -> BOOLEAN]
      /\ life' \in [Objects -> {"free", "live", "queued"}]
  BY SMT, <1>5
<1>7. /\ refs'[p] = (IF p \in Nodes THEN 2 ELSE 1)
      /\ life'[p] = "live" /\ ~evicted'[p]
  BY <1>5
<1>8. \A q \in Objects \ {p} : refs'[q] = refs[q] /\ evicted'[q] = evicted[q] /\ life'[q] = life[q]
  BY <1>5
<1>9. Holders(p) = {} /\ p \notin indexed
  <2>1. Cardinality(Holders(p)) = 0
    BY <1>2 DEF CountInv
  <2>2. QED
    BY <1>2, <2>1, HoldersFinite, FS_EmptySet DEF CountInv
<1>10. \A u \in Threads : Leaving(u) => obj[u] # p
  BY <1>2 DEF CountInv, Leaves
<1>11. \A u \in Threads : (pc[u] = "raw" \/ pc[u] = "hold" \/ Leaving(u) => obj[u] \in Objects)'
  <2> TAKE u \in Threads
  <2>1. CASE u = t
    BY <2>1, <1>3
  <2>2. CASE u # t
    BY <2>2, <1>1 DEF OthersStay, CountInv, Leaving
  <2>3. QED
    BY <2>1, <2>2
<1>12. \A q \in Objects : (refs[q] = Cardinality(Holders(q)))'
  <2> TAKE q \in Objects
  <2>1. Unlinking(q)' <=> Unlinking(q)
    BY <1>1, <1>2, <1>3, SameUnlinking
  <2>2. CASE q # p
    <3>1. Holders(q)' = Holders(q)
      BY <1>1, <1>2, <1>3, <1>4, <2>1, <2>2, SameHolders
    <3>2. QED
      BY <1>8, <2>2, <3>1 DEF CountInv
  <2>3. CASE q = p
    <3>1. \A u \in Threads : ~(pc[u] = "hold" /\ obj[u] = p)
      BY <1>9, HoldersMember
    <3>2. \A u \in Threads : pc'[u] = "hold" /\ obj'[u] = p <=> u = t
      BY <1>1, <1>3, <3>1 DEF OthersStay
    <3>3. \A h : h \in Holders(p)' <=> h = t \/ (h = None /\ p \in Nodes)
      <4> TAKE h
      <4>1. h \in Holders(p)' <=> h = t \/ (h = None /\ p \in Nodes /\ (p \in indexed' \/ Unlinking(p)'))
        BY <3>2, HoldersMemberNext
      <4>2. p \in indexed'
        BY <1>4
      <4>3. QED
        BY <4>1, <4>2
    <3>4. t # None
      BY VfsRcuConstants
    <3>5. CASE p \in Nodes
      <4>1. Holders(p)' = {t} \cup {None}
        BY <3>3, <3>5
      <4>2. Cardinality({t} \cup {None}) = 2
        <5>1. IsFiniteSet({t}) /\ Cardinality({t}) = 1 /\ None \notin {t}
          BY FS_Singleton, <3>4
        <5>2. Cardinality({t} \cup {None}) = Cardinality({t}) + 1
          BY <5>1, FS_AddElement
        <5>3. QED
          BY SMT, <5>1, <5>2
      <4>3. QED
        BY <1>7, <2>3, <3>5, <4>1, <4>2
    <3>6. CASE p \notin Nodes
      <4>1. Holders(p)' = {t}
        BY <3>3, <3>6
      <4>2. QED
        BY <1>7, <2>3, <3>6, <4>1, FS_Singleton
    <3>7. QED
      BY <3>5, <3>6
  <2>4. QED
    BY <2>2, <2>3
<1>13. \A u \in Threads : (Leaving(u) => Leaves(u))'
  <2> TAKE u \in Threads
  <2>1. \A v \in Threads : Leaving(v)' => v # t /\ Leaving(v) /\ obj'[v] = obj[v] /\ pc'[v] = pc[v]
    BY <1>1, <1>3 DEF OthersStay, Leaving
  <2>2. ASSUME Leaving(u)' PROVE Leaves(u)'
    <3>1. Leaving(u) /\ Leaves(u) /\ obj'[u] = obj[u] /\ pc'[u] = pc[u] /\ obj[u] \in Objects \ {p}
      BY <1>10, <2>1, <2>2 DEF CountInv
    <3>2. QED
      BY <1>4, <1>8, <2>1, <3>1 DEF Leaves
  <2>3. QED
    BY <2>2
<1>14. \A q \in Objects : life'[q] # "live" => refs'[q] = 0
  BY <1>7, <1>8 DEF CountInv
<1>15. \A q \in Objects \ Nodes : life'[q] = "queued" => evicted'[q]
  BY <1>7, <1>8 DEF CountInv
<1>16. \A q \in indexed' : life'[q] = "live" /\ (q \in Nodes \/ ~evicted'[q])
  <2> TAKE q \in indexed'
  <2>1. CASE q = p
    BY <2>1, <1>7
  <2>2. CASE q # p
    <3>1. q \in indexed /\ q \in Objects
      BY <2>2, <1>4 DEF RcuTypeOK
    <3>2. QED
      BY <2>2, <3>1, <1>8 DEF CountInv
  <2>3. QED
    BY <2>1, <2>2
<1>17. QED
  BY <1>6, <1>11, <1>12, <1>13, <1>14, <1>15, <1>16 DEF CountInv

\* Dropping the last reference leaves nobody counted, and one thread alone does.
LEMMA PutCount ==
    ASSUME RcuTypeOK, CountInv, NEW t \in Threads, OnlyMoves(t), vfs_cache_put(t)
    PROVE  CountInv' /\ refs' \in [Objects -> Nat]
<1> DEFINE p == obj[t]
<1>1. OthersStay(t) /\ UNCHANGED <<indexed, evicted, life>>
  BY DEF OnlyMoves, vfs_cache_put
<1>2. pc[t] = "hold" /\ p \in Objects
  BY DEF vfs_cache_put, Runs, CountInv
<1>3. (LastRef(p) => pc'[t] = "release" /\ obj'[t] = p) /\ (~LastRef(p) => pc'[t] = "idle")
  <2>1. {"release", "idle"} \subseteq UserPcs
    BY DEF UserPcs
  <2>2. (LastRef(p) => Move(t, "release", p)) /\ (~LastRef(p) => Move(t, "idle", None))
    BY DEF vfs_cache_put
  <2>3. QED
    BY <1>2, <2>1, <2>2, MoveEffect
<1>4. t \in Holders(p)
  BY <1>2, HoldersMember
<1>5. refs \in [Objects -> Nat] /\ refs' = [refs EXCEPT ![p] = @ - 1]
  BY DEF vfs_cache_put, RcuTypeOK
<1>6. refs[p] = Cardinality(Holders(p))
  BY <1>2 DEF CountInv
<1>7. refs[p] # 0 /\ refs[p] \in Nat
  BY <1>2, <1>4, <1>5, <1>6, HoldersFinite, FS_EmptySet
<1>8. refs' \in [Objects -> Nat] /\ refs'[p] = refs[p] - 1
  BY SMT, <1>2, <1>5, <1>7
<1>9. \A q \in Objects \ {p} : refs'[q] = refs[q]
  BY <1>5
<1>10. life[p] = "live"
  BY <1>2, <1>7 DEF CountInv
<1> HIDE DEF p
<1>11. \A u \in Threads : (pc[u] = "raw" \/ pc[u] = "hold" \/ Leaving(u) => obj[u] \in Objects)'
  <2> TAKE u \in Threads
  <2>1. CASE u = t
    BY <2>1, <1>2, <1>3 DEF Leaving
  <2>2. CASE u # t
    BY <2>2, <1>1 DEF OthersStay, CountInv, Leaving
  <2>3. QED
    BY <2>1, <2>2
<1>12. \A q \in Objects : (refs[q] = Cardinality(Holders(q)))'
  <2> TAKE q \in Objects
  <2>1. Unlinking(q)' <=> Unlinking(q)
    BY <1>1, <1>2, <1>3, SameUnlinking
  <2>2. CASE q # p
    <3>1. Holders(q)' = Holders(q)
      BY <1>1, <1>2, <1>3, <2>1, <2>2, SameHolders DEF p
    <3>2. QED
      BY <1>9, <2>2, <3>1 DEF CountInv
  <2>3. CASE q = p
    <3>1. t \notin Holders(q)'
      BY <1>3, ThreadHolder
    <3>2. \A h : h # t => (h \in Holders(q)' <=> h \in Holders(q))
      BY <1>1, <2>1, <2>3, OtherHolders
    <3>3. Holders(q)' = Holders(q) \ {t}
      BY <3>1, <3>2
    <3>4. Cardinality(Holders(q) \ {t}) = Cardinality(Holders(q)) - 1
      BY <1>4, <2>3, HoldersFinite, FS_RemoveElement
    <3>5. QED
      BY <1>6, <1>8, <2>3, <3>3, <3>4
  <2>4. QED
    BY <2>2, <2>3
<1>13. \A u \in Threads : Leaving(u) /\ obj[u] = p => pc[u] = "unlinked"
  BY <1>7 DEF CountInv, Leaves
<1>14. ASSUME LastRef(p)
       PROVE  /\ refs'[p] = 0 /\ p \notin indexed /\ (p \in Nodes \/ evicted[p])
              /\ \A u \in Threads : Leaving(u) => obj[u] # p
  <2>1. refs[p] = 1 /\ (p \in Nodes \/ evicted[p])
    BY <1>14 DEF LastRef
  <2>2. refs'[p] = 0
    BY SMT, <1>8, <2>1
  <2>3. ASSUME p \in Nodes PROVE None \notin Holders(p)
    <3>1. PICK x : Holders(p) = {x}
      BY <1>6, <2>1, HoldersFinite, FS_Singleton
    <3>2. QED
      BY <3>1, <1>4, VfsRcuConstants
  <2>4. p \notin indexed
    BY <2>1, <2>3, HoldersMember DEF CountInv
  <2>5. ASSUME NEW u \in Threads, Leaving(u), obj[u] = p PROVE FALSE
    <3>1. pc[u] = "unlinked" /\ Leaves(u)
      BY <1>13, <2>5 DEF CountInv
    <3>2. p \in Nodes
      BY <2>1, <2>5, <3>1 DEF Leaves
    <3>3. Unlinking(p)
      BY <2>5, <3>1 DEF Unlinking
    <3>4. QED
      BY <2>3, <3>2, <3>3, HoldersMember
  <2>6. QED
    BY <2>1, <2>2, <2>4, <2>5
<1>15. \A u \in Threads : (Leaving(u) => Leaves(u))'
  <2>1. \A v \in Threads \ {t} : Leaving(v)' => Leaving(v) /\ obj'[v] = obj[v] /\ pc'[v] = pc[v]
    BY <1>1 DEF OthersStay, Leaving
  <2>2. Leaving(t)' => LastRef(p) /\ pc'[t] = "release" /\ obj'[t] = p
    BY <1>3 DEF Leaving
  <2>3. ASSUME Leaving(t)' PROVE Leaves(t)'
    <3>1. LastRef(p) /\ pc'[t] = "release" /\ obj'[t] = p
      BY <2>2, <2>3
    <3>2. QED
      BY <1>1, <1>10, <1>14, <2>1, <3>1 DEF Leaves
  <2>4. ASSUME NEW u \in Threads \ {t}, Leaving(u)' PROVE Leaves(u)'
    <3>1. Leaving(u) /\ Leaves(u) /\ obj'[u] = obj[u] /\ pc'[u] = pc[u] /\ obj[u] \in Objects
      BY <2>1, <2>4 DEF CountInv
    <3>2. pc[u] # "unlinked" => obj[u] # p
      BY <1>13, <3>1
    <3>3. pc[u] # "unlinked" => refs'[obj[u]] = 0
      BY <1>9, <3>1, <3>2 DEF Leaves
    <3>4. Leaving(t)' => obj'[t] # obj[u]
      BY <1>14, <2>2, <3>1
    <3>5. \A v \in Threads \ {u} : Leaving(v)' => obj'[v] # obj'[u]
      BY <2>1, <3>1, <3>4 DEF Leaves
    <3>6. QED
      BY <1>1, <3>1, <3>3, <3>5 DEF Leaves
  <2>5. QED
    BY <2>3, <2>4
<1>16. \A q \in Objects : life'[q] # "live" => refs'[q] = 0
  <2> TAKE q \in Objects
  <2>1. life'[q] # "live" => q # p
    BY <1>1, <1>10
  <2>2. QED
    BY <1>1, <1>9, <2>1 DEF CountInv
<1>17. QED
  BY <1>1, <1>8, <1>11, <1>12, <1>15, <1>16 DEF CountInv

\* Out of the index, the cache's reference is the unlinking thread's to drop.
LEMMA InvalidateCount ==
    ASSUME RcuTypeOK, CountInv, NEW t \in Threads, NEW p \in Objects,
           OnlyMoves(t), vfs_cache_invalidate(t, p)
    PROVE  CountInv'
<1>1. OthersStay(t) /\ UNCHANGED <<refs, evicted, life>> /\ indexed' = indexed \ {p}
  BY DEF OnlyMoves, vfs_cache_invalidate
<1>2. pc[t] = "idle" /\ p \in indexed
  BY DEF vfs_cache_invalidate, Runs
<1>3. pc'[t] = "unlinked" /\ obj'[t] = p
  <2>1. Move(t, "unlinked", p) /\ "unlinked" \in UserPcs
    BY DEF vfs_cache_invalidate, UserPcs
  <2>2. QED
    BY <2>1, MoveEffect
<1>4. \A u \in Threads : (pc[u] = "raw" \/ pc[u] = "hold" \/ Leaving(u) => obj[u] \in Objects)'
  <2> TAKE u \in Threads
  <2>1. CASE u = t
    BY <2>1, <1>3
  <2>2. CASE u # t
    BY <2>2, <1>1 DEF OthersStay, CountInv, Leaving
  <2>3. QED
    BY <2>1, <2>2
<1>5. \A q \in Objects : (refs[q] = Cardinality(Holders(q)))'
  <2> TAKE q \in Objects
  <2>1. q \in indexed' \/ Unlinking(q)' <=> q \in indexed \/ Unlinking(q)
    <3>1. CASE q = p
      BY <1>2, <1>3, <3>1 DEF Unlinking
    <3>2. CASE q # p
      <4>1. Unlinking(q)' <=> Unlinking(q)
        BY <1>1, <1>2, <1>3, <3>2, SameUnlinking
      <4>2. QED
        BY <1>1, <3>2, <4>1
    <3>3. QED
      BY <3>1, <3>2
  <2>2. Holders(q)' = Holders(q)
    BY <1>1, <1>2, <1>3, <2>1, SameHolders
  <2>3. QED
    BY <1>1, <2>2 DEF CountInv
<1>6. \A u \in Threads : (Leaving(u) => Leaves(u))'
  <2>1. \A v \in Threads \ {t} : Leaving(v)' => Leaving(v) /\ obj'[v] = obj[v] /\ pc'[v] = pc[v]
    BY <1>1 DEF OthersStay, Leaving
  <2>2. \A v \in Threads : Leaving(v) => obj[v] # p
    BY <1>2 DEF CountInv, Leaves
  <2>3. Leaves(t)'
    BY <1>1, <1>2, <1>3, <2>1, <2>2 DEF Leaves, CountInv
  <2>4. ASSUME NEW u \in Threads \ {t}, Leaving(u)' PROVE Leaves(u)'
    <3>1. Leaving(u) /\ Leaves(u) /\ obj'[u] = obj[u] /\ pc'[u] = pc[u]
      BY <2>1, <2>4 DEF CountInv
    <3>2. \A v \in Threads \ {u} : Leaving(v)' => obj'[v] # obj'[u]
      BY <1>3, <2>1, <2>2, <3>1 DEF Leaves
    <3>3. QED
      BY <1>1, <3>1, <3>2 DEF Leaves
  <2>5. QED
    BY <2>3, <2>4
<1>7. QED
  BY <1>1, <1>4, <1>5, <1>6 DEF CountInv

\* The marker, or the cache's own reference, goes once.
LEMMA EvictCount ==
    ASSUME RcuTypeOK, CountInv, NEW t \in Threads, OnlyMoves(t), vfs_page_evict(t)
    PROVE  CountInv' /\ refs' \in [Objects -> Nat] /\ evicted' \in [Objects -> BOOLEAN]
<1>1. OthersStay(t) /\ UNCHANGED <<indexed, life>>
  BY DEF OnlyMoves, vfs_page_evict
<1>2. pc[t] = "unlinked" /\ Leaving(t)
  BY DEF vfs_page_evict, Runs, Leaving
<1>3. PICK p \in Objects : p = obj[t]
  BY <1>2 DEF CountInv
<1>4. Leaves(t) /\ Unlinking(p)
  BY <1>2, <1>3 DEF CountInv, Unlinking
<1>5. life[p] = "live" /\ p \notin indexed /\ (p \notin Nodes => ~evicted[p])
  BY <1>2, <1>3, <1>4 DEF Leaves
<1>6. \A u \in Threads \ {t} : Leaving(u) => obj[u] # p
  BY <1>3, <1>4 DEF Leaves
<1>7. (refs'[p] = 0 => pc'[t] = "release" /\ obj'[t] = p) /\ (refs'[p] # 0 => pc'[t] = "idle")
  <2>1. {"release", "idle"} \subseteq UserPcs
    BY DEF UserPcs
  <2>2. (refs'[p] = 0 => Move(t, "release", p)) /\ (refs'[p] # 0 => Move(t, "idle", None))
    BY <1>3 DEF vfs_page_evict
  <2>3. QED
    BY <2>1, <2>2, MoveEffect
<1>8. /\ refs \in [Objects -> Nat] /\ evicted \in [Objects -> BOOLEAN]
      /\ p \in Nodes => refs' = [refs EXCEPT ![p] = @ - 1] /\ evicted' = evicted
      /\ p \notin Nodes => refs' = refs /\ evicted' = [evicted EXCEPT ![p] = TRUE]
  BY <1>3 DEF vfs_page_evict, RcuTypeOK
<1>9. refs[p] = Cardinality(Holders(p))
  BY DEF CountInv
<1>10. p \in Nodes => None \in Holders(p)
  BY <1>4, HoldersMember
<1>11. p \in Nodes => refs[p] # 0
  BY <1>9, <1>10, HoldersFinite, FS_EmptySet
<1>12. refs' \in [Objects -> Nat] /\ evicted' \in [Objects -> BOOLEAN]
  <2>1. CASE p \in Nodes
    <3>1. refs[p] - 1 \in Nat
      BY SMT, <1>8, <1>11, <2>1
    <3>2. QED
      BY SMT, <1>8, <2>1, <3>1
  <2>2. CASE p \notin Nodes
    <3>1. /\ evicted \in [Objects -> BOOLEAN] /\ evicted' = [evicted EXCEPT ![p] = TRUE]
          /\ refs' \in [Objects -> Nat]
      BY <1>8, <2>2
    <3>2. QED
      BY SMT, <3>1
  <2>3. QED
    BY <2>1, <2>2
<1>13. /\ p \in Nodes => refs'[p] = refs[p] - 1
       /\ p \notin Nodes => refs'[p] = refs[p] /\ evicted'[p]
  BY <1>8
<1>14. \A q \in Objects \ {p} : refs'[q] = refs[q] /\ evicted'[q] = evicted[q]
  <2>1. CASE p \in Nodes
    BY <1>8, <2>1
  <2>2. CASE p \notin Nodes
    BY <1>8, <2>2
  <2>3. QED
    BY <2>1, <2>2
<1>15. \A u \in Threads : (pc[u] = "raw" \/ pc[u] = "hold" \/ Leaving(u) => obj[u] \in Objects)'
  <2> TAKE u \in Threads
  <2>1. CASE u = t
    BY <2>1, <1>7 DEF Leaving
  <2>2. CASE u # t
    BY <2>2, <1>1 DEF OthersStay, CountInv, Leaving
  <2>3. QED
    BY <2>1, <2>2
<1>16. ~Unlinking(p)'
  <2>1. ASSUME NEW u \in Threads, pc'[u] = "unlinked", obj'[u] = p PROVE FALSE
    <3>1. u # t
      BY <1>7, <2>1
    <3>2. QED
      BY <1>1, <1>6, <2>1, <3>1 DEF OthersStay, Leaving
  <2>2. QED
    BY <2>1 DEF Unlinking
<1>17. \A q \in Objects : (refs[q] = Cardinality(Holders(q)))'
  <2> TAKE q \in Objects
  <2>1. CASE q # p
    <3>1. Unlinking(q)' <=> Unlinking(q)
      BY <1>1, <1>2, <1>3, <1>7, <2>1, SameUnlinking
    <3>2. Holders(q)' = Holders(q)
      BY <1>1, <1>2, <1>7, <3>1, SameHolders
    <3>3. QED
      BY <1>14, <2>1, <3>2 DEF CountInv
  <2>2. ASSUME NEW h \in Threads PROVE h \in Holders(p)' <=> h \in Holders(p)
    <3>1. CASE h = t
      BY <1>2, <1>7, <3>1, ThreadHolder
    <3>2. CASE h # t
      BY <1>1, <3>2, ThreadHolder DEF OthersStay
    <3>3. QED
      BY <3>1, <3>2
  <2>3. None \notin Holders(p)'
    BY <1>1, <1>5, <1>16, HoldersMemberNext, VfsRcuConstants
  <2>4. \A h \in Holders(p) : h \in Threads \/ h = None
    BY SMT, HoldersMember
  <2>5. \A h \in Holders(p)' : h \in Threads
    BY HoldersMemberNext, <2>3
  <2>6. Holders(p)' = Holders(p) \ {None}
    <3>1. None \notin Threads
      BY VfsRcuConstants
    <3>2. QED
      BY <2>2, <2>4, <2>5, <3>1
  <2>7. CASE q = p /\ p \in Nodes
    <3>1. Cardinality(Holders(p) \ {None}) = Cardinality(Holders(p)) - 1
      BY <2>7, <1>10, HoldersFinite, FS_RemoveElement
    <3>2. QED
      BY <1>9, <1>13, <2>6, <2>7, <3>1
  <2>8. CASE q = p /\ p \notin Nodes
    <3>1. None \notin Holders(p)
      BY <2>8, HoldersMember, VfsRcuConstants
    <3>2. Holders(p)' = Holders(p)
      BY <2>6, <3>1
    <3>3. QED
      BY <1>9, <1>13, <2>8, <3>2
  <2>9. QED
    BY <2>1, <2>7, <2>8
<1>18. \A u \in Threads : (Leaving(u) => Leaves(u))'
  <2>1. \A v \in Threads \ {t} : Leaving(v)' => Leaving(v) /\ obj'[v] = obj[v] /\ pc'[v] = pc[v]
    BY <1>1 DEF OthersStay, Leaving
  <2>2. Leaving(t)' => refs'[p] = 0 /\ pc'[t] = "release" /\ obj'[t] = p
    BY <1>7 DEF Leaving
  <2>3. ASSUME Leaving(t)' PROVE Leaves(t)'
    <3>1. refs'[p] = 0 /\ pc'[t] = "release" /\ obj'[t] = p
      BY <2>2, <2>3
    <3>2. p \in Nodes \/ evicted'[p]
      BY <1>13
    <3>3. QED
      BY <1>1, <1>5, <1>6, <2>1, <3>1, <3>2 DEF Leaves
  <2>4. ASSUME NEW u \in Threads \ {t}, Leaving(u)' PROVE Leaves(u)'
    <3>1. Leaving(u) /\ Leaves(u) /\ obj'[u] = obj[u] /\ pc'[u] = pc[u] /\ obj[u] \in Objects \ {p}
      BY <1>6, <2>1, <2>4 DEF CountInv
    <3>2. refs'[obj[u]] = refs[obj[u]] /\ evicted'[obj[u]] = evicted[obj[u]]
      BY <1>14, <3>1
    <3>3. \A v \in Threads \ {u} : Leaving(v)' => obj'[v] # obj'[u]
      BY <2>1, <2>2, <3>1 DEF Leaves
    <3>4. QED
      BY <1>1, <3>1, <3>2, <3>3 DEF Leaves
  <2>5. QED
    BY <2>3, <2>4
<1>19. \A q \in Objects : life'[q] # "live" => refs'[q] = 0
  BY <1>1, <1>5, <1>14 DEF CountInv
<1>20. \A q \in Objects \ Nodes : life'[q] = "queued" => evicted'[q]
  BY <1>1, <1>5, <1>14 DEF CountInv
<1>21. \A q \in indexed' : life'[q] = "live" /\ (q \in Nodes \/ ~evicted'[q])
  BY <1>1, <1>5, <1>14 DEF CountInv, RcuTypeOK
<1>22. QED
  BY <1>12, <1>15, <1>17, <1>18, <1>19, <1>20, <1>21 DEF CountInv

\* Whatever no longer is live has nobody counted and nobody taking it out.
LEMMA ReleaseCount ==
    ASSUME RcuTypeOK, CountInv, NEW t \in Threads, OnlyMoves(t),
           vfs_rcu_defer(t) \/ ReclaimNow(t)
    PROVE  CountInv' /\ life' \in [Objects -> {"free", "live", "queued"}]
<1>1. OthersStay(t) /\ UNCHANGED <<indexed, refs, evicted>>
  BY DEF OnlyMoves, vfs_rcu_defer, ReclaimNow
<1>2. pc[t] \in {"release", "now"} /\ Leaving(t)
  BY DEF vfs_rcu_defer, ReclaimNow, Runs, Leaving
<1>3. PICK p \in Objects : p = obj[t]
  BY <1>2 DEF CountInv
<1>4. /\ p \notin indexed /\ refs[p] = 0 /\ (p \in Nodes \/ evicted[p])
      /\ \A u \in Threads \ {t} : Leaving(u) => obj[u] # p
  BY <1>2, <1>3 DEF CountInv, Leaves
<1>5. {"wake", "now", "idle"} \subseteq UserPcs
  BY DEF UserPcs
<1>6. \/ pc'[t] = "now" /\ obj'[t] = p /\ life' = life
      \/ /\ pc'[t] \in {"wake", "idle"}
         /\ life' = [life EXCEPT ![p] = "queued"] \/ life' = [life EXCEPT ![p] = "free"]
  <2>1. CASE vfs_rcu_defer(t)
    BY <1>3, <1>5, <2>1, MoveEffect DEF vfs_rcu_defer
  <2>2. CASE ReclaimNow(t)
    BY <1>3, <1>5, <2>2, MoveEffect DEF ReclaimNow
  <2>3. QED
    BY <2>1, <2>2
<1>7. life \in [Objects -> {"free", "live", "queued"}]
  BY DEF RcuTypeOK
<1>8. life' \in [Objects -> {"free", "live", "queued"}]
  BY SMT, <1>6, <1>7
<1>9. \A q \in Objects \ {p} : life'[q] = life[q]
  BY <1>6, <1>7
<1>10. \A u \in Threads : (pc[u] = "raw" \/ pc[u] = "hold" \/ Leaving(u) => obj[u] \in Objects)'
  <2> TAKE u \in Threads
  <2>1. CASE u = t
    BY <2>1, <1>6 DEF Leaving
  <2>2. CASE u # t
    BY <2>2, <1>1 DEF OthersStay, CountInv, Leaving
  <2>3. QED
    BY <2>1, <2>2
<1>11. \A q \in Objects : (refs[q] = Cardinality(Holders(q)))'
  <2> TAKE q \in Objects
  <2>1. Unlinking(q)' <=> Unlinking(q)
    BY <1>1, <1>2, <1>6, SameUnlinking
  <2>2. Holders(q)' = Holders(q)
    BY <1>1, <1>2, <1>6, <2>1, SameHolders
  <2>3. QED
    BY <1>1, <2>2 DEF CountInv
<1>12. \A u \in Threads : (Leaving(u) => Leaves(u))'
  <2>1. \A v \in Threads \ {t} : Leaving(v)' => Leaving(v) /\ obj'[v] = obj[v] /\ pc'[v] = pc[v]
    BY <1>1 DEF OthersStay, Leaving
  <2>2. Leaving(t)' => pc'[t] = "now" /\ obj'[t] = p /\ life' = life
    BY <1>6 DEF Leaving
  <2>3. ASSUME Leaving(t)' PROVE Leaves(t)'
    <3>1. pc'[t] = "now" /\ obj'[t] = p /\ life' = life /\ life[p] = "live"
      BY <1>2, <1>3, <2>2, <2>3 DEF CountInv, Leaves
    <3>2. QED
      BY <1>1, <1>4, <2>1, <3>1 DEF Leaves
  <2>4. ASSUME NEW u \in Threads \ {t}, Leaving(u)' PROVE Leaves(u)'
    <3>1. Leaving(u) /\ Leaves(u) /\ obj'[u] = obj[u] /\ pc'[u] = pc[u] /\ obj[u] \in Objects \ {p}
      BY <1>4, <2>1, <2>4 DEF CountInv
    <3>2. life'[obj[u]] = life[obj[u]]
      BY <1>9, <3>1
    <3>3. \A v \in Threads \ {u} : Leaving(v)' => obj'[v] # obj'[u]
      BY <2>1, <2>2, <3>1 DEF Leaves
    <3>4. QED
      BY <1>1, <3>1, <3>2, <3>3 DEF Leaves
  <2>5. QED
    BY <2>3, <2>4
<1>13. \A q \in Objects : life'[q] # "live" => refs'[q] = 0
  BY <1>1, <1>4, <1>9 DEF CountInv
<1>14. \A q \in Objects \ Nodes : life'[q] = "queued" => evicted'[q]
  BY <1>1, <1>4, <1>9 DEF CountInv
<1>15. \A q \in indexed' : life'[q] = "live" /\ (q \in Nodes \/ ~evicted'[q])
  BY <1>1, <1>4, <1>9 DEF CountInv, RcuTypeOK
<1>16. QED
  BY <1>8, <1>10, <1>11, <1>12, <1>13, <1>14, <1>15 DEF CountInv

\* Reclaiming a queued object changes nothing for the counts.
LEMMA ReclaimCount ==
    ASSUME RcuTypeOK, CountInv, NEW p \in Objects, life[p] = "queued",
           life' = [life EXCEPT ![p] = "free"],
           UNCHANGED <<pc, obj, indexed, refs, evicted>>
    PROVE  CountInv' /\ life' \in [Objects -> {"free", "live", "queued"}]
<1>1. life \in [Objects -> {"free", "live", "queued"}]
  BY DEF RcuTypeOK
<1>2. life' \in [Objects -> {"free", "live", "queued"}]
  BY SMT, <1>1
<1>3. life'[p] = "free" /\ \A q \in Objects \ {p} : life'[q] = life[q]
  BY <1>1
<1>4. refs[p] = 0
  BY DEF CountInv
<1>5. \A q \in Objects : (refs[q] = Cardinality(Holders(q)))'
  <2> TAKE q \in Objects
  <2>1. Holders(q)' = Holders(q)
    BY DEF Holders, CacheRef, Unlinking
  <2>2. QED
    BY <2>1 DEF CountInv
<1>6. \A u \in Threads : (Leaving(u) => Leaves(u))'
  <2>1. ASSUME NEW u \in Threads, Leaving(u)' PROVE Leaves(u)'
    <3>1. Leaving(u) /\ Leaves(u) /\ obj[u] \in Objects
      BY <2>1 DEF CountInv, Leaving
    <3>2. life'[obj[u]] = life[obj[u]]
      BY <1>3, <3>1 DEF Leaves
    <3>3. QED
      BY <3>1, <3>2 DEF Leaves, Leaving
  <2>2. QED
    BY <2>1
<1>7. \A u \in Threads : (pc[u] = "raw" \/ pc[u] = "hold" \/ Leaving(u) => obj[u] \in Objects)'
  BY DEF CountInv, Leaving
<1>8. \A q \in Objects : life'[q] # "live" => refs'[q] = 0
  BY <1>3, <1>4 DEF CountInv
<1>9. \A q \in Objects \ Nodes : life'[q] = "queued" => evicted'[q]
  BY <1>3 DEF CountInv
<1>10. \A q \in indexed' : life'[q] = "live" /\ (q \in Nodes \/ ~evicted'[q])
  BY <1>3 DEF CountInv, RcuTypeOK
<1>11. QED
  BY <1>2, <1>5, <1>6, <1>7, <1>8, <1>9, <1>10 DEF CountInv

-----------------------------------------------------------------------------
(* User steps keep the invariant *)

LEMMA UserTypeCount ==
    ASSUME RcuTypeOK, CountInv, NEW t \in Threads, UserStart(t) \/ UserStep(t)
    PROVE  RcuTypeOK' /\ CountInv'
<1> DEFINE Rest ==
      /\ indexed' \subseteq Objects /\ refs' \in [Objects -> Nat]
      /\ evicted' \in [Objects -> BOOLEAN]
      /\ life' \in [Objects -> {"free", "live", "queued"}] /\ queue' \subseteq Objects
      /\ on_wait' \in BOOLEAN /\ timer' \in BOOLEAN
      /\ dstate' \in {"running", "blocked", "sleeping"}
<1>1. OnlyMoves(t)
  BY UserKinds
<1>2. /\ indexed \subseteq Objects /\ refs \in [Objects -> Nat]
      /\ evicted \in [Objects -> BOOLEAN]
      /\ life \in [Objects -> {"free", "live", "queued"}] /\ queue \subseteq Objects
      /\ on_wait \in BOOLEAN /\ timer \in BOOLEAN
      /\ dstate \in {"running", "blocked", "sleeping"}
  BY DEF RcuTypeOK
<1>3. CASE Neutral(t)
  <2>1. CountInv'
    BY <1>1, <1>3, NeutralCount
  <2>2. on_wait' \in BOOLEAN /\ timer' \in BOOLEAN /\ dstate' \in {"running", "blocked", "sleeping"}
    BY <1>2, <1>3 DEF Neutral, DeferWake
  <2>3. Rest
    BY <1>2, <1>3, <2>2 DEF Neutral
  <2>4. QED
    BY <1>1, <2>1, <2>3 DEF OnlyMoves, UserTypes, RcuTypeOK
<1>4. ASSUME NEW p \in Objects, Takes(t, p) PROVE RcuTypeOK' /\ CountInv'
  <2>1. CountInv' /\ refs' \in [Objects -> Nat]
    BY <1>1, <1>4, TakesCount
  <2>2. Rest
    BY <1>2, <1>4, <2>1 DEF Takes
  <2>3. QED
    BY <1>1, <2>1, <2>2 DEF OnlyMoves, UserTypes, RcuTypeOK
<1>5. ASSUME NEW p \in Objects, vfs_cache_insert(t, p) PROVE RcuTypeOK' /\ CountInv'
  <2>1. /\ CountInv' /\ refs' \in [Objects -> Nat] /\ evicted' \in [Objects -> BOOLEAN]
        /\ life' \in [Objects -> {"free", "live", "queued"}]
    BY <1>1, <1>5, InsertCount
  <2>2. Rest
    BY <1>2, <1>5, <2>1 DEF vfs_cache_insert, sleepVars
  <2>3. QED
    BY <1>1, <2>1, <2>2 DEF OnlyMoves, UserTypes, RcuTypeOK
<1>6. ASSUME NEW p \in Objects, vfs_cache_invalidate(t, p) PROVE RcuTypeOK' /\ CountInv'
  <2>1. CountInv'
    BY <1>1, <1>6, InvalidateCount
  <2>2. Rest
    BY <1>2, <1>6, <2>1 DEF vfs_cache_invalidate, sleepVars
  <2>3. QED
    BY <1>1, <2>1, <2>2 DEF OnlyMoves, UserTypes, RcuTypeOK
<1>7. CASE vfs_cache_put(t)
  <2>1. CountInv' /\ refs' \in [Objects -> Nat]
    BY <1>1, <1>7, PutCount
  <2>2. Rest
    BY <1>2, <1>7, <2>1 DEF vfs_cache_put, sleepVars
  <2>3. QED
    BY <1>1, <2>1, <2>2 DEF OnlyMoves, UserTypes, RcuTypeOK
<1>8. CASE vfs_page_evict(t)
  <2>1. CountInv' /\ refs' \in [Objects -> Nat] /\ evicted' \in [Objects -> BOOLEAN]
    BY <1>1, <1>8, EvictCount
  <2>2. Rest
    BY <1>2, <1>8, <2>1 DEF vfs_page_evict, sleepVars
  <2>3. QED
    BY <1>1, <2>1, <2>2 DEF OnlyMoves, UserTypes, RcuTypeOK
<1>9. CASE vfs_rcu_defer(t) \/ ReclaimNow(t)
  <2>1. CountInv' /\ life' \in [Objects -> {"free", "live", "queued"}]
    BY <1>1, <1>9, ReleaseCount
  <2>2. pc[t] \in {"release", "now"}
    BY <1>9 DEF vfs_rcu_defer, ReclaimNow, Runs
  <2>3. obj[t] \in Objects
    BY <2>2 DEF CountInv, Leaving
  <2>4. Rest
    BY <1>2, <1>9, <2>1, <2>3 DEF vfs_rcu_defer, ReclaimNow, sleepVars
  <2>5. QED
    BY <1>1, <2>1, <2>4 DEF OnlyMoves, UserTypes, RcuTypeOK
<1>10. QED
  BY UserKinds, <1>3, <1>4, <1>5, <1>6, <1>7, <1>8, <1>9

\* What the grace period has to know of a user step.
UserView(t) ==
    /\ pc'[t] = "raw" => obj'[t] \in indexed /\ life' = life
                         /\ (rcu_up \/ pc[t] = "section")
    /\ pc'[t] = "section" => rcu_up
    /\ pc'[t] = "now" => ~rcu_up

LEMMA UserViews ==
    ASSUME RcuTypeOK, CountInv, NEW t \in Threads, UserStart(t) \/ UserStep(t)
    PROVE  UserView(t)
<1>1. {"hold", "unlinked", "release", "idle", "wake", "now"} \subseteq UserPcs
  BY DEF UserPcs
<1>2. obj[t] \in Objects \cup {None}
  BY DEF RcuTypeOK
<1>3. ASSUME NEW to \in {"hold", "unlinked", "release", "idle", "wake"},
             NEW p \in Objects \cup {None}, Move(t, to, p)
      PROVE  UserView(t)
  <2>1. pc'[t] = to
    BY <1>1, <1>3, MoveEffect
  <2>2. QED
    BY <2>1 DEF UserView
<1>4. CASE Neutral(t)
  BY <1>4 DEF Neutral, UserView, Leaving
<1>5. ASSUME NEW p \in Objects, Takes(t, p) PROVE UserView(t)
  BY <1>5 DEF Takes, UserView
<1>6. ASSUME NEW p \in Objects, vfs_cache_insert(t, p) PROVE UserView(t)
  BY <1>3, <1>6 DEF vfs_cache_insert
<1>7. ASSUME NEW p \in Objects, vfs_cache_invalidate(t, p) PROVE UserView(t)
  BY <1>3, <1>7 DEF vfs_cache_invalidate
<1>8. CASE vfs_cache_put(t)
  BY <1>2, <1>3, <1>8 DEF vfs_cache_put
<1>9. CASE vfs_page_evict(t)
  BY <1>2, <1>3, <1>9 DEF vfs_page_evict
<1>10. CASE vfs_rcu_defer(t)
  <2>1. CASE rcu_up
    BY <1>3, <1>10, <2>1 DEF vfs_rcu_defer
  <2>2. CASE ~rcu_up
    <3>1. Move(t, "now", obj[t])
      BY <1>10, <2>2 DEF vfs_rcu_defer
    <3>2. pc'[t] = "now"
      BY <1>1, <1>2, <3>1, MoveEffect
    <3>3. QED
      BY <2>2, <3>2 DEF UserView
  <2>3. QED
    BY <2>1, <2>2
<1>11. CASE ReclaimNow(t)
  BY <1>3, <1>11 DEF ReclaimNow
<1>12. QED
  BY UserKinds, <1>4, <1>5, <1>6, <1>7, <1>8, <1>9, <1>10, <1>11

LEMMA UserGrace ==
    ASSUME RcuTypeOK, CountInv, BatchInv, GraceInv,
           NEW t \in Threads, UserStart(t) \/ UserStep(t)
    PROVE  GraceInv'
<1>1. OnlyMoves(t) /\ UserView(t)
  BY UserKinds, UserViews
<1>2. OthersStay(t) /\ UNCHANGED <<run, rcu_up, ack, dpc, batch, self_id, arming, pending>>
  BY <1>1 DEF OnlyMoves
<1>3. \A u \in Threads : pc'[u] \in {"section", "raw"} => rcu_up'
  BY <1>1, <1>2 DEF OthersStay, UserView, GraceInv
<1>4. \A u \in Threads : ReaderMasked(u)' => \E c \in CPUs : run'[c] = u
  <2> TAKE u \in Threads
  <2>1. CASE u = t
    BY <1>1, <2>1 DEF OnlyMoves
  <2>2. CASE u # t
    BY <1>2, <2>2 DEF OthersStay, ReaderMasked, GraceInv
  <2>3. QED
    BY <2>1, <2>2
<1>5. \A u, v \in Threads : pc'[u] = "now" /\ pc'[v] = "raw" => obj'[v] # obj'[u]
  <2>1. ASSUME NEW u \in Threads, NEW v \in Threads, pc'[u] = "now", pc'[v] = "raw"
        PROVE  obj'[v] # obj'[u]
    <3>1. u # v
      BY <2>1
    <3>2. CASE u = t
      BY <1>1, <1>2, <2>1, <3>1, <3>2 DEF UserView, OthersStay, GraceInv
    <3>3. CASE v = t
      <4>1. pc[u] = "now" /\ obj'[u] = obj[u] /\ obj'[v] \in indexed
        BY <1>1, <1>2, <2>1, <3>1, <3>3 DEF UserView, OthersStay
      <4>2. obj[u] \notin indexed
        BY <4>1 DEF CountInv, Leaving, Leaves
      <4>3. QED
        BY <4>1, <4>2
    <3>4. CASE u # t /\ v # t
      BY <1>2, <2>1, <3>4 DEF OthersStay, GraceInv
    <3>5. QED
      BY <3>2, <3>3, <3>4
  <2>2. QED
    BY <2>1
<1>6. ASSUME NEW c \in CPUs, NEW u \in Threads, run'[c] = u, pc'[u] = "raw",
             obj'[u] \in batch' \ Nodes
      PROVE  Awaited(c)'
  <2>1. u # t
    <3>1. SUFFICES ASSUME u = t PROVE FALSE
      OBVIOUS
    <3>2. obj'[t] \in indexed /\ obj'[t] \in batch
      BY <1>1, <1>2, <1>6, <3>1 DEF UserView
    <3>3. obj'[t] \in Objects /\ life[obj'[t]] = "live"
      BY <3>2 DEF CountInv, RcuTypeOK
    <3>4. life[obj'[t]] = "queued"
      BY <3>2, <3>3 DEF BatchInv
    <3>5. QED
      BY <3>3, <3>4
  <2>2. run[c] = u /\ pc[u] = "raw" /\ obj[u] \in batch \ Nodes
    BY <1>2, <1>6, <2>1 DEF OthersStay
  <2>3. Awaited(c)
    BY <2>2 DEF GraceInv
  <2>4. QED
    BY <1>2, <2>3 DEF Awaited
<1>7. QED
  BY <1>3, <1>4, <1>5, <1>6 DEF GraceInv

LEMMA UserRawAlive ==
    ASSUME RcuTypeOK, CountInv, GraceInv, RawInv,
           NEW t \in Threads, UserStart(t) \/ UserStep(t)
    PROVE  RawInv'
<1>1. OnlyMoves(t) /\ UserView(t)
  BY UserKinds, UserViews
<1>2. life \in [Objects -> {"free", "live", "queued"}]
  BY DEF RcuTypeOK
<1>3. ASSUME NEW u \in Threads, pc'[u] = "raw", obj'[u] \notin Nodes
      PROVE  life'[obj'[u]] # "free"
  <2>1. CASE u = t
    BY <1>1, <1>3, <2>1 DEF UserView, CountInv
  <2>2. CASE u # t
    <3>1. pc[u] = "raw" /\ obj'[u] = obj[u] /\ obj[u] \in Objects /\ life[obj[u]] # "free"
      BY <1>1, <1>3, <2>2 DEF OnlyMoves, OthersStay, CountInv, RawInv
    <3>2. CASE life' = life
      BY <3>1, <3>2
    <3>3. ASSUME NEW p \in Objects, vfs_cache_insert(t, p) PROVE life'[obj[u]] # "free"
      BY <1>2, <3>1, <3>3 DEF vfs_cache_insert
    <3>4. CASE vfs_rcu_defer(t)
      <4>1. life' = life \/ life' = [life EXCEPT ![obj[t]] = "queued"]
        BY <3>4 DEF vfs_rcu_defer
      <4>2. QED
        BY <1>2, <3>1, <4>1
    <3>5. CASE ReclaimNow(t)
      <4>1. pc[t] = "now" /\ life' = [life EXCEPT ![obj[t]] = "free"]
        BY <3>5 DEF ReclaimNow, Runs
      <4>2. obj[u] # obj[t]
        BY <3>1, <4>1 DEF GraceInv
      <4>3. QED
        BY <1>2, <3>1, <4>1, <4>2
    <3>6. life' = life \/ vfs_rcu_defer(t) \/ ReclaimNow(t) \/ \E p \in Objects : vfs_cache_insert(t, p)
      BY UserKinds DEF Neutral, Takes, vfs_cache_invalidate, vfs_cache_put, vfs_page_evict
    <3>7. QED
      BY <3>1, <3>2, <3>3, <3>4, <3>5, <3>6
  <2>3. QED
    BY <2>1, <2>2
<1>4. QED
  BY <1>3 DEF RawInv

LEMMA UserBatch ==
    ASSUME RcuTypeOK, CountInv, BatchInv, NEW t \in Threads, UserStart(t) \/ UserStep(t)
    PROVE  BatchInv'
<1>1. OnlyMoves(t)
  BY UserKinds
<1>2. dpc' = dpc /\ batch' = batch
  BY <1>1 DEF OnlyMoves
<1>3. life \in [Objects -> {"free", "live", "queued"}]
  BY DEF RcuTypeOK
<1>4. CASE life' = life /\ queue' = queue
  BY <1>2, <1>4 DEF BatchInv
<1>5. ASSUME NEW p \in Objects, NEW v \in {"free", "live"}, life[p] # "queued",
             life' = [life EXCEPT ![p] = v], queue' = queue
      PROVE  BatchInv'
  <2>1. life'[p] = v /\ \A q \in Objects \ {p} : life'[q] = life[q]
    BY <1>3, <1>5
  <2>2. p \notin queue \cup batch
    BY <1>5 DEF BatchInv
  <2>3. v # "queued"
    BY <1>5
  <2>4. \A q \in Objects : life'[q] = "queued" <=> q \in queue' \cup batch'
    BY <1>2, <1>5, <2>1, <2>2, <2>3 DEF BatchInv
  <2>5. QED
    BY <1>2, <1>5, <2>4 DEF BatchInv
<1>6. ASSUME NEW p \in Objects, vfs_cache_insert(t, p) PROVE BatchInv'
  BY <1>5, <1>6 DEF vfs_cache_insert
<1>7. ASSUME pc[t] \in {"release", "now"} PROVE obj[t] \in Objects /\ life[obj[t]] = "live"
  BY <1>7 DEF CountInv, Leaving, Leaves
<1>8. CASE ReclaimNow(t)
  <2>1. pc[t] = "now" /\ queue' = queue /\ life' = [life EXCEPT ![obj[t]] = "free"]
    BY <1>8 DEF ReclaimNow, Runs
  <2>2. QED
    BY <1>5, <1>7, <2>1
<1>9. CASE vfs_rcu_defer(t)
  <2>1. pc[t] = "release"
    BY <1>9 DEF vfs_rcu_defer, Runs
  <2>2. PICK p \in Objects : p = obj[t] /\ life[p] = "live"
    BY <1>7, <2>1
  <2>3. CASE ~rcu_up
    BY <1>4, <1>9, <2>3 DEF vfs_rcu_defer
  <2>4. CASE rcu_up
    <3>1. life' = [life EXCEPT ![p] = "queued"] /\ queue' = queue \cup {p}
      BY <1>9, <2>2, <2>4 DEF vfs_rcu_defer
    <3>2. life'[p] = "queued" /\ \A q \in Objects \ {p} : life'[q] = life[q]
      BY <1>3, <3>1
    <3>3. p \notin queue \cup batch
      BY <2>2 DEF BatchInv
    <3>4. \A q \in Objects : life'[q] = "queued" <=> q \in queue' \cup batch'
      BY <1>2, <3>1, <3>2 DEF BatchInv
    <3>5. queue' \cap batch' = {}
      BY <1>2, <3>1, <3>3 DEF BatchInv
    <3>6. QED
      BY <1>2, <3>4, <3>5 DEF BatchInv
  <2>5. QED
    BY <2>3, <2>4
<1>10. \/ life' = life /\ queue' = queue
       \/ vfs_rcu_defer(t) \/ ReclaimNow(t) \/ \E p \in Objects : vfs_cache_insert(t, p)
  BY UserKinds DEF Neutral, Takes, vfs_cache_invalidate, vfs_cache_put, vfs_page_evict
<1>11. QED
  BY <1>4, <1>6, <1>8, <1>9, <1>10

LEMMA UserDrainer ==
    ASSUME RcuTypeOK, CountInv, DrainerInv, NEW t \in Threads, UserStart(t) \/ UserStep(t)
    PROVE  DrainerInv'
<1>1. OthersStay(t) /\ UNCHANGED <<ack, ipi, dpc, arming, pending>>
  BY UserKinds DEF OnlyMoves
<1>2. CASE DeferWake(t)
  <2>1. dstate' = (IF on_wait THEN "running" ELSE dstate)
    BY <1>2 DEF DeferWake
  <2>2. dpc \in {"recheck", "yield"} => dstate' # "blocked"
    BY <2>1 DEF DrainerInv
  <2>3. QED
    BY <1>1, <2>2 DEF DrainerInv
<1>3. ASSUME pc[t] # "wake", UNCHANGED <<queue, on_wait, dstate>> PROVE DrainerInv'
  <2>1. (\E u \in Threads : pc[u] = "wake") => (\E u \in Threads : pc'[u] = "wake")
    BY <1>1, <1>3 DEF OthersStay
  <2>2. QED
    BY <1>1, <1>3, <2>1 DEF DrainerInv
<1>4. CASE vfs_rcu_defer(t)
  <2>1. pc[t] = "release" /\ UNCHANGED <<on_wait, dstate>>
    BY <1>4 DEF vfs_rcu_defer, Runs, sleepVars
  <2>2. CASE ~rcu_up
    BY <1>3, <1>4, <2>1, <2>2 DEF vfs_rcu_defer
  <2>3. CASE rcu_up
    <3>1. Move(t, "wake", None) /\ "wake" \in UserPcs
      BY <1>4, <2>3 DEF vfs_rcu_defer, UserPcs
    <3>2. pc'[t] = "wake"
      BY <3>1, MoveEffect
    <3>3. QED
      BY <1>1, <2>1, <3>2 DEF DrainerInv
  <2>4. QED
    BY <2>2, <2>3
<1>5. \/ DeferWake(t) \/ vfs_rcu_defer(t)
      \/ pc[t] # "wake" /\ UNCHANGED <<queue, on_wait, dstate>>
  BY UserKinds DEF Neutral, Takes, vfs_cache_insert, vfs_cache_invalidate, vfs_cache_put,
                   vfs_page_evict, ReclaimNow, Runs, sleepVars
<1>6. QED
  BY <1>2, <1>3, <1>4, <1>5

-----------------------------------------------------------------------------
(* The drainer's steps, the interrupts and the scheduler keep it *)

\* Everything but the pages' and the users' state is the drainer's to change.
DrainerKind ==
    /\ UNCHANGED <<run, pc, obj, rcu_up, indexed, refs, evicted>>
    /\ \/ life' = life
       \/ \E p \in Objects : vfs_rcu_reclaim(p)

LEMMA DrainerKinds ==
    ASSUME DrainerStep PROVE DrainerKind
<1>1. CASE vfs_rcu_detach
  BY <1>1 DEF vfs_rcu_detach, DrainerKind, Goto, userVars, objVars
<1>2. CASE BlockAdd
  BY <1>2 DEF BlockAdd, DrainerKind, Goto, userVars, objVars
<1>3. CASE BlockRecheck
  BY <1>3 DEF BlockRecheck, DrainerKind, Goto, userVars, objVars
<1>4. CASE BlockResume
  BY <1>4 DEF BlockResume, DrainerKind, Goto, userVars, objVars
<1>5. CASE SleepState
  BY <1>5 DEF SleepState, DrainerKind, Goto, userVars, objVars
<1>6. CASE SleepDeadline
  BY <1>6 DEF SleepDeadline, DrainerKind, Goto, userVars, objVars
<1>7. CASE SleepResume
  BY <1>7 DEF SleepResume, DrainerKind, Goto, userVars, objVars
<1>8. CASE vfs_rcu_grace_period
  BY <1>8 DEF vfs_rcu_grace_period, DrainerKind, Goto, userVars, objVars
<1>9. CASE BarrierLock
  BY <1>9 DEF BarrierLock, DrainerKind, Goto, userVars, objVars
<1>10. CASE vfs_rcu_wait_acks
  BY <1>10 DEF vfs_rcu_wait_acks, DrainerKind, Goto, userVars, objVars
<1>11. CASE \E c \in CPUs : Arm(c) \/ Send(c)
  BY <1>11 DEF Arm, Send, DrainerKind, Goto, userVars, objVars
<1>12. CASE \E p \in Objects : vfs_rcu_reclaim(p)
  BY <1>12 DEF vfs_rcu_reclaim, DrainerKind, Goto, userVars
<1>13. QED
  BY <1>1, <1>2, <1>3, <1>4, <1>5, <1>6, <1>7, <1>8, <1>9, <1>10, <1>11, <1>12 DEF DrainerStep

\* The other steps leave the objects, the queue and the drainer alone.
OutsideStep ==
    \/ DeadlineExpires \/ vfs_rcu_init
    \/ \E c \in CPUs : vfs_rcu_poll(c) \/ vfs_rcu_isr(c)
    \/ \E c \in CPUs, t \in Threads \cup {Drainer, None} : Switch(c, t)

LEMMA OutsideKind ==
    ASSUME OutsideStep
    PROVE  UNCHANGED <<pc, obj, indexed, refs, evicted, life, queue,
                       dpc, batch, self_id, arming, pending>>
BY DEF OutsideStep, DeadlineExpires, vfs_rcu_init, vfs_rcu_poll, vfs_rcu_isr, Switch,
       userVars, objVars, dVars

LEMMA DrainerType ==
    ASSUME RcuTypeOK, BatchInv, DrainerStep
    PROVE  RcuTypeOK'
<1> DEFINE Rest ==
      /\ queue' \subseteq Objects
      /\ ack' \in [CPUs -> BOOLEAN] /\ ipi' \in [CPUs -> BOOLEAN]
      /\ on_wait' \in BOOLEAN /\ timer' \in BOOLEAN
      /\ dstate' \in {"running", "blocked", "sleeping"}
      /\ dpc' \in DrainerPcs
      /\ batch' \subseteq Objects
      /\ self_id' \in CPUs \cup {None}
      /\ arming' \subseteq CPUs /\ pending' \subseteq CPUs
<1>1. /\ queue \subseteq Objects
      /\ ack \in [CPUs -> BOOLEAN] /\ ipi \in [CPUs -> BOOLEAN]
      /\ on_wait \in BOOLEAN /\ timer \in BOOLEAN
      /\ dstate \in {"running", "blocked", "sleeping"}
      /\ batch \subseteq Objects
      /\ self_id \in CPUs \cup {None}
      /\ arming \subseteq CPUs /\ pending \subseteq CPUs
  BY DEF RcuTypeOK
<1>2. {"detach", "add", "recheck", "yield", "sleep", "deadline", "nap",
       "grace", "lock", "arm", "send", "wait", "free"} \subseteq DrainerPcs
  BY DEF DrainerPcs
<1>3. life' \in [Objects -> {"free", "live", "queued"}]
  <2>1. life \in [Objects -> {"free", "live", "queued"}]
    BY DEF RcuTypeOK
  <2>2. ASSUME NEW p \in Objects, vfs_rcu_reclaim(p)
        PROVE  life' \in [Objects -> {"free", "live", "queued"}]
    <3>1. life' = [life EXCEPT ![p] = "free"]
      BY <2>2 DEF vfs_rcu_reclaim
    <3>2. QED
      BY SMT, <2>1, <3>1
  <2>3. QED
    BY <2>1, <2>2, DrainerKinds DEF DrainerKind
<1>4. ASSUME vfs_rcu_detach PROVE Rest
  BY <1>1, <1>2, <1>4 DEF vfs_rcu_detach, Goto, ipiVars, sleepVars
<1>5. ASSUME BlockAdd PROVE Rest
  BY <1>1, <1>2, <1>5 DEF BlockAdd, Goto, ipiVars
<1>6. ASSUME BlockRecheck PROVE Rest
  BY <1>1, <1>2, <1>6 DEF BlockRecheck, Goto, ipiVars
<1>7. ASSUME BlockResume PROVE Rest
  BY <1>1, <1>2, <1>7 DEF BlockResume, Goto, ipiVars
<1>8. ASSUME SleepState PROVE Rest
  BY <1>1, <1>2, <1>8 DEF SleepState, Goto, ipiVars
<1>9. ASSUME SleepDeadline PROVE Rest
  BY <1>1, <1>2, <1>9 DEF SleepDeadline, Goto, ipiVars
<1>10. ASSUME SleepResume PROVE Rest
  BY <1>1, <1>2, <1>10 DEF SleepResume, Goto, ipiVars, sleepVars
<1>11. ASSUME vfs_rcu_grace_period PROVE Rest
  BY <1>1, <1>2, <1>11 DEF vfs_rcu_grace_period, Goto, ipiVars, sleepVars
<1>12. ASSUME BarrierLock PROVE Rest
  BY <1>1, <1>2, <1>12 DEF BarrierLock, Goto, ipiVars, sleepVars
<1>13. ASSUME vfs_rcu_wait_acks PROVE Rest
  BY <1>1, <1>2, <1>13 DEF vfs_rcu_wait_acks, Goto, ipiVars, sleepVars
<1>14. ASSUME NEW c \in CPUs, Arm(c) PROVE Rest
  <2>1. ack' = [ack EXCEPT ![c] = TRUE]
    BY <1>14 DEF Arm
  <2>2. ack' \in [CPUs -> BOOLEAN]
    BY SMT, <1>1, <2>1
  <2>3. pending' \subseteq CPUs /\ arming' \subseteq CPUs
    BY <1>1, <1>14 DEF Arm
  <2>4. QED
    BY <1>1, <1>2, <1>14, <2>2, <2>3 DEF Arm, Goto, sleepVars
<1>15. ASSUME NEW c \in CPUs, Send(c) PROVE Rest
  <2>1. ipi' = [ipi EXCEPT ![c] = TRUE]
    BY <1>15 DEF Send
  <2>2. ipi' \in [CPUs -> BOOLEAN]
    BY SMT, <1>1, <2>1
  <2>3. QED
    BY <1>1, <1>2, <1>15, <2>2 DEF Send, Goto, sleepVars
<1>16. ASSUME NEW p \in Objects, vfs_rcu_reclaim(p) PROVE Rest
  BY <1>1, <1>2, <1>16 DEF vfs_rcu_reclaim, Goto, ipiVars, sleepVars
<1> HIDE DEF Rest
<1>17. Rest
  BY <1>4, <1>5, <1>6, <1>7, <1>8, <1>9, <1>10, <1>11, <1>12, <1>13, <1>14, <1>15, <1>16
     DEF DrainerStep
<1>18. QED
  BY <1>3, <1>17, DrainerKinds DEF DrainerKind, RcuTypeOK, Rest

LEMMA DrainerCount ==
    ASSUME RcuTypeOK, CountInv, BatchInv, DrainerStep
    PROVE  CountInv'
<1>1. CASE life' = life
  BY <1>1, DrainerKinds, CountFrame DEF DrainerKind
<1>2. ASSUME NEW p \in Objects, vfs_rcu_reclaim(p) PROVE CountInv'
  <2>1. life[p] = "queued" /\ life' = [life EXCEPT ![p] = "free"]
    BY <1>2 DEF vfs_rcu_reclaim, BatchInv
  <2>2. QED
    BY <2>1, DrainerKinds, ReclaimCount DEF DrainerKind
<1>3. QED
  BY <1>1, <1>2, DrainerKinds DEF DrainerKind

LEMMA DrainerBatch ==
    ASSUME RcuTypeOK, BatchInv, DrainerStep
    PROVE  BatchInv'
<1>1. CASE vfs_rcu_detach
  <2>1. batch = {} /\ batch' = queue /\ queue' = {} /\ life' = life
    BY <1>1 DEF vfs_rcu_detach, At, BatchInv, objVars
  <2>2. dpc' \in {"detach", "add", "recheck", "yield"} => batch' = {}
    BY <1>1 DEF vfs_rcu_detach, Goto
  <2>3. QED
    BY <2>1, <2>2 DEF BatchInv
<1>2. CASE SleepResume
  <2>1. batch' = batch \cup queue /\ queue' = {} /\ life' = life /\ dpc' = "grace"
    BY <1>2 DEF SleepResume, Goto, objVars
  <2>2. QED
    BY <2>1 DEF BatchInv
<1>3. ASSUME NEW p \in Objects, vfs_rcu_reclaim(p) PROVE BatchInv'
  <2>1. /\ p \in batch /\ batch' = batch \ {p} /\ queue' = queue
        /\ dpc' = (IF batch = {p} THEN "detach" ELSE "free")
    BY <1>3 DEF vfs_rcu_reclaim, Goto
  <2>2. life \in [Objects -> {"free", "live", "queued"}] /\ life' = [life EXCEPT ![p] = "free"]
    BY <1>3 DEF vfs_rcu_reclaim, RcuTypeOK
  <2>3. life'[p] = "free" /\ \A q \in Objects \ {p} : life'[q] = life[q]
    BY <2>2
  <2>4. \A q \in Objects : life'[q] = "queued" <=> q \in queue' \cup batch'
    BY <2>1, <2>3 DEF BatchInv
  <2>5. dpc' \in {"detach", "add", "recheck", "yield"} => batch' = {}
    BY <2>1
  <2>6. QED
    BY <2>1, <2>4, <2>5 DEF BatchInv
<1>4. ASSUME UNCHANGED <<life, queue, batch>>,
             dpc' \in {"detach", "add", "recheck", "yield"} =>
               dpc \in {"detach", "add", "recheck", "yield"}
      PROVE  BatchInv'
  BY <1>4 DEF BatchInv
<1>5. CASE BlockAdd
  BY <1>4, <1>5 DEF BlockAdd, At, Goto, objVars
<1>6. CASE BlockRecheck
  BY <1>4, <1>6 DEF BlockRecheck, At, Goto, objVars
<1>7. CASE BlockResume
  BY <1>4, <1>7 DEF BlockResume, At, Goto, objVars
<1>8. CASE SleepState
  BY <1>4, <1>8 DEF SleepState, Goto, objVars
<1>9. CASE SleepDeadline
  BY <1>4, <1>9 DEF SleepDeadline, Goto, objVars
<1>10. CASE vfs_rcu_grace_period
  BY <1>4, <1>10 DEF vfs_rcu_grace_period, Goto, objVars
<1>11. CASE BarrierLock
  BY <1>4, <1>11 DEF BarrierLock, Goto, objVars
<1>12. CASE vfs_rcu_wait_acks
  BY <1>4, <1>12 DEF vfs_rcu_wait_acks, Goto, objVars
<1>13. CASE \E c \in CPUs : Arm(c) \/ Send(c)
  BY <1>4, <1>13 DEF Arm, Send, Goto, objVars
<1>14. QED
  BY <1>1, <1>2, <1>3, <1>5, <1>6, <1>7, <1>8, <1>9, <1>10, <1>11, <1>12, <1>13 DEF DrainerStep

\* With one CPU the drainer is where every reader would have to be.
LEMMA OneCpu ==
    ASSUME Cardinality(CPUs) <= 1, NEW c \in CPUs, NEW d \in CPUs
    PROVE  c = d
<1>1. SUFFICES ASSUME c # d PROVE FALSE
  OBVIOUS
<1>2. IsFiniteSet({c}) /\ Cardinality({c}) = 1 /\ d \notin {c}
  BY <1>1, FS_Singleton
<1>3. Cardinality({c} \cup {d}) = Cardinality({c}) + 1
  BY <1>2, FS_AddElement
<1>4. {c} \cup {d} \in SUBSET CPUs
  OBVIOUS
<1>5. Cardinality({c} \cup {d}) <= Cardinality(CPUs) /\ Cardinality(CPUs) \in Nat
  BY <1>4, VfsRcuConstants, FS_Subset, FS_CardinalityType
<1>6. QED
  BY SMT, <1>2, <1>3, <1>5

LEMMA DrainerGrace ==
    ASSUME RcuTypeOK, BatchInv, GraceInv, DrainerStep
    PROVE  GraceInv'
<1>1. UNCHANGED <<run, pc, obj, rcu_up>>
  BY DrainerKinds DEF DrainerKind
<1>2. ASSUME NEW c \in CPUs, NEW t \in Threads, run[c] = t, pc[t] = "raw",
             obj[t] \in batch' \ Nodes
      PROVE  Awaited(c)'
  <2>1. obj[t] \in batch => Awaited(c)
    BY <1>2 DEF GraceInv
  <2>2. run[c] # Drainer
    BY <1>2, VfsRcuConstants
  <2>3. ASSUME dpc' \in {"detach", "add", "recheck", "yield", "sleep", "deadline", "nap", "grace"}
        PROVE  Awaited(c)'
    BY <2>3 DEF Awaited
  <2>4. CASE vfs_rcu_detach
    BY <2>3, <2>4 DEF vfs_rcu_detach, Goto
  <2>5. CASE BlockAdd \/ BlockRecheck \/ BlockResume
    BY <2>3, <2>5 DEF BlockAdd, BlockRecheck, BlockResume, Goto
  <2>6. CASE SleepState \/ SleepDeadline \/ SleepResume
    BY <2>3, <2>6 DEF SleepState, SleepDeadline, SleepResume, Goto
  <2>7. CASE vfs_rcu_grace_period
    <3>1. CASE Cardinality(CPUs) <= 1
      <4>1. PICK d \in CPUs : run[d] = Drainer
        BY <2>7 DEF vfs_rcu_grace_period, At
      <4>2. QED
        BY <2>2, <3>1, <4>1, OneCpu
    <3>2. CASE ~(Cardinality(CPUs) <= 1)
      <4>1. dpc' = "lock" /\ run[self_id'] = Drainer
        BY <2>7, <3>2 DEF vfs_rcu_grace_period, Goto
      <4>2. QED
        BY <2>2, <4>1 DEF Awaited
    <3>3. QED
      BY <3>1, <3>2
  <2>8. CASE BarrierLock
    <3>1. /\ dpc = "lock" /\ dpc' = "arm" /\ batch' = batch /\ self_id' = self_id
          /\ arming' = CPUs \ {self_id}
      BY <2>8 DEF BarrierLock, At, Goto
    <3>2. c # self_id
      BY <1>2, <2>1, <3>1 DEF Awaited
    <3>3. QED
      BY <3>1, <3>2 DEF Awaited
  <2>9. ASSUME NEW x \in CPUs, Arm(x) PROVE Awaited(c)'
    <3>1. /\ dpc = "arm" /\ batch' = batch /\ self_id' = self_id
          /\ pending' = pending \cup {x} /\ ack' = [ack EXCEPT ![x] = TRUE]
          /\ dpc' = (IF arming = {x} THEN "send" ELSE "arm")
          /\ arming' = (IF arming = {x} THEN pending' ELSE arming \ {x})
      BY <2>9 DEF Arm, At, Goto
    <3>2. c # self_id /\ (c \in arming \/ (c \in pending /\ ack[c]))
      BY <1>2, <2>1, <3>1 DEF Awaited
    <3>3. ack'[x] /\ (c # x => ack'[c] = ack[c])
      BY <3>1 DEF RcuTypeOK
    <3>4. CASE c = x \/ (c \in pending /\ ack[c])
      <4>1. c \in pending' /\ ack'[c]
        BY <3>1, <3>3, <3>4
      <4>2. QED
        BY <3>1, <3>2, <4>1 DEF Awaited
    <3>5. CASE c # x /\ c \in arming
      <4>1. dpc' = "arm" /\ c \in arming'
        BY <3>1, <3>5
      <4>2. QED
        BY <3>1, <3>2, <4>1 DEF Awaited
    <3>6. QED
      BY <3>2, <3>4, <3>5
  <2>10. ASSUME NEW x \in CPUs, Send(x) PROVE Awaited(c)'
    <3>1. /\ dpc = "send" /\ batch' = batch /\ pending' = pending /\ ack' = ack
          /\ dpc' \in {"wait", "send"}
      BY <2>10 DEF Send, At, Goto
    <3>2. c \in pending /\ ack[c]
      BY <1>2, <2>1, <3>1 DEF Awaited
    <3>3. QED
      BY <3>1, <3>2 DEF Awaited
  <2>11. CASE vfs_rcu_wait_acks
    <3>1. /\ dpc = "wait" /\ batch' = batch /\ ack' = ack
          /\ pending' = {x \in pending : ack[x]}
          /\ dpc' = (IF pending' = {} THEN "free" ELSE "wait")
      BY <2>11 DEF vfs_rcu_wait_acks, At, Goto, ipiVars
    <3>2. c \in pending /\ ack[c]
      BY <1>2, <2>1, <3>1 DEF Awaited
    <3>3. c \in pending' /\ dpc' = "wait"
      BY <3>1, <3>2
    <3>4. QED
      BY <3>1, <3>2, <3>3 DEF Awaited
  <2>12. ASSUME NEW p \in Objects, vfs_rcu_reclaim(p) PROVE Awaited(c)'
    <3>1. dpc = "free" /\ batch' = batch \ {p}
      BY <2>12 DEF vfs_rcu_reclaim, At
    <3>2. QED
      BY <1>2, <2>1, <3>1 DEF Awaited
  <2>13. QED
    BY <2>4, <2>5, <2>6, <2>7, <2>8, <2>9, <2>10, <2>11, <2>12 DEF DrainerStep
<1>3. QED
  BY <1>1, <1>2 DEF GraceInv, ReaderMasked

LEMMA DrainerRawAlive ==
    ASSUME RcuTypeOK, CountInv, GraceInv, RawInv, DrainerStep
    PROVE  RawInv'
<1>1. UNCHANGED <<pc, obj>>
  BY DrainerKinds DEF DrainerKind
<1>2. CASE life' = life
  BY <1>1, <1>2 DEF RawInv
<1>3. ASSUME NEW p \in Objects, vfs_rcu_reclaim(p),
             NEW t \in Threads, pc[t] = "raw", obj[t] \notin Nodes
      PROVE  life'[obj[t]] # "free"
  <2>1. dpc = "free" /\ p \in batch
    BY <1>3 DEF vfs_rcu_reclaim, At
  <2>2. PICK c \in CPUs : run[c] = t
    BY <1>3 DEF GraceInv, ReaderMasked
  <2>3. obj[t] # p
    BY <1>3, <2>1, <2>2 DEF GraceInv, Awaited
  <2>4. /\ life \in [Objects -> {"free", "live", "queued"}]
        /\ life' = [life EXCEPT ![p] = "free"] /\ obj[t] \in Objects
    BY <1>3 DEF vfs_rcu_reclaim, RcuTypeOK, CountInv
  <2>5. QED
    BY <1>3, <2>3, <2>4 DEF RawInv
<1>4. QED
  BY <1>1, <1>2, <1>3, DrainerKinds DEF DrainerKind, RawInv

LEMMA DrainerSleeps ==
    ASSUME RcuTypeOK, DrainerInv, DrainerStep
    PROVE  DrainerInv'
<1>1. pc' = pc
  BY DrainerKinds DEF DrainerKind
<1>2. ASSUME dpc' \notin {"recheck", "yield", "send", "wait"} PROVE DrainerInv'
  BY <1>2 DEF DrainerInv
<1>3. CASE vfs_rcu_detach
  BY <1>2, <1>3 DEF vfs_rcu_detach, Goto
<1>4. CASE BlockAdd
  BY <1>4 DEF BlockAdd, Goto, DrainerInv
<1>5. CASE BlockRecheck
  <2>1. CASE queue = {}
    BY <1>5, <2>1 DEF BlockRecheck, At, Goto, DrainerInv
  <2>2. CASE queue # {}
    BY <1>2, <1>5, <2>2 DEF BlockRecheck, Goto
  <2>3. QED
    BY <2>1, <2>2
<1>6. CASE BlockResume \/ SleepState \/ SleepDeadline \/ SleepResume
  BY <1>2, <1>6 DEF BlockResume, SleepState, SleepDeadline, SleepResume, Goto
<1>7. CASE vfs_rcu_grace_period \/ BarrierLock
  BY <1>2, <1>7 DEF vfs_rcu_grace_period, BarrierLock, Goto
<1>8. CASE vfs_rcu_wait_acks
  <2>1. /\ dpc = "wait" /\ UNCHANGED <<ack, ipi, arming>> /\ pending' \subseteq pending
        /\ dpc' \in {"free", "wait"}
    BY <1>8 DEF vfs_rcu_wait_acks, At, Goto, ipiVars
  <2>2. QED
    BY <2>1 DEF DrainerInv
<1>9. ASSUME NEW x \in CPUs, Arm(x) PROVE DrainerInv'
  <2>1. /\ dpc' = (IF arming = {x} THEN "send" ELSE "arm")
        /\ arming = {x} => arming' = pending'
    BY <1>9 DEF Arm, Goto
  <2>2. QED
    BY <2>1 DEF DrainerInv
<1>10. ASSUME NEW x \in CPUs, Send(x) PROVE DrainerInv'
  <2>1. /\ dpc = "send" /\ UNCHANGED <<ack, pending>> /\ arming' = arming \ {x}
        /\ ipi' = [ipi EXCEPT ![x] = TRUE] /\ ipi \in [CPUs -> BOOLEAN]
        /\ dpc' = (IF arming = {x} THEN "wait" ELSE "send")
    BY <1>10 DEF Send, At, Goto, RcuTypeOK
  <2>2. ipi'[x] /\ \A c \in CPUs \ {x} : ipi'[c] = ipi[c]
    BY <2>1
  <2>3. \A c \in pending' \ arming' : ack'[c] => ipi'[c]
    BY <2>1, <2>2 DEF DrainerInv, RcuTypeOK
  <2>4. dpc' = "wait" => arming' = {}
    BY <2>1
  <2>5. QED
    BY <2>1, <2>3, <2>4 DEF DrainerInv
<1>11. ASSUME NEW p \in Objects, vfs_rcu_reclaim(p) PROVE DrainerInv'
  BY <1>2, <1>11 DEF vfs_rcu_reclaim, Goto
<1>12. QED
  BY <1>3, <1>4, <1>5, <1>6, <1>7, <1>8, <1>9, <1>10, <1>11 DEF DrainerStep

\* An interrupt or a switch never takes a reader off its CPU or answers for it.
LEMMA OutsideInv ==
    ASSUME RcuTypeOK, CountInv, BatchInv, GraceInv, DrainerInv, OutsideStep
    PROVE  RcuTypeOK' /\ CountInv' /\ BatchInv' /\ GraceInv' /\ DrainerInv'
<1>1. UNCHANGED <<pc, obj, indexed, refs, evicted, life, queue,
                  dpc, batch, self_id, arming, pending>>
  BY OutsideKind
<1>2. CountInv'
  BY <1>1, CountFrame
<1>3. BatchInv'
  BY <1>1 DEF BatchInv
<1>4. /\ ack \in [CPUs -> BOOLEAN] /\ ipi \in [CPUs -> BOOLEAN]
      /\ run \in [CPUs -> Threads \cup {Drainer, None}]
      /\ on_wait \in BOOLEAN /\ timer \in BOOLEAN /\ rcu_up \in BOOLEAN
      /\ dstate \in {"running", "blocked", "sleeping"}
  BY DEF RcuTypeOK
<1>5. ASSUME run' \in [CPUs -> Threads \cup {Drainer, None}], rcu_up' \in BOOLEAN,
             ack' \in [CPUs -> BOOLEAN], ipi' \in [CPUs -> BOOLEAN],
             on_wait' \in BOOLEAN, timer' \in BOOLEAN,
             dstate' \in {"running", "blocked", "sleeping"}
      PROVE  RcuTypeOK'
  BY <1>1, <1>5 DEF RcuTypeOK
\* Readers keep their CPU, and its answer stays due.
<1>6. ASSUME rcu_up => rcu_up',
             \A c \in CPUs, t \in Threads : ReaderMasked(t) => (run'[c] = t <=> run[c] = t),
             \A c \in CPUs, t \in Threads : ReaderMasked(t) /\ run[c] = t => ack'[c] = ack[c]
      PROVE  GraceInv'
  <2>1. ASSUME NEW c \in CPUs, NEW t \in Threads, run'[c] = t, pc[t] = "raw",
               obj[t] \in batch \ Nodes
        PROVE  Awaited(c)'
    <3>1. ReaderMasked(t)
      BY <2>1 DEF ReaderMasked
    <3>2. run[c] = t /\ ack'[c] = ack[c]
      BY <1>6, <2>1, <3>1
    <3>3. Awaited(c)
      BY <2>1, <3>2 DEF GraceInv
    <3>4. QED
      BY <1>1, <3>2, <3>3 DEF Awaited
  <2>2. \A t \in Threads : ReaderMasked(t)' => \E c \in CPUs : run'[c] = t
    <3>1. \A t \in Threads : ReaderMasked(t)' => ReaderMasked(t)
      BY <1>1 DEF ReaderMasked
    <3>2. QED
      BY <1>6, <3>1 DEF GraceInv
  <2>3. QED
    BY <1>1, <1>6, <2>1, <2>2 DEF GraceInv
<1>7. ASSUME UNCHANGED <<on_wait, dstate>> \/ dpc = "nap",
             \A c \in CPUs : (ack[c] => ipi[c]) => (ack'[c] => ipi'[c])
      PROVE  DrainerInv'
  <2>1. \A c \in pending' \ arming' : c \in CPUs
    BY <1>1 DEF RcuTypeOK
  <2>2. dpc \in {"send", "wait"} => \A c \in pending' \ arming' : ack'[c] => ipi'[c]
    BY <1>1, <1>7, <2>1 DEF DrainerInv
  <2>3. dpc \in {"recheck", "yield"} => UNCHANGED <<on_wait, dstate>>
    BY <1>7
  <2>4. QED
    BY <1>1, <2>2, <2>3 DEF DrainerInv
<1>8. CASE DeadlineExpires
  <2>1. /\ UNCHANGED <<run, rcu_up, ack, ipi, on_wait>> /\ dpc = "nap"
        /\ timer' = FALSE /\ dstate' = "running"
    BY <1>8 DEF DeadlineExpires, ipiVars
  <2>2. QED
    BY <1>2, <1>3, <1>4, <1>5, <1>6, <1>7, <2>1
<1>9. CASE vfs_rcu_init
  <2>1. UNCHANGED <<run, ack, ipi, on_wait, dstate, timer>> /\ rcu_up' = TRUE
    BY <1>9 DEF vfs_rcu_init, ipiVars, sleepVars
  <2>2. QED
    BY <1>2, <1>3, <1>4, <1>5, <1>6, <1>7, <2>1
<1>10. ASSUME NEW x \in CPUs, vfs_rcu_poll(x) \/ vfs_rcu_isr(x)
       PROVE  RcuTypeOK' /\ GraceInv' /\ DrainerInv'
  <2>1. /\ UNCHANGED <<run, rcu_up, on_wait, dstate, timer>>
        /\ ack' = [ack EXCEPT ![x] = FALSE]
        /\ ipi' = ipi \/ ipi' = [ipi EXCEPT ![x] = FALSE]
    BY <1>10 DEF vfs_rcu_poll, vfs_rcu_isr, sleepVars
  <2>2. ack' \in [CPUs -> BOOLEAN] /\ ipi' \in [CPUs -> BOOLEAN]
    <3>1. \A f \in [CPUs -> BOOLEAN] : [f EXCEPT ![x] = FALSE] \in [CPUs -> BOOLEAN]
      BY SMT
    <3>2. QED
      BY <1>4, <2>1, <3>1
  <2>3. ~ack'[x] /\ \A c \in CPUs \ {x} : ack'[c] = ack[c] /\ ipi'[c] = ipi[c]
    BY <1>4, <2>1
  <2>4. ASSUME NEW t \in Threads, ReaderMasked(t), run[x] = t PROVE FALSE
    BY <1>10, <2>4 DEF vfs_rcu_poll, vfs_rcu_isr, Masked, ReaderMasked
  <2>5. GraceInv'
    BY <1>6, <2>1, <2>3, <2>4
  <2>6. DrainerInv'
    BY <1>7, <2>1, <2>3
  <2>7. QED
    BY <1>4, <1>5, <2>1, <2>2, <2>5, <2>6
<1>11. ASSUME NEW x \in CPUs, NEW t \in Threads \cup {Drainer, None}, Switch(x, t)
       PROVE  RcuTypeOK' /\ GraceInv' /\ DrainerInv'
  <2>1. /\ UNCHANGED <<rcu_up, ack, ipi, on_wait, dstate, timer>>
        /\ run' = [run EXCEPT ![x] = t] /\ ~Masked(x)
        /\ t # None => \A d \in CPUs : run[d] # t
    BY <1>11 DEF Switch, ipiVars, sleepVars
  <2>2. run' \in [CPUs -> Threads \cup {Drainer, None}]
    BY SMT, <1>4, <2>1
  <2>3. run'[x] = t /\ \A c \in CPUs \ {x} : run'[c] = run[c]
    BY <1>4, <2>1
  <2>4. ASSUME NEW c \in CPUs, NEW u \in Threads, ReaderMasked(u)
        PROVE  run'[c] = u <=> run[c] = u
    <3>1. CASE c # x
      BY <2>3, <3>1
    <3>2. CASE c = x
      <4>1. run[x] # u
        BY <2>1, <2>4 DEF Masked
      <4>2. u # t
        BY <2>1, <2>4, VfsRcuConstants DEF GraceInv
      <4>3. QED
        BY <2>3, <3>2, <4>1, <4>2
    <3>3. QED
      BY <3>1, <3>2
  <2>5. GraceInv'
    BY <1>6, <2>1, <2>4
  <2>6. DrainerInv'
    BY <1>7, <2>1
  <2>7. QED
    BY <1>4, <1>5, <2>1, <2>2, <2>5, <2>6
<1>12. QED
  BY <1>2, <1>3, <1>8, <1>9, <1>10, <1>11 DEF OutsideStep

-----------------------------------------------------------------------------
(* The theorems *)

LEMMA RcuInitInv == RcuInit => RcuInv
<1> SUFFICES ASSUME RcuInit PROVE RcuInv
  OBVIOUS
<1>1. \A t \in Threads : pc[t] = "idle"
  BY DEF RcuInit
<1>2. RcuTypeOK
  <2>1. 0 \in Nat
    BY SMT
  <2>2. "idle" \in UserPcs /\ "detach" \in DrainerPcs
    BY DEF UserPcs, DrainerPcs
  <2>3. QED
    BY <2>1, <2>2 DEF RcuInit, RcuTypeOK
<1>3. CountInv
  <2>1. \A t \in Threads : ~Leaving(t) /\ pc[t] # "hold" /\ pc[t] # "raw"
    BY <1>1 DEF Leaving
  <2>2. ASSUME NEW p \in Objects PROVE refs[p] = Cardinality(Holders(p))
    <3>1. ~Unlinking(p) /\ p \notin indexed
      BY <1>1 DEF Unlinking, RcuInit
    <3>2. \A h : h \notin Holders(p)
      BY <3>1, <2>1, HoldersMember
    <3>3. Holders(p) = {}
      BY <3>2
    <3>4. refs[p] = 0
      BY DEF RcuInit
    <3>5. QED
      BY <3>3, <3>4, FS_EmptySet
  <2>3. QED
    BY <2>1, <2>2 DEF CountInv, RcuInit
<1>4. BatchInv
  BY DEF BatchInv, RcuInit
<1>5. GraceInv
  BY <1>1 DEF GraceInv, ReaderMasked
<1>6. DrainerInv
  BY DEF DrainerInv, RcuInit
<1>7. RawInv
  BY <1>1 DEF RawInv
<1>8. QED
  BY <1>2, <1>3, <1>4, <1>5, <1>6, <1>7 DEF RcuInv

LEMMA RcuNextInv == RcuInv /\ [RcuNext]_rcuVars => RcuInv'
<1> SUFFICES ASSUME RcuInv, [RcuNext]_rcuVars PROVE RcuInv'
  OBVIOUS
<1> USE DEF RcuInv
<1>1. ASSUME NEW t \in Threads, UserStart(t) \/ UserStep(t) PROVE RcuInv'
  BY <1>1, UserTypeCount, UserGrace, UserRawAlive, UserBatch, UserDrainer
<1>2. CASE DrainerStep
  BY <1>2, DrainerType, DrainerCount, DrainerBatch, DrainerGrace, DrainerRawAlive, DrainerSleeps
<1>3. CASE OutsideStep
  <2>1. RawInv'
    BY <1>3, OutsideKind DEF RawInv
  <2>2. QED
    BY <1>3, <2>1, OutsideInv
<1>4. CASE UNCHANGED rcuVars
  <2>1. UNCHANGED <<pc, obj, indexed, refs, evicted, life>>
    BY <1>4 DEF rcuVars, userVars, objVars
  <2>2. UNCHANGED <<run, rcu_up, queue, ack, ipi, on_wait, dstate, timer, dpc, batch,
                    self_id, arming, pending>>
    BY <1>4 DEF rcuVars, ipiVars, sleepVars, dVars
  <2>3. CountInv'
    BY <2>1, CountFrame
  <2>4. RcuTypeOK' /\ BatchInv'
    BY <2>1, <2>2 DEF RcuTypeOK, BatchInv
  <2>5. GraceInv'
    BY <2>1, <2>2 DEF GraceInv, ReaderMasked, Awaited
  <2>6. DrainerInv' /\ RawInv'
    BY <2>1, <2>2 DEF DrainerInv, RawInv
  <2>7. QED
    BY <2>3, <2>4, <2>5, <2>6
<1>5. QED
  BY <1>1, <1>2, <1>3, <1>4 DEF RcuNext, OutsideStep

LEMMA RcuInvariant == RcuSpec => []RcuInv
<1>1. QED
  BY RcuInitInv, RcuNextInv, PTL DEF RcuSpec

(* No grace period ends while a page lookup that began before it is under    *)
(* way: what vfs_rcu_worker() frees, or a release with the engine down, no    *)
(* masked reader of the page cache still points to.                          *)
THEOREM RcuRawPageAlive == RcuSpec => []RawPageAlive
<1>1. RcuInv => RawPageAlive
  BY DEF RcuInv, RawInv, RawPageAlive
<1>2. QED
  BY <1>1, RcuInvariant, PTL

(* What an index or a caller of vfs_cache_lookup() holds is live: the count   *)
(* is the number of its holders.                                             *)
THEOREM RcuReferencePins == RcuSpec => []ReferencePins
<1>1. RcuInv => ReferencePins
  <2> SUFFICES ASSUME RcuInv PROVE ReferencePins
    OBVIOUS
  <2>1. CountInv
    BY DEF RcuInv
  <2>2. ASSUME NEW t \in Threads, pc[t] = "hold" PROVE life[obj[t]] = "live"
    <3>1. obj[t] \in Objects /\ t \in Holders(obj[t])
      BY <2>1, <2>2, HoldersMember DEF CountInv
    <3>2. Cardinality(Holders(obj[t])) # 0
      BY <3>1, HoldersFinite, FS_EmptySet
    <3>3. QED
      BY <2>1, <3>1, <3>2 DEF CountInv
  <2>3. ASSUME NEW t \in Threads, pc[t] = "unlinked" PROVE life[obj[t]] = "live"
    BY <2>1, <2>3 DEF CountInv, Leaving, Leaves
  <2>4. QED
    BY <2>1, <2>2, <2>3 DEF ReferencePins, CountInv
<1>2. QED
  BY <1>1, RcuInvariant, PTL

(* Of a put and an evict that race, one alone releases the object, and it is *)
(* live when it does.                                                        *)
THEOREM RcuReleasedOnce == RcuSpec => []ReleasedOnce
<1>1. RcuInv => ReleasedOnce
  <2> SUFFICES ASSUME RcuInv PROVE ReleasedOnce
    OBVIOUS
  <2>1. \A t \in Threads : pc[t] \in {"release", "now"} => Leaving(t)
    BY DEF Leaving
  <2>2. \A t \in Threads : Leaving(t) => Leaves(t)
    BY DEF RcuInv, CountInv
  <2>3. QED
    BY <2>1, <2>2 DEF ReleasedOnce, Leaves
<1>2. QED
  BY <1>1, RcuInvariant, PTL

(* The drainer never sleeps on a queue whose wake is over, and the interrupt *)
(* is pending on each CPU it still waits for.                                *)
THEOREM RcuDrainerGetsOn == RcuSpec => []DrainerGetsOn
<1>1. RcuInv => DrainerGetsOn
  BY DEF RcuInv, DrainerInv, DrainerGetsOn
<1>2. QED
  BY <1>1, RcuInvariant, PTL

=============================================================================
