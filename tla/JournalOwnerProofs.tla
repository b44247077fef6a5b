------------------------- MODULE JournalOwnerProofs -------------------------
(* OneOwner, LockNotStranded, NoIdleChain and FirstComeFirstServed for every *)
(* number of threads, handles and kills.                                     *)
EXTENDS JournalOwner, TLAPS

\* The leaves are first order; the ones that cite SMT need arithmetic or types.
USE ZenonT(30)

\* The journal starts free.
LEMMA OwnerInitInv == OwnerInit => HolderInv
<1>1. OwnerInit => HolderTypes
  BY DEF OwnerInit, HolderTypes, Places, Procs
<1>2. OwnerInit => \A p \in Procs : ~Holds(p)
  BY JournalOwnerConstants DEF OwnerInit, Holds, Owns, Owning, Granting, Procs
<1>3. QED
  BY <1>1, <1>2, JournalOwnerConstants
  DEF OwnerInit, HolderInv, OneHolder, RecordInv, ReapInv, Procs, Live

\* A live thread that holds nothing moves to a place where it holds nothing:
\* begin, read active, park, recheck, wake, give up.
LEMMA OutsideStep ==
    ASSUME HolderInv, NEW t \in Threads, Live(t), place[t] \notin Owning \cup {"take"},
           NEW l \in Places \ Owning, l = "take" => granted_tid = t, Goto(t, l),
           state' \in [Threads -> {"RUNNING", "BLOCKED", "DEAD"}],
           \A u \in Threads : Live(u)' <=> Live(u),
           UNCHANGED <<active, owner_tid, granted_tid, lock, reapVars>>
    PROVE  HolderInv'
<1>1. HolderTypes'
  BY DEF HolderInv, HolderTypes, Goto, Procs, reapVars
<1>2. /\ place'[t] = l /\ \A p \in Procs \ {t} : place'[p] = place[p]
      /\ t # Reaper /\ t \in Procs /\ Reaper \in Procs
  BY JournalOwnerConstants DEF HolderInv, HolderTypes, Goto, Procs
<1>3. \A p \in Procs : Holds(p)' <=> Holds(p)
  BY <1>2 DEF Holds, Owns, Owning, reapVars, Procs
<1>4. OneHolder'
  BY <1>3 DEF HolderInv, OneHolder
<1>5. RecordInv'
  BY <1>2, <1>3 DEF HolderInv, RecordInv, reapVars, Procs, Owning, Granting
<1>6. ReapInv'
  BY <1>2, <1>3 DEF HolderInv, HolderTypes, ReapInv, reapVars, Procs
<1>7. QED
  BY <1>1, <1>4, <1>5, <1>6 DEF HolderInv

\* A live thread that holds the transaction, or finds the lock free, moves to
\* a place of the owner: try the lock, take a grant, publish, stage, commit.
LEMMA InsideStep ==
    ASSUME HolderInv, NEW t \in Threads, Live(t), Holds(t) \/ ~lock,
           NEW l \in Owning \ {"g_active", "g_unlock"}, Goto(t, l),
           lock' = TRUE, active' \in BOOLEAN,
           granted_tid' = None \/ (granted_tid' = granted_tid /\ (place[t] \in Owning \/ ~lock)),
           owner_tid' \in {owner_tid, t},
           state' \in [Threads -> {"RUNNING", "BLOCKED", "DEAD"}],
           \A u \in Threads : Live(u)' <=> Live(u),
           UNCHANGED reapVars
    PROVE  HolderInv'
<1>1. HolderTypes'
  BY DEF HolderInv, HolderTypes, Goto, Procs, reapVars, Places
<1>2. /\ place'[t] = l /\ \A p \in Procs \ {t} : place'[p] = place[p]
      /\ t # Reaper /\ t \in Procs /\ Reaper \in Procs
  BY JournalOwnerConstants DEF HolderInv, HolderTypes, Goto, Procs
<1>3. \A p \in Procs \ {t} : ~Holds(p)
  BY <1>2 DEF HolderInv, OneHolder
<1>4. \A p \in Procs \ {t} : ~Holds(p)'
  BY <1>2, <1>3, JournalOwnerConstants DEF Holds, Owns, reapVars, Procs
<1>5. Holds(t)'
  BY <1>2 DEF Holds, Owns
<1>6. OneHolder'
  BY <1>4 DEF OneHolder
<1>7. place[Reaper] # "grant"
  BY <1>2, <1>3 DEF Holds, Owns, Granting
<1>8. RecordInv'
  <2>1. \A u \in Threads : Live(u)' /\ place'[u] = "take" => granted_tid' = u
    <3>1. SUFFICES ASSUME NEW u \in Threads, Live(u), place'[u] = "take"
                   PROVE  granted_tid' = u
      OBVIOUS
    <3>2. u # t
      BY <1>2, <3>1 DEF Owning, Granting
    <3>3. granted_tid = u
      BY <1>2, <3>1, <3>2 DEF HolderInv, RecordInv, Procs
    <3>4. Holds(u)
      BY <3>3 DEF Holds, Owns
    <3>5. QED
      BY <1>3, <3>2, <3>4 DEF Procs
  <2>2. \A u \in Threads \ reaped : owner_tid' = u => u = t
    BY <1>3, <1>7 DEF HolderInv, RecordInv, Procs
  <2>3. \A u \in Threads : granted_tid' # u
    <3>1. SUFFICES ASSUME NEW u \in Threads, granted_tid' = u PROVE FALSE
      OBVIOUS
    <3>2. granted_tid = u /\ Holds(u)
      BY <3>1, JournalOwnerConstants DEF Holds, Owns
    <3>3. QED
      BY <1>3, <3>1, <3>2, JournalOwnerConstants DEF HolderInv, OneHolder, RecordInv, Procs
  <2>4. QED
    BY <1>2, <1>4, <1>5, <2>1, <2>2, <2>3 DEF RecordInv, reapVars
<1>9. ReapInv'
  <2>1. place[Reaper] # "abort"
    BY <1>2, <1>3 DEF HolderInv, ReapInv, Procs
  <2>2. QED
    BY <1>2, <2>1 DEF HolderInv, HolderTypes, ReapInv, reapVars
<1>10. QED
  BY <1>1, <1>6, <1>8, <1>9 DEF HolderInv

\* No process moves; a thread may be woken or killed.
LEMMA StateStep ==
    ASSUME HolderInv, UNCHANGED <<active, owner_tid, granted_tid, lock, place, reapVars>>,
           state' \in [Threads -> {"RUNNING", "BLOCKED", "DEAD"}],
           \A u \in Threads : Live(u)' => Live(u)
    PROVE  HolderInv'
<1>1. HolderTypes'
  BY DEF HolderInv, HolderTypes, reapVars
<1>2. \A p \in Procs : Holds(p)' <=> Holds(p)
  <2>1. \A p \in Threads : Live(p) /\ place[p] \in Owning =>
          p \notin reaped /\ ~(victim = p /\ place[Reaper] \in Granting \cup {"g_end"})
    BY DEF HolderInv, ReapInv, Granting
  <2>2. QED
    BY <2>1 DEF Holds, Owns, reapVars
<1>3. OneHolder' /\ RecordInv'
  BY <1>2 DEF HolderInv, OneHolder, RecordInv, reapVars, Procs
<1>4. ReapInv'
  BY <1>2 DEF HolderInv, HolderTypes, ReapInv, reapVars, Procs
<1>5. QED
  BY <1>1, <1>3, <1>4 DEF HolderInv

\* The holder records and grants the oldest live waiter, or nobody.
LEMMA GrantNextStep ==
    ASSUME HolderInv, NEW p \in Procs, p \in Threads => Live(p), ext3_grant_next(p)
    PROVE  HolderInv'
<1>1. /\ place[p] = "grant" /\ UNCHANGED <<active, lock, reapVars>>
      /\ Reaper \in Procs /\ Reaper \notin Threads
  BY JournalOwnerConstants DEF ext3_grant_next, Procs
<1>2. Holds(p) /\ \A q \in Procs \ {p} : ~Holds(q)
  BY <1>1 DEF HolderInv, OneHolder, Holds, Owns, Owning, Granting, Procs
<1>3. lock
  BY <1>2 DEF HolderInv, OneHolder
<1>4. \A t \in Threads : Live(t) => t \notin reaped /\ (place[Reaper] # "idle" => t # victim)
  BY DEF HolderInv, ReapInv
<1>5. place[Reaper] # "abort"
  BY <1>1, <1>2, <1>4 DEF HolderInv, ReapInv, Procs
<1>6. CASE \E w \in Threads :
             /\ Receives(w)
             /\ owner_tid' = w /\ granted_tid' = w
             /\ state' = [state EXCEPT ![w] = IF @ = "BLOCKED" THEN "RUNNING" ELSE @]
             /\ Goto(p, "g_end")
  <2>1. PICK w \in Threads :
             /\ Live(w) /\ owner_tid' = w /\ granted_tid' = w
             /\ state' = [state EXCEPT ![w] = IF @ = "BLOCKED" THEN "RUNNING" ELSE @]
             /\ Goto(p, "g_end")
    BY <1>6 DEF Receives
  <2>2. HolderTypes'
    BY <1>1, <2>1 DEF HolderInv, HolderTypes, Goto, reapVars, Places
  <2>3. /\ place'[p] = "g_end" /\ \A q \in Procs \ {p} : place'[q] = place[q]
        /\ \A u \in Threads : Live(u)' <=> Live(u)
    BY <2>1 DEF HolderInv, HolderTypes, Goto, Live
  <2>4. \A q \in Procs : Holds(q)' <=> q = w
    <3>1. ASSUME NEW q \in Procs \ {p, w} PROVE ~Holds(q)'
      <4>1. ~Holds(q)
        BY <1>2
      <4>2. CASE p = Reaper
        BY <1>1, <2>1, <2>3, <4>1, <4>2 DEF Holds, Owns, Granting, reapVars, Procs
      <4>3. CASE p # Reaper
        BY <1>1, <2>1, <2>3, <4>1, <4>3 DEF Holds, Owns, Granting, reapVars, Procs
      <4>4. QED
        BY <4>2, <4>3
    <3>2. p # w => ~Holds(p)'
      BY <2>1, <2>3 DEF Holds, Owns, Owning, Granting
    <3>3. Holds(w)'
      BY <2>1 DEF Holds, Owns
    <3>4. QED
      BY <3>1, <3>2, <3>3
  <2>5. OneHolder'
    BY <1>1, <1>3, <2>4 DEF OneHolder
  <2>6. RecordInv'
    <3>1. ASSUME NEW u \in Threads, Live(u)', place'[u] = "take" PROVE granted_tid' = u
      <4>1. u # p /\ granted_tid = u
        BY <2>3, <3>1 DEF HolderInv, RecordInv, Procs
      <4>2. QED
        BY <1>2, <4>1 DEF Holds, Owns, Procs
    <3>2. place'[w] \notin Owning
      <4>1. CASE w = p
        BY <2>3, <4>1 DEF Owning, Granting
      <4>2. CASE w # p /\ place[w] \in Owning
        BY <1>2, <2>1, <4>2 DEF Holds, Owns, Procs
      <4>3. QED
        BY <2>3, <4>1, <4>2 DEF Procs
    <3>3. QED
      BY <2>1, <2>4, <3>1, <3>2 DEF RecordInv, Procs, Owning, Granting
  <2>7. ReapInv'
    <3>1. place'[Reaper] # "abort"
      BY <1>1, <1>5, <2>3
    <3>2. place'[Reaper] # "idle" => place[Reaper] # "idle"
      BY <1>1, <2>3
    <3>3. QED
      BY <1>1, <2>3, <3>1, <3>2 DEF HolderInv, ReapInv, reapVars, HolderTypes
  <2>8. QED
    BY <2>2, <2>5, <2>6, <2>7 DEF HolderInv
<1>7. CASE owner_tid' = None /\ Goto(p, "g_active") /\ UNCHANGED <<granted_tid, state>>
  <2>1. HolderTypes'
    BY <1>1, <1>7 DEF HolderInv, HolderTypes, Goto, reapVars, Places, Owning, Granting
  <2>2. /\ place'[p] = "g_active" /\ \A q \in Procs \ {p} : place'[q] = place[q]
        /\ \A u \in Threads : Live(u)' <=> Live(u)
    BY <1>7 DEF HolderInv, HolderTypes, Goto, Live
  <2>3. \A q \in Procs : Holds(q)' <=> Holds(q)
    BY <1>1, <1>7, <2>2 DEF Holds, Owns, Owning, Granting, reapVars, Procs
  <2>4. OneHolder'
    BY <1>1, <2>3 DEF HolderInv, OneHolder
  <2>5. RecordInv'
    BY <1>1, <1>7, <2>2, JournalOwnerConstants
    DEF HolderInv, RecordInv, Procs, Owning, Granting
  <2>6. ReapInv'
    BY <1>1, <1>5, <2>2 DEF HolderInv, ReapInv, reapVars, HolderTypes
  <2>7. QED
    BY <2>1, <2>4, <2>5, <2>6 DEF HolderInv
<1>8. QED
  BY <1>6, <1>7 DEF ext3_grant_next

\* With no successor the holder clears active, then drops the lock.
LEMMA GoIdleStep ==
    ASSUME HolderInv, NEW p \in Procs, p \in Threads => Live(p), GoIdle(p)
    PROVE  HolderInv'
<1>1. /\ Reaper \in Procs /\ Reaper \notin Threads
      /\ place[p] \in {"g_active", "g_unlock"}
      /\ UNCHANGED <<owner_tid, granted_tid, state, reapVars>>
  BY JournalOwnerConstants DEF GoIdle, Procs
<1>2. Holds(p) /\ \A q \in Procs \ {p} : ~Holds(q)
  BY <1>1 DEF HolderInv, OneHolder, Holds, Owns, Owning, Granting, Procs
<1>3. owner_tid = None
  BY <1>1, <1>2 DEF HolderInv, RecordInv
<1>4. PICK l \in {"g_unlock", "g_end"} :
        /\ Goto(p, l)
        /\ l = "g_unlock" => lock' = lock /\ active' = FALSE
        /\ l = "g_end" => lock' = FALSE /\ active' = active /\ place[p] = "g_unlock"
  BY DEF GoIdle
<1>5. HolderTypes'
  BY <1>1, <1>4 DEF HolderInv, HolderTypes, Goto, reapVars, Places, Owning, Granting
<1>6. /\ place'[p] = l /\ \A q \in Procs \ {p} : place'[q] = place[q]
      /\ \A u \in Threads : Live(u)' <=> Live(u)
  BY <1>1, <1>4 DEF HolderInv, HolderTypes, Goto, Live
<1>7. \A q \in Procs \ {p} : ~Holds(q)'
  <2>1. CASE p = Reaper
    BY <1>1, <1>2, <1>6, <2>1 DEF Holds, Owns, Granting, reapVars, Procs
  <2>2. CASE p # Reaper
    BY <1>1, <1>2, <1>6, <2>2 DEF Holds, Owns, Granting, reapVars, Procs
  <2>3. QED
    BY <2>1, <2>2
<1>8. \A u \in Threads : granted_tid # u
  BY <1>1, <1>2 DEF HolderInv, RecordInv, Holds, Owns, Owning, Granting, Procs
<1>9. l = "g_end" => ~Holds(p)'
  BY <1>1, <1>6, <1>8 DEF Holds, Owns, Owning, Granting
<1>10. OneHolder'
  BY SMT, <1>2, <1>4, <1>7, <1>9 DEF HolderInv, OneHolder
<1>11. RecordInv'
  BY <1>1, <1>3, <1>6, <1>8, JournalOwnerConstants DEF HolderInv, RecordInv, Procs
<1>12. ReapInv'
  <2>1. p = Reaper \/ place[Reaper] # "abort"
    BY <1>2 DEF HolderInv, ReapInv, Procs
  <2>2. /\ place'[Reaper] # "abort"
        /\ place'[Reaper] # "idle" => place[Reaper] # "idle"
    BY <1>1, <1>6, <2>1
  <2>3. QED
    BY <1>1, <1>6, <2>2 DEF HolderInv, HolderTypes, ReapInv, reapVars
<1>13. QED
  BY <1>5, <1>10, <1>11, <1>12 DEF HolderInv

\* The reaper is done with its victim: a dead thread that is not the recorded
\* owner, or whose transaction has been handed over.
LEMMA ReapedStep ==
    ASSUME HolderInv, place[Reaper] \in {"check", "g_end"}, Goto(Reaper, "idle"),
           place[Reaper] = "check" => owner_tid # victim \/ ~active,
           reaped' = reaped \cup {victim}, victim' = None,
           UNCHANGED <<active, owner_tid, granted_tid, lock, state>>
    PROVE  HolderInv'
<1>1. /\ Reaper \in Procs /\ Reaper \notin Threads
      /\ victim \in Threads \ reaped /\ ~Live(victim)
      /\ \A u \in Threads : Live(u)' <=> Live(u)
  BY JournalOwnerConstants DEF HolderInv, ReapInv, Procs, Live
<1>2. HolderTypes'
  BY <1>1 DEF HolderInv, HolderTypes, Goto, Places
<1>3. /\ place'[Reaper] = "idle" /\ \A q \in Procs \ {Reaper} : place'[q] = place[q]
  BY <1>1 DEF HolderInv, HolderTypes, Goto
<1>4. \A q \in Procs : /\ Holds(q)' => Holds(q)
                       /\ q # victim => (Holds(q) => Holds(q)')
  BY <1>1, <1>3, JournalOwnerConstants DEF Holds, Owns, Owning, Granting, Procs
<1>5. OneHolder'
  BY <1>4 DEF HolderInv, OneHolder
<1>6. RecordInv'
  BY <1>1, <1>3, <1>4 DEF HolderInv, RecordInv, Procs
<1>7. ReapInv'
  BY <1>1, <1>3 DEF HolderInv, HolderTypes, ReapInv, Live
<1>8. QED
  BY <1>2, <1>5, <1>6, <1>7 DEF HolderInv

\* The reaper picks a dead thread, and recognises the recorded owner in it.
LEMMA ReaperStep ==
    ASSUME HolderInv,
           \/ \E t \in Threads : Reap(t)
           \/ ReleaseCheck \/ ext3_journal_release_owner
    PROVE  HolderInv'
<1>1. Reaper \in Procs /\ Reaper \notin Threads
  BY JournalOwnerConstants DEF Procs
<1>2. ASSUME NEW t \in Threads, Reap(t) PROVE HolderInv'
  <2>1. /\ place[Reaper] = "idle" /\ ~Live(t) /\ t \notin reaped /\ victim' = t
        /\ UNCHANGED <<active, owner_tid, granted_tid, lock, state, reaped>>
        /\ \A u \in Threads : Live(u)' <=> Live(u)
    BY <1>2 DEF Reap, journalVars, Live
  <2>2. /\ HolderTypes'
        /\ place'[Reaper] = "check" /\ \A q \in Procs \ {Reaper} : place'[q] = place[q]
    BY <1>1, <1>2, <2>1 DEF Reap, HolderInv, HolderTypes, Goto, Places
  <2>3. \A q \in Procs : Holds(q)' <=> Holds(q)
    BY <1>1, <2>1, <2>2 DEF Holds, Owns, Owning, Granting, Procs
  <2>4. OneHolder'
    BY <2>1, <2>3 DEF HolderInv, OneHolder
  <2>5. RecordInv'
    BY <1>1, <2>1, <2>2, <2>3 DEF HolderInv, RecordInv, Procs
  <2>6. ReapInv'
    BY <2>1, <2>2 DEF HolderInv, HolderTypes, ReapInv, Live
  <2>7. QED
    BY <2>2, <2>4, <2>5, <2>6 DEF HolderInv
<1>3. CASE ReleaseCheck
  <2>1. /\ place[Reaper] = "check"
        /\ UNCHANGED <<active, owner_tid, granted_tid, lock, state>>
    BY <1>3 DEF ReleaseCheck, journalVars
  <2>2. CASE active /\ owner_tid = victim
    <3>1. Goto(Reaper, "abort") /\ UNCHANGED reapVars
      BY <1>3, <2>2 DEF ReleaseCheck
    <3>2. /\ HolderTypes' /\ \A u \in Threads : Live(u)' <=> Live(u)
          /\ place'[Reaper] = "abort" /\ \A q \in Procs \ {Reaper} : place'[q] = place[q]
      BY <1>1, <2>1, <3>1 DEF HolderInv, HolderTypes, Goto, Places, reapVars, Live
    <3>3. \A q \in Procs : Holds(q)' <=> Holds(q)
      BY <1>1, <2>1, <3>1, <3>2 DEF Holds, Owns, Owning, Granting, Procs, reapVars
    <3>4. victim \in Threads \ reaped /\ ~Live(victim)
      BY <2>1 DEF HolderInv, ReapInv
    <3>5. Holds(victim)
      BY <2>1, <2>2, <3>4 DEF HolderInv, RecordInv
    <3>6. OneHolder'
      BY <2>1, <3>3 DEF HolderInv, OneHolder
    <3>7. RecordInv'
      BY <1>1, <2>1, <3>1, <3>2, <3>3 DEF HolderInv, RecordInv, Procs, reapVars
    <3>8. ReapInv'
      <4>1. Holds(victim)'
        BY <3>1, <3>3, <3>4, <3>5 DEF Procs, reapVars
      <4>2. QED
        BY <3>1, <3>2, <3>4, <4>1 DEF HolderInv, HolderTypes, ReapInv, reapVars
    <3>9. QED
      BY <3>2, <3>6, <3>7, <3>8 DEF HolderInv
  <2>3. CASE ~(active /\ owner_tid = victim)
    BY <1>3, <2>1, <2>3, ReapedStep DEF ReleaseCheck
  <2>4. QED
    BY <2>2, <2>3
<1>4. CASE ext3_journal_release_owner
  <2>1. /\ place[Reaper] = "abort"
        /\ UNCHANGED <<active, owner_tid, lock, state>>
    BY <1>4 DEF ext3_journal_release_owner
  <2>2. /\ victim \in Threads \ reaped /\ ~Live(victim) /\ Holds(victim) /\ victim \in Procs
    BY <2>1 DEF HolderInv, ReapInv, Procs
  <2>3. lock /\ \A q \in Procs \ {victim} : ~Holds(q)
    BY <2>2 DEF HolderInv, OneHolder
  <2>4. /\ Goto(Reaper, "grant") /\ UNCHANGED reapVars
        /\ granted_tid' = None \/ (granted_tid' = granted_tid /\ granted_tid # victim)
    BY <1>4, <2>3 DEF ext3_journal_release_owner
  <2>5. granted_tid' = None
    BY <2>3, <2>4 DEF HolderInv, HolderTypes, Holds, Owns, Procs
  <2>6. /\ HolderTypes' /\ \A u \in Threads : Live(u)' <=> Live(u)
        /\ place'[Reaper] = "grant" /\ \A q \in Procs \ {Reaper} : place'[q] = place[q]
    BY <1>1, <2>1, <2>4, <2>5
    DEF HolderInv, HolderTypes, Goto, Places, Owning, Granting, reapVars, Live
  <2>7. \A q \in Procs : Holds(q)' <=> q = Reaper
    <3>1. Holds(Reaper)'
      BY <2>6 DEF Holds, Owns, Granting
    <3>2. ~Holds(victim)'
      BY <1>1, <2>2, <2>4, <2>5, <2>6, JournalOwnerConstants
      DEF Holds, Owns, Granting, reapVars
    <3>3. ASSUME NEW q \in Threads \ {victim} PROVE ~Holds(q)'
      BY <1>1, <2>1, <2>3, <2>4, <2>5, <2>6, JournalOwnerConstants
      DEF Holds, Owns, reapVars, Procs
    <3>4. QED
      BY <1>1, <2>4, <3>1, <3>2, <3>3 DEF Procs, reapVars
  <2>8. OneHolder'
    BY <2>1, <2>3, <2>7 DEF OneHolder
  <2>9. RecordInv'
    <3>1. \A u \in Threads : ~(Live(u) /\ place[u] = "take")
      <4>1. SUFFICES ASSUME NEW u \in Threads, Live(u), place[u] = "take" PROVE FALSE
        OBVIOUS
      <4>2. Holds(u)
        BY <4>1 DEF HolderInv, RecordInv, Holds, Owns
      <4>3. QED
        BY <2>2, <2>3, <4>1, <4>2 DEF Procs
    <3>2. \A u \in Threads \ reaped : owner_tid = u => u = victim
      BY <2>1, <2>3 DEF HolderInv, RecordInv, Procs
    <3>3. QED
      BY <1>1, <2>1, <2>4, <2>5, <2>6, <2>7, <3>1, <3>2, JournalOwnerConstants
      DEF RecordInv, reapVars, Procs
  <2>10. ReapInv'
    BY <2>2, <2>4, <2>6 DEF HolderInv, HolderTypes, ReapInv, reapVars
  <2>11. QED
    BY <2>6, <2>8, <2>9, <2>10 DEF HolderInv
<1>5. QED
  BY <1>2, <1>3, <1>4

\* What OutsideStep asks of a step, and that it does not walk past a grant.
OutsideMove(t) ==
  /\ Live(t) /\ place[t] \notin Owning \cup {"take"}
  /\ UNCHANGED <<active, owner_tid, granted_tid, lock, reapVars>>
  /\ state' \in [Threads -> {"RUNNING", "BLOCKED", "DEAD"}]
  /\ \A u \in Threads : Live(u)' <=> Live(u)
  /\ \E l \in Places \ Owning :
       /\ Goto(t, l) /\ (l = "take" => granted_tid = t)
       /\ granted_tid = t /\ place[t] \in Receiving => l \in Receiving

\* Steps of a thread that holds nothing and takes nothing.
LEMMA WaitingMove ==
    ASSUME HolderInv, NEW t \in Threads,
           \/ Begin(t) \/ TakeGrantLock(t) \/ ReadActive(t) \/ Park(t) \/ Recheck(t)
           \/ Woken(t) \/ ext3_journal_stop(t) \/ (GrantEnd(t) /\ Live(t))
           \/ (TryLock(t) \/ RetryLock(t)) /\ lock
           \/ (Regrant(t) \/ Interrupted(t)) /\ granted_tid # t
    PROVE  OutsideMove(t)
<1>1. t # Reaper /\ state \in [Threads -> {"RUNNING", "BLOCKED", "DEAD"}] /\ lock \in BOOLEAN
  BY JournalOwnerConstants DEF HolderInv, HolderTypes
<1>2. /\ Live(t) /\ UNCHANGED <<active, owner_tid, granted_tid, lock, reapVars>>
      /\ place[t] \notin Owning \cup {"take"}
  <2>1. Live(t)
    BY DEF Begin, TakeGrantLock, ReadActive, Park, Recheck, Woken, ext3_journal_stop,
           TryLock, RetryLock, Regrant, Interrupted, At, Live
  <2>2. place[t] \notin Owning \cup {"take"}
    BY DEF Begin, TakeGrantLock, ReadActive, Park, Recheck, Woken, ext3_journal_stop,
           GrantEnd, TryLock, RetryLock, Regrant, Interrupted, At, Owning, Granting
  <2>3. UNCHANGED <<active, owner_tid, granted_tid, lock, reapVars>>
    BY <1>1 DEF Begin, TakeGrantLock, ReadActive, Park, Recheck, Woken, ext3_journal_stop,
           GrantEnd, TryLock, RetryLock, Regrant, Interrupted, journalVars
  <2>4. QED
    BY <2>1, <2>2, <2>3
<1>3. /\ state' \in [Threads -> {"RUNNING", "BLOCKED", "DEAD"}]
      /\ \A u \in Threads : Live(u)' <=> Live(u)
  <2>1. state' = state \/ \E x \in {"RUNNING", "BLOCKED"} : state' = [state EXCEPT ![t] = x]
    BY DEF Begin, TakeGrantLock, ReadActive, Park, Recheck, Woken, ext3_journal_stop,
           GrantEnd, TryLock, RetryLock, Regrant, Interrupted
  <2>2. QED
    BY <1>1, <1>2, <2>1 DEF Live
<1>4. \E l \in Places \ Owning :
        /\ Goto(t, l) /\ (l = "take" => granted_tid = t)
        /\ granted_tid = t /\ place[t] \in Receiving => l \in Receiving
  <2>1. CASE TakeGrantLock(t)
    BY <2>1 DEF TakeGrantLock, Places, Owning, Granting, Receiving
  <2>2. ASSUME NEW l \in {"idle", "loop", "try", "park", "regrant", "retry", "recheck",
                          "sleep", "interrupted", "post"}, Goto(t, l),
               \/ l \in {"loop", "regrant", "retry", "recheck", "sleep", "interrupted"}
               \/ granted_tid # t
               \/ place[t] \in {"post", "g_end", "try"}
        PROVE  /\ l \in Places \ Owning /\ l # "take"
               /\ granted_tid = t /\ place[t] \in Receiving => l \in Receiving
    <3>1. l \in Places \ Owning /\ l # "take"
      BY <2>2 DEF Places, Owning, Granting
    <3>2. granted_tid = t /\ place[t] \in Receiving => l \in Receiving
      BY <2>2 DEF Receiving
    <3>3. QED
      BY <3>1, <3>2
  <2>3. CASE Begin(t) \/ Park(t) \/ Recheck(t)
    <3>1. \E l \in {"loop", "regrant", "sleep"} : Goto(t, l)
      BY <2>3 DEF Begin, Park, Recheck
    <3>2. QED
      BY <2>2, <3>1
  <2>4. CASE ReadActive(t)
    <3>1. granted_tid # t /\ \E l \in {"try", "park"} : Goto(t, l)
      BY <2>4 DEF ReadActive
    <3>2. QED
      BY <2>2, <3>1
  <2>5. CASE Woken(t)
    <3>1. Goto(t, IF sig[t] THEN "interrupted" ELSE "loop")
      BY <2>5 DEF Woken
    <3>2. QED
      BY <2>2, <3>1
  <2>6. CASE ext3_journal_stop(t)
    <3>1. place[t] = "post" /\ \E l \in {"loop", "idle"} : Goto(t, l)
      BY <2>6 DEF ext3_journal_stop, At
    <3>2. QED
      BY <2>2, <3>1
  <2>7. CASE GrantEnd(t)
    <3>1. place[t] = "g_end" /\ Goto(t, IF Stopping(t) THEN "post" ELSE "idle")
      BY <1>1, <2>7 DEF GrantEnd
    <3>2. QED
      BY <2>2, <3>1
  <2>8. CASE TryLock(t) /\ lock
    <3>1. place[t] = "try" /\ Goto(t, "park")
      BY <2>8 DEF TryLock, At
    <3>2. QED
      BY <2>2, <3>1
  <2>9. CASE RetryLock(t) /\ lock
    <3>1. Goto(t, "recheck")
      BY <2>9 DEF RetryLock
    <3>2. QED
      BY <2>2, <3>1
  <2>10. CASE (Regrant(t) \/ Interrupted(t)) /\ granted_tid # t
    <3>1. \E l \in {"recheck", "retry", "idle"} : Goto(t, l)
      BY <2>10 DEF Regrant, Interrupted
    <3>2. QED
      BY <2>2, <2>10, <3>1
  <2>11. QED
    BY <2>1, <2>3, <2>4, <2>5, <2>6, <2>7, <2>8, <2>9, <2>10
<1>5. QED
  BY <1>2, <1>3, <1>4 DEF OutsideMove

\* What InsideStep asks of a step.
InsideMove(t) ==
  /\ Live(t) /\ (Holds(t) \/ ~lock)
  /\ \E l \in Owning \ {"g_active", "g_unlock"} : Goto(t, l)
  /\ lock' = TRUE /\ active' \in BOOLEAN
  /\ granted_tid' = None \/ (granted_tid' = granted_tid /\ (place[t] \in Owning \/ ~lock))
  /\ owner_tid' \in {owner_tid, t}
  /\ state' \in [Threads -> {"RUNNING", "BLOCKED", "DEAD"}]
  /\ \A u \in Threads : Live(u)' <=> Live(u)
  /\ UNCHANGED reapVars

\* Steps that take the free lock or a grant, and steps of the owner.
LEMMA OwningMove ==
    ASSUME HolderInv, NEW t \in Threads,
           \/ Acquired(t) \/ ext3_forward_grant(t) \/ PublishOwner(t) \/ ext3_journal_start(t)
           \/ MergeRunning(t) \/ ShouldDefer(t) \/ CommitChain(t) \/ ext3_take_grant(t)
           \/ (TryLock(t) \/ RetryLock(t)) /\ ~lock
           \/ (Regrant(t) \/ Interrupted(t)) /\ granted_tid = t
    PROVE  InsideMove(t)
<1>1. /\ state \in [Threads -> {"RUNNING", "BLOCKED", "DEAD"}]
      /\ lock \in BOOLEAN /\ active \in BOOLEAN /\ t \in Procs
  BY DEF HolderInv, HolderTypes, Procs
<1>2. Live(t) /\ UNCHANGED reapVars
  BY DEF Acquired, ext3_forward_grant, PublishOwner, ext3_journal_start, MergeRunning,
         ShouldDefer, CommitChain, ext3_take_grant, TryLock, RetryLock, Regrant,
         Interrupted, At, Live
<1>3. /\ state' \in [Threads -> {"RUNNING", "BLOCKED", "DEAD"}]
      /\ \A u \in Threads : Live(u)' <=> Live(u)
  <2>1. state' = state \/ state' = [state EXCEPT ![t] = "RUNNING"]
    BY DEF Acquired, ext3_forward_grant, PublishOwner, ext3_journal_start, MergeRunning,
           ShouldDefer, CommitChain, ext3_take_grant, TryLock, RetryLock, Regrant, Interrupted
  <2>2. QED
    BY <1>1, <1>2, <2>1 DEF Live
<1>4. active' \in BOOLEAN /\ owner_tid' \in {owner_tid, t}
  BY <1>1 DEF Acquired, ext3_forward_grant, PublishOwner, ext3_journal_start, MergeRunning,
         ShouldDefer, CommitChain, ext3_take_grant, TryLock, RetryLock, Regrant,
         Interrupted, journalVars
<1>5. \E l \in Owning \ {"g_active", "g_unlock"} : Goto(t, l)
  BY DEF Acquired, ext3_forward_grant, PublishOwner, ext3_journal_start, MergeRunning,
         ShouldDefer, CommitChain, ext3_take_grant, TryLock, RetryLock, Regrant,
         Interrupted, Owning, Granting
<1>6. CASE (TryLock(t) \/ RetryLock(t)) /\ ~lock
  <2>1. lock' = TRUE /\ granted_tid' = granted_tid
    BY <1>6 DEF TryLock, RetryLock
  <2>2. QED
    BY <1>2, <1>3, <1>4, <1>5, <1>6, <2>1 DEF InsideMove
<1>7. CASE ((Regrant(t) \/ Interrupted(t)) /\ granted_tid = t) \/ ext3_take_grant(t)
  <2>1. granted_tid = t
    BY <1>7 DEF ext3_take_grant, At, HolderInv, RecordInv, Live
  <2>2. Holds(t)
    BY <2>1 DEF Holds, Owns
  <2>3. lock' = TRUE /\ granted_tid' = None
    BY <1>1, <1>7, <2>2 DEF Regrant, Interrupted, ext3_take_grant, HolderInv, OneHolder
  <2>4. QED
    BY <1>2, <1>3, <1>4, <1>5, <2>2, <2>3 DEF InsideMove
<1>8. CASE \/ Acquired(t) \/ ext3_forward_grant(t) \/ PublishOwner(t) \/ ext3_journal_start(t)
           \/ MergeRunning(t) \/ ShouldDefer(t) \/ CommitChain(t)
  <2>1. place[t] \in Owning /\ lock' = lock /\ granted_tid' = granted_tid
    BY <1>8 DEF Acquired, ext3_forward_grant, PublishOwner, ext3_journal_start, MergeRunning,
         ShouldDefer, CommitChain, At, Owning, journalVars
  <2>2. Holds(t)
    BY <1>2, <2>1 DEF Holds, Owns
  <2>3. lock' = TRUE
    BY <1>1, <2>1, <2>2 DEF HolderInv, OneHolder
  <2>4. QED
    BY <1>2, <1>3, <1>4, <1>5, <2>1, <2>2, <2>3 DEF InsideMove
<1>9. QED
  BY <1>6, <1>7, <1>8

\* Steps that move no process: a nested start or stop, a staged image, a
\* signal, a deadline, a kill.
LEMMA StandingStep ==
    ASSUME HolderInv, NEW t \in Threads,
           \/ NestedStart(t) \/ NestedStop(t) \/ StageBlock(t)
           \/ Signal(t) \/ Timeout(t) \/ Kill(t)
    PROVE  HolderInv'
<1>1. UNCHANGED <<active, owner_tid, granted_tid, lock, place, reapVars>>
  BY DEF NestedStart, NestedStop, StageBlock, Signal, Timeout, Kill, journalVars
<1>2. \/ state' = state
      \/ state' = [state EXCEPT ![t] = "DEAD"]
      \/ Live(t) /\ \E x \in {"RUNNING", state[t]} : state' = [state EXCEPT ![t] = x]
  BY DEF NestedStart, NestedStop, StageBlock, Signal, Timeout, Kill, Live
<1>3. /\ state' \in [Threads -> {"RUNNING", "BLOCKED", "DEAD"}]
      /\ \A u \in Threads : Live(u)' => Live(u)
  BY <1>2 DEF HolderInv, HolderTypes, Live
<1>4. QED
  BY <1>1, <1>3, StateStep

\* Every step preserves the invariant.
LEMMA OwnerNextInv == HolderInv /\ [OwnerNext]_ownerVars => HolderInv'
<1>1. SUFFICES ASSUME HolderInv, [OwnerNext]_ownerVars PROVE HolderInv'
  OBVIOUS
<1>2. CASE UNCHANGED ownerVars
  <2>1. UNCHANGED <<active, owner_tid, granted_tid, lock, place, reapVars, state>>
    BY <1>2 DEF ownerVars, journalVars
  <2>2. QED
    BY <1>1, <2>1, StateStep DEF HolderInv, HolderTypes, Live
<1>3. ASSUME NEW p \in Procs, Grant(p) PROVE HolderInv'
  <2>1. CASE ext3_grant_next(p) \/ GoIdle(p)
    BY <1>1, <1>3, <2>1, GrantNextStep, GoIdleStep DEF Grant
  <2>2. CASE GrantEnd(p) /\ p \in Threads
    BY <1>1, <1>3, <2>2, WaitingMove, OutsideStep DEF Grant, OutsideMove
  <2>3. CASE GrantEnd(p) /\ p = Reaper
    BY <1>1, <2>3, ReapedStep DEF GrantEnd
  <2>4. QED
    BY <1>3, <2>1, <2>2, <2>3 DEF Grant, Procs
<1>4. ASSUME NEW t \in Threads, Thread(t) \/ Begin(t) PROVE HolderInv'
  <2>1. lock \in BOOLEAN /\ t \in Procs
    BY <1>1 DEF HolderInv, HolderTypes, Procs
  <2>2. OutsideMove(t) => HolderInv'
    BY <1>1, OutsideStep DEF OutsideMove
  <2>3. InsideMove(t) => HolderInv'
    BY <1>1, InsideStep DEF InsideMove
  <2>4. CASE TryLock(t) \/ RetryLock(t) \/ Regrant(t) \/ Interrupted(t)
    BY <1>1, <2>1, <2>2, <2>3, <2>4, WaitingMove, OwningMove
  <2>5. QED
    BY <1>1, <1>3, <1>4, <2>1, <2>2, <2>3, <2>4, WaitingMove, OwningMove, StandingStep DEF Thread
<1>5. CASE Reaping
  <2>1. Reaper \in Procs
    BY DEF Procs
  <2>2. QED
    BY <1>1, <1>3, <1>5, <2>1, ReaperStep DEF Reaping
<1>6. CASE OwnerNext
  BY <1>1, <1>4, <1>5, <1>6, StandingStep DEF OwnerNext
<1>7. QED
  BY <1>1, <1>2, <1>6

\* At most one process owns the transaction, whatever the number of threads,
\* of their handles and of kills: ext3_journal_start()'s try-lock, the grants
\* of ext3_grant_next(), forwarded grants and the reaper's abort never overlap.
THEOREM JournalOneOwner == OwnerSpec => []OneOwner
<1>1. HolderInv => OneOwner
  BY DEF HolderInv, OneHolder, OneOwner, Holds
<1>2. QED
  BY <1>1, OwnerInitInv, OwnerNextInv, PTL DEF OwnerSpec

-----------------------------------------------------------------------------
(* The queue of waiters. *)

\* What leaves a queue without repetitions is the one entry of t.
LEMMA UnlinkEntry ==
    ASSUME NEW S, NEW s \in Seq(S), Distinct(s), NEW t, NEW r, r = Unlink(s, t)
    PROVE  /\ r \in Seq(S) /\ Distinct(r)
           /\ \A i \in DOMAIN r : r[i] # t /\ \E j \in DOMAIN s : r[i] = s[j]
<1>1. CASE ~\E i \in DOMAIN s : s[i] = t
  BY <1>1 DEF Unlink
<1>2. CASE \E i \in DOMAIN s : s[i] = t
  <2>1. PICK i : i = CHOOSE k \in DOMAIN s : s[k] = t
    OBVIOUS
  <2>2. i \in DOMAIN s /\ s[i] = t
    BY <1>2, <2>1
  <2>3. PICK n \in Nat : n = Len(s) /\ DOMAIN s = 1..n /\ \A k \in 1..n : s[k] \in S
    BY SMT
  <2>4. i \in 1..n /\ Distinct(s)
    BY <2>2, <2>3
  <2>5. r = [j \in 1..(n - 1) |-> s[IF j < i THEN j ELSE j + 1]]
    BY <1>2, <2>1, <2>3 DEF Unlink
  <2>6. \A j \in 1..(n - 1) : r[j] = s[IF j < i THEN j ELSE j + 1]
    BY SMT, <2>5
  <2>7. DOMAIN r = 1..(n - 1) /\ \A j \in 1..(n - 1) : r[j] \in S
    BY SMT, <2>3, <2>4, <2>5
  <2>8. r \in Seq(S)
    <3>1. r = [j \in 1..(n - 1) |-> r[j]]
      BY SMT, <2>5
    <3>2. CASE n = 0
      BY SMT, <2>4, <3>2
    <3>3. CASE n > 0
      BY SMT, <2>7, <3>1, <3>3
    <3>4. QED
      BY SMT, <3>2, <3>3
  <2>9. Distinct(r)
    BY SMT, <2>3, <2>4, <2>6, <2>7 DEF Distinct
  <2>10. \A j \in DOMAIN r : r[j] # t /\ \E k \in DOMAIN s : r[j] = s[k]
    BY SMT, <2>2, <2>3, <2>4, <2>6, <2>7 DEF Distinct
  <2>11. QED
    BY <2>8, <2>9, <2>10
<1>3. QED
  BY <1>1, <1>2

\* A step of p that leaves the queue alone, and p among the parked if it was.
LEMMA WaitersKept ==
    ASSUME WaitersInv, NEW p \in Procs, \A q \in Procs \ {p} : place'[q] = place[q],
           place[p] \in Parked => place'[p] \in Parked, UNCHANGED waiters
    PROVE  WaitersInv'
<1>1. ASSUME NEW i \in DOMAIN waiters PROVE place'[waiters[i]] \in Parked
  <2>1. waiters[i] \in Procs /\ place[waiters[i]] \in Parked
    BY SMT, <1>1 DEF WaitersInv, Procs
  <2>2. QED
    BY <2>1
<1>2. QED
  BY <1>1 DEF WaitersInv

\* A thread's entry leaves the queue; only that thread, or one that was not
\* parked, has moved.
LEMMA WaitersUnlinked ==
    ASSUME WaitersInv, NEW t \in Threads, waiters' = Unlink(waiters, t),
           \A u \in Threads \ {t} : place[u] \in Parked => place'[u] \in Parked
    PROVE  WaitersInv'
<1>1. waiters \in Seq(Threads) /\ Distinct(waiters)
  BY DEF WaitersInv
<1>2. /\ waiters' \in Seq(Threads) /\ Distinct(waiters')
      /\ \A i \in DOMAIN waiters' :
           waiters'[i] # t /\ \E j \in DOMAIN waiters : waiters'[i] = waiters[j]
  BY SMT, <1>1, UnlinkEntry
<1>3. ASSUME NEW i \in DOMAIN waiters' PROVE place'[waiters'[i]] \in Parked
  <2>1. waiters'[i] \in Threads \ {t} /\ place[waiters'[i]] \in Parked
    BY SMT, <1>2, <1>3 DEF WaitersInv
  <2>2. QED
    BY <2>1
<1>4. QED
  BY <1>2, <1>3 DEF WaitersInv, Distinct

\* A thread that was not queued joins the tail.
LEMMA WaitersJoined ==
    ASSUME WaitersInv, NEW t \in Threads, place[t] \notin Parked,
           waiters' = Append(waiters, t), place'[t] \in Parked,
           \A u \in Threads \ {t} : place'[u] = place[u]
    PROVE  WaitersInv'
<1>1. PICK n \in Nat : n = Len(waiters) /\ DOMAIN waiters = 1..n /\ waiters \in Seq(Threads)
  BY SMT DEF WaitersInv
<1>2. /\ waiters' \in Seq(Threads) /\ DOMAIN waiters' = 1..(n + 1)
      /\ waiters'[n + 1] = t /\ \A i \in 1..n : waiters'[i] = waiters[i]
  BY SMT, <1>1
<1>3. \A i \in 1..n : waiters[i] \in Threads \ {t} /\ place[waiters[i]] \in Parked
  BY SMT, <1>1 DEF WaitersInv
<1>4. Distinct(waiters')
  BY SMT, <1>1, <1>2, <1>3 DEF Distinct, WaitersInv
<1>5. ASSUME NEW i \in DOMAIN waiters' PROVE place'[waiters'[i]] \in Parked
  <2>1. CASE i \in 1..n
    BY <1>2, <1>3, <2>1
  <2>2. CASE i = n + 1
    BY <1>2, <2>2
  <2>3. QED
    BY SMT, <1>2, <1>5, <2>1, <2>2
<1>6. QED
  BY <1>2, <1>4, <1>5 DEF WaitersInv, Distinct

\* A process moves, alone.
LEMMA GotoMoves ==
    ASSUME HolderTypes, NEW p \in Procs, NEW l, Goto(p, l)
    PROVE  place'[p] = l /\ \A q \in Procs \ {p} : place'[q] = place[q]
BY DEF HolderTypes, Goto

\* A finishing, forwarding or aborting holder grants, and goes idle.
LEMMA WaitersGrant ==
    ASSUME HolderInv, WaitersInv, NEW p \in Procs, Grant(p)
    PROVE  WaitersInv'
<1>1. HolderTypes
  BY DEF HolderInv
<1>2. CASE ext3_grant_next(p)
  <2>1. place[p] \notin Parked
    BY <1>2 DEF ext3_grant_next, Parked
  <2>2. ASSUME NEW w \in Threads, waiters' = Unlink(waiters, w), Goto(p, "g_end")
        PROVE  WaitersInv'
    <3>1. \A u \in Threads \ {w} : place[u] \in Parked => place'[u] \in Parked
      BY <1>1, <2>1, <2>2, GotoMoves DEF Procs
    <3>2. QED
      BY <2>2, <3>1, WaitersUnlinked
  <2>3. CASE Goto(p, "g_active") /\ UNCHANGED waiters
    BY <1>1, <2>1, <2>3, GotoMoves, WaitersKept
  <2>4. QED
    BY <1>2, <2>2, <2>3 DEF ext3_grant_next
<1>3. CASE GoIdle(p) \/ GrantEnd(p)
  <2>1. /\ place[p] \notin Parked /\ UNCHANGED waiters
    BY <1>3 DEF GoIdle, GrantEnd, Parked
  <2>2. \E l \in Places : Goto(p, l)
    BY <1>3 DEF GoIdle, GrantEnd, Places, Owning, Granting
  <2>3. QED
    BY <1>1, <2>1, <2>2, GotoMoves, WaitersKept
<1>4. QED
  BY <1>2, <1>3 DEF Grant

\* A thread's own steps.
LEMMA WaitersThread ==
    ASSUME HolderInv, WaitersInv, NEW t \in Threads, Thread(t) \/ Begin(t)
    PROVE  WaitersInv'
<1>1. HolderTypes /\ t \in Procs
  BY DEF HolderInv, Procs
<1>2. CASE \/ Begin(t) \/ TakeGrantLock(t) \/ ext3_take_grant(t) \/ ReadActive(t) \/ TryLock(t)
           \/ Interrupted(t) \/ ext3_forward_grant(t)
  <2>1. place[t] \notin Parked /\ UNCHANGED waiters
    BY <1>2 DEF Begin, TakeGrantLock, ext3_take_grant, ReadActive, TryLock, Interrupted,
                ext3_forward_grant, At, Parked
  <2>2. \E l \in Places : Goto(t, l)
    BY <1>2 DEF Begin, TakeGrantLock, ext3_take_grant, ReadActive, TryLock, Interrupted,
                ext3_forward_grant, Places, Owning, Granting
  <2>3. QED
    BY <1>1, <2>1, <2>2, GotoMoves, WaitersKept
<1>3. CASE \/ PublishOwner(t) \/ ext3_journal_start(t) \/ MergeRunning(t) \/ ShouldDefer(t)
           \/ CommitChain(t) \/ ext3_journal_stop(t)
  <2>1. place[t] \notin Parked /\ UNCHANGED waiters
    BY <1>3 DEF PublishOwner, ext3_journal_start, MergeRunning, ShouldDefer, CommitChain,
                ext3_journal_stop, At, Parked
  <2>2. \E l \in Places : Goto(t, l)
    BY <1>3 DEF PublishOwner, ext3_journal_start, MergeRunning, ShouldDefer, CommitChain,
                ext3_journal_stop, Places, Owning, Granting
  <2>3. QED
    BY <1>1, <2>1, <2>2, GotoMoves, WaitersKept
<1>4. CASE Regrant(t) \/ RetryLock(t) \/ (Recheck(t) /\ active)
  <2>1. UNCHANGED waiters /\ \E l \in Parked : Goto(t, l)
    BY <1>4 DEF Regrant, RetryLock, Recheck, Parked
  <2>2. QED
    BY <1>1, <2>1, GotoMoves, WaitersKept
<1>5. CASE Acquired(t) \/ Woken(t) \/ (Recheck(t) /\ ~active)
  <2>1. waiters' = Unlink(waiters, t) /\ \E l \in Places : Goto(t, l)
    BY <1>5 DEF Acquired, Woken, Recheck, Places, Owning
  <2>2. \A u \in Threads \ {t} : place[u] \in Parked => place'[u] \in Parked
    BY <1>1, <2>1, GotoMoves DEF Procs
  <2>3. QED
    BY <2>1, <2>2, WaitersUnlinked
<1>6. CASE Park(t)
  <2>1. place[t] \notin Parked /\ waiters' = Append(waiters, t) /\ Goto(t, "regrant")
    BY <1>6 DEF Park, At, Parked
  <2>2. place'[t] \in Parked /\ \A u \in Threads \ {t} : place'[u] = place[u]
    BY <1>1, <2>1, GotoMoves DEF Procs, Parked
  <2>3. QED
    BY <2>1, <2>2, WaitersJoined
<1>7. CASE NestedStop(t)
  BY <1>7 DEF NestedStop, WaitersInv
<1>8. QED
  BY <1>1, <1>2, <1>3, <1>4, <1>5, <1>6, <1>7, WaitersGrant DEF Thread

\* Every step keeps the queue in order.
LEMMA WaitersStep == HolderInv /\ WaitersInv /\ [OwnerNext]_ownerVars => WaitersInv'
<1>1. SUFFICES ASSUME HolderInv, WaitersInv, [OwnerNext]_ownerVars PROVE WaitersInv'
  OBVIOUS
<1>2. HolderTypes /\ Reaper \in Procs
  BY <1>1 DEF HolderInv, Procs
<1>3. CASE UNCHANGED ownerVars
  BY <1>1, <1>3 DEF ownerVars, WaitersInv
<1>4. ASSUME NEW t \in Threads,
             NestedStart(t) \/ StageBlock(t) \/ Signal(t) \/ Timeout(t) \/ Kill(t)
      PROVE  WaitersInv'
  BY <1>1, <1>4 DEF NestedStart, StageBlock, Signal, Timeout, Kill, WaitersInv
<1>5. CASE Reaping
  <2>1. ASSUME NEW t \in Threads, Reap(t) PROVE WaitersInv'
    <3>1. waiters' = Unlink(waiters, t) /\ Goto(Reaper, "check")
      BY <2>1 DEF Reap
    <3>2. \A u \in Threads \ {t} : place[u] \in Parked => place'[u] \in Parked
      BY <1>2, <3>1, GotoMoves, JournalOwnerConstants DEF Procs
    <3>3. QED
      BY <1>1, <3>1, <3>2, WaitersUnlinked
  <2>2. CASE ReleaseCheck \/ ext3_journal_release_owner
    <3>1. place[Reaper] \notin Parked /\ UNCHANGED waiters /\ \E l \in Places : Goto(Reaper, l)
      BY <2>2 DEF ReleaseCheck, ext3_journal_release_owner, Parked, Places, Owning, Granting
    <3>2. QED
      BY <1>1, <1>2, <3>1, GotoMoves, WaitersKept
  <2>3. QED
    BY <1>1, <1>2, <1>5, <2>1, <2>2, WaitersGrant DEF Reaping
<1>6. CASE OwnerNext
  BY <1>1, <1>4, <1>5, <1>6, WaitersThread DEF OwnerNext
<1>7. QED
  BY <1>1, <1>3, <1>6

-----------------------------------------------------------------------------
(* The record of the owner, and the holder of the lock. *)

\* The journal starts free, with no grant.
LEMMA KeptInit == OwnerInit => KeptInv
<1>1. SUFFICES ASSUME OwnerInit PROVE KeptInv
  OBVIOUS
<1>2. \A p \in Procs : ~Holds(p)
  BY <1>1, JournalOwnerConstants DEF OwnerInit, Holds, Owns, Owning, Granting, Procs
<1>3. Reaper \in Procs /\ place[Reaper] = "idle" /\ \A t \in Threads : Live(t) /\ granted_tid # t
  BY <1>1, JournalOwnerConstants DEF OwnerInit, Procs, Live
<1>4. QED
  BY <1>1, <1>2, <1>3 DEF OwnerInit, KeptInv, Procs, Granting

\* The steps of OutsideStep leave the record, the lock and its holder alone.
LEMMA KeptOutside ==
    ASSUME HolderInv, KeptInv, NEW t \in Threads, OutsideMove(t)
    PROVE  KeptInv'
<1>1. PICK l \in Places \ Owning :
        /\ Goto(t, l)
        /\ granted_tid = t /\ place[t] \in Receiving => l \in Receiving
  BY DEF OutsideMove
<1>2. /\ place'[t] = l /\ \A p \in Procs \ {t} : place'[p] = place[p]
      /\ t # Reaper /\ t \in Procs /\ Reaper \in Procs
      /\ place[t] \notin Owning /\ Live(t)
      /\ UNCHANGED <<active, owner_tid, granted_tid, lock, victim, reaped>>
      /\ \A u \in Threads : Live(u)' <=> Live(u)
  BY <1>1, JournalOwnerConstants DEF HolderInv, HolderTypes, Goto, Procs, OutsideMove, reapVars
<1>3. \A p \in Procs : Holds(p)' <=> Holds(p)
  BY <1>2 DEF Holds, Owns, Owning, Procs
<1>4. l \notin Published \cup Publishing \cup {"g_unlock"}
  BY <1>1 DEF Published, Publishing, Owning, Granting
<1>5. \A u \in Threads : ~Live(u)' => place'[u] \in Preemptible
  BY <1>2 DEF KeptInv, Procs
<1>6. \A u \in Threads : granted_tid' = u =>
        active' /\ owner_tid' = u /\ u \notin reaped' /\ place'[u] \in Receiving
  BY <1>1, <1>2 DEF KeptInv, Procs
<1>7. \A p \in Procs : Holds(p)' /\ place'[p] \in Published =>
        active' /\ (p \in Threads => owner_tid' = p)
  BY <1>2, <1>3, <1>4 DEF KeptInv
<1>8. \A u \in Threads : Holds(u)' /\ place'[u] \in Publishing /\ (active' \/ place'[u] = "own1") =>
        owner_tid' = u
  BY <1>2, <1>3, <1>4 DEF KeptInv, Procs
<1>9. \A p \in Procs : Holds(p)' /\ place'[p] = "g_unlock" => ~active'
  BY <1>2, <1>3, <1>4 DEF KeptInv
<1>10. \A u \in Threads : ~Live(u) /\ place[u] \in Publishing => ~Live(u)' /\ place'[u] \in Publishing
  BY <1>2 DEF Procs
<1>11. lock' => \/ \E p \in Procs : Holds(p)'
                \/ ~active' /\ \E u \in Threads : ~Live(u)' /\ place'[u] \in Publishing
  <2>1. CASE \E p \in Procs : Holds(p)
    BY <1>3, <2>1
  <2>2. CASE ~active /\ \E u \in Threads : ~Live(u) /\ place[u] \in Publishing
    BY <1>2, <1>10, <2>2
  <2>3. QED
    BY <1>2, <2>1, <2>2 DEF KeptInv
<1>12. /\ place'[Reaper] = "abort" => active' /\ owner_tid' = victim'
       /\ place'[Reaper] \in Granting \cup {"g_end"} => granted_tid' # victim'
       /\ active' => lock'
  BY <1>2 DEF KeptInv
<1>13. QED
  BY <1>5, <1>6, <1>7, <1>8, <1>9, <1>11, <1>12 DEF KeptInv

\* Nobody moves and nobody dies but where it can be switched out.
LEMMA KeptStanding ==
    ASSUME HolderInv, KeptInv, UNCHANGED <<active, owner_tid, granted_tid, lock, place, reapVars>>,
           \A u \in Threads : /\ Live(u)' => Live(u)
                              /\ Live(u) /\ ~Live(u)' => place[u] \in Preemptible
    PROVE  KeptInv'
<1>1. \A p \in Procs : Holds(p)' <=> Holds(p)
  <2>1. \A p \in Threads : Live(p) /\ place[p] \in Owning =>
          p \notin reaped /\ ~(victim = p /\ place[Reaper] \in Granting \cup {"g_end"})
    BY DEF HolderInv, ReapInv, Granting
  <2>2. QED
    BY <2>1 DEF Holds, Owns, reapVars
<1>2. \A u \in Threads : ~Live(u)' => place[u] \in Preemptible
  BY DEF KeptInv
<1>3. lock => \/ \E p \in Procs : Holds(p)'
              \/ ~active /\ \E u \in Threads : ~Live(u)' /\ place[u] \in Publishing
  BY <1>1 DEF KeptInv
<1>4. \A p \in Procs : p \in Threads \/ p = Reaper
  BY DEF Procs
<1>5. /\ \A p \in Procs : Holds(p)' /\ place[p] \in Published => active /\ (p \in Threads => owner_tid = p)
      /\ \A p \in Procs : Holds(p)' /\ place[p] = "g_unlock" => ~active
  BY <1>1 DEF KeptInv
<1>6. \A t \in Threads : Holds(t)' /\ place[t] \in Publishing /\ (active \/ place[t] = "own1") =>
        owner_tid = t
  BY <1>1 DEF KeptInv, Procs
<1>7. QED
  BY <1>2, <1>3, <1>5, <1>6 DEF KeptInv, reapVars

\* The steps of InsideStep, when they leave a record that fits the holder.
LEMMA KeptInside ==
    ASSUME HolderInv, HolderInv', KeptInv, NEW t \in Threads, InsideMove(t),
           place'[t] \in Published => active' /\ owner_tid' = t,
           place'[t] \in Publishing /\ (active' \/ place'[t] = "own1") => owner_tid' = t
    PROVE  KeptInv'
<1>1. PICK l \in Owning \ {"g_active", "g_unlock"} : Goto(t, l)
  BY DEF InsideMove
<1>2. /\ place'[t] = l /\ \A p \in Procs \ {t} : place'[p] = place[p]
      /\ t # Reaper /\ t \in Procs /\ Reaper \in Procs
      /\ Live(t) /\ lock' /\ UNCHANGED <<victim, reaped>>
      /\ \A u \in Threads : Live(u)' <=> Live(u)
  BY <1>1, JournalOwnerConstants DEF HolderInv, HolderTypes, Goto, Procs, InsideMove, reapVars
<1>3. \A p \in Procs \ {t} : ~Holds(p)
  BY <1>2 DEF HolderInv, OneHolder, InsideMove
<1>4. Holds(t)' /\ \A p \in Procs \ {t} : ~Holds(p)'
  <2>1. Holds(t)'
    BY <1>1, <1>2 DEF Holds, Owns
  <2>2. QED
    BY <1>2, <2>1 DEF HolderInv, OneHolder
<1>5. \A u \in Threads : granted_tid' # u
  <2>1. SUFFICES ASSUME NEW u \in Threads, granted_tid' = u PROVE FALSE
    OBVIOUS
  <2>2. Holds(u)' /\ u \in Procs
    BY <2>1 DEF Holds, Owns, Procs
  <2>3. u = t
    BY <1>4, <2>2
  <2>4. QED
    BY <1>1, <1>2, <2>1, <2>3 DEF HolderInv, RecordInv
<1>6. place[Reaper] # "abort"
  BY <1>2, <1>3 DEF HolderInv, ReapInv, Procs
<1>7. place[Reaper] # "idle" => victim \in Threads
  BY DEF HolderInv, ReapInv
<1>8. \A u \in Threads : ~Live(u)' => place'[u] \in Preemptible
  BY <1>2 DEF KeptInv, Procs
<1>9. \A p \in Procs : Holds(p)' /\ place'[p] \in Published =>
        active' /\ (p \in Threads => owner_tid' = p)
  BY <1>4
<1>10. \A u \in Threads : Holds(u)' /\ place'[u] \in Publishing /\ (active' \/ place'[u] = "own1") =>
         owner_tid' = u
  BY <1>4 DEF Procs
<1>11. \A p \in Procs : Holds(p)' /\ place'[p] = "g_unlock" => ~active'
  BY <1>1, <1>2, <1>4
<1>12. place'[Reaper] \in Granting \cup {"g_end"} => granted_tid' # victim'
  BY <1>2, <1>5, <1>7 DEF Granting
<1>13. QED
  BY <1>2, <1>4, <1>5, <1>6, <1>8, <1>9, <1>10, <1>11, <1>12 DEF KeptInv

\* A try-lock, a grant and the owner's own steps leave such a record.
LEMMA KeptOwning ==
    ASSUME HolderInv, HolderInv', KeptInv, NEW t \in Threads,
           \/ Acquired(t) \/ ext3_forward_grant(t) \/ PublishOwner(t) \/ ext3_journal_start(t)
           \/ MergeRunning(t) \/ ShouldDefer(t) \/ CommitChain(t) \/ ext3_take_grant(t)
           \/ (TryLock(t) \/ RetryLock(t)) /\ ~lock
           \/ (Regrant(t) \/ Interrupted(t)) /\ granted_tid = t
    PROVE  KeptInv'
<1>1. InsideMove(t) /\ HolderTypes /\ t \in Procs /\ Live(t)
  BY OwningMove DEF HolderInv, Procs, InsideMove
<1>2. place[t] \in Owning => Holds(t)
  BY <1>1 DEF Holds, Owns
<1>3. CASE (TryLock(t) \/ RetryLock(t)) /\ ~lock
  <2>1. ~active' /\ \E l \in {"own0", "acquired"} : Goto(t, l)
    <3>1. ~active
      BY <1>3 DEF KeptInv
    <3>2. active' = active /\ (Goto(t, "own0") \/ Goto(t, "acquired"))
      BY <1>3 DEF TryLock, RetryLock
    <3>3. QED
      BY <3>1, <3>2
  <2>2. place'[t] \in {"own0", "acquired"}
    BY <1>1, <2>1, GotoMoves
  <2>3. place'[t] \notin Published /\ place'[t] # "own1"
    BY <2>2 DEF Published
  <2>4. QED
    BY <1>1, <2>1, <2>3, KeptInside
<1>4. CASE ((Regrant(t) \/ Interrupted(t)) /\ granted_tid = t) \/ ext3_take_grant(t)
  <2>1. granted_tid = t
    BY <1>4 DEF ext3_take_grant, At, HolderInv, RecordInv, Live
  <2>2. active' /\ owner_tid' = t
    BY <1>4, <2>1 DEF KeptInv, Regrant, Interrupted, ext3_take_grant
  <2>3. QED
    BY <1>1, <2>2, KeptInside
<1>5. CASE Acquired(t)
  <2>1. /\ place[t] = "acquired" /\ Goto(t, "own0") /\ UNCHANGED <<active, owner_tid>>
    BY <1>5 DEF Acquired, At, journalVars
  <2>2. place'[t] = "own0" /\ (active => owner_tid = t)
    BY <1>1, <1>2, <2>1, GotoMoves DEF KeptInv, Publishing, Owning
  <2>3. place'[t] \notin Published /\ place'[t] # "own1"
    BY <2>2 DEF Published
  <2>4. QED
    BY <1>1, <2>1, <2>2, <2>3, KeptInside
<1>6. CASE PublishOwner(t)
  <2>1. owner_tid' = t /\ Goto(t, "own1")
    BY <1>6 DEF PublishOwner
  <2>2. place'[t] = "own1"
    BY <1>1, <2>1, GotoMoves
  <2>3. place'[t] \notin Published
    BY <2>2 DEF Published
  <2>4. QED
    BY <1>1, <2>1, <2>3, KeptInside
<1>7. CASE ext3_journal_start(t)
  <2>1. place[t] = "own1" /\ active' /\ owner_tid' = owner_tid
    BY <1>7 DEF ext3_journal_start, At
  <2>2. owner_tid = t
    BY <1>2, <2>1 DEF KeptInv, Publishing, Owning
  <2>3. QED
    BY <1>1, <2>1, <2>2, KeptInside
<1>8. CASE ext3_forward_grant(t) \/ MergeRunning(t) \/ ShouldDefer(t) \/ CommitChain(t)
  <2>1. place[t] \in {"forward", "own", "decide", "commit", "forward_commit"}
    BY <1>8 DEF ext3_forward_grant, MergeRunning, ShouldDefer, CommitChain, At
  <2>2. UNCHANGED <<active, owner_tid>>
    BY <1>8 DEF ext3_forward_grant, MergeRunning, ShouldDefer, CommitChain, journalVars
  <2>3. place[t] \in Owning /\ place[t] \in Published
    BY <2>1 DEF Owning, Published
  <2>4. active /\ owner_tid = t
    BY <1>1, <1>2, <2>3 DEF KeptInv
  <2>5. QED
    BY <1>1, <2>2, <2>4, KeptInside
<1>9. QED
  BY <1>3, <1>4, <1>5, <1>6, <1>7, <1>8

\* The holder records and grants the oldest live waiter, or nobody.
LEMMA KeptGrantNext ==
    ASSUME HolderInv, HolderInv', WaitersInv, KeptInv,
           NEW p \in Procs, p \in Threads => Live(p), ext3_grant_next(p)
    PROVE  KeptInv'
<1>1. /\ place[p] = "grant" /\ UNCHANGED <<active, lock, victim, reaped>>
      /\ Reaper \in Procs /\ Reaper \notin Threads /\ HolderTypes
  BY JournalOwnerConstants DEF ext3_grant_next, Procs, reapVars, HolderInv
<1>2. Holds(p) /\ \A q \in Procs \ {p} : ~Holds(q)
  BY <1>1 DEF HolderInv, OneHolder, Holds, Owns, Owning, Granting, Procs
<1>3. lock /\ active
  BY <1>1, <1>2 DEF HolderInv, OneHolder, KeptInv, Published
<1>4. \A t \in Threads : Live(t) => t \notin reaped /\ (place[Reaper] # "idle" => t # victim)
  BY DEF HolderInv, ReapInv
<1>5. place[Reaper] # "abort"
  BY <1>1, <1>2, <1>4 DEF HolderInv, ReapInv, Procs
<1>6. CASE \E w \in Threads :
             /\ Receives(w)
             /\ owner_tid' = w /\ granted_tid' = w
             /\ state' = [state EXCEPT ![w] = IF @ = "BLOCKED" THEN "RUNNING" ELSE @]
             /\ Goto(p, "g_end")
  <2>1. PICK w \in Threads :
             /\ Live(w) /\ owner_tid' = w /\ granted_tid' = w
             /\ \E i \in DOMAIN waiters : waiters[i] = w
             /\ state' = [state EXCEPT ![w] = IF @ = "BLOCKED" THEN "RUNNING" ELSE @]
             /\ Goto(p, "g_end")
    BY <1>6 DEF Receives
  <2>2. /\ place'[p] = "g_end" /\ \A q \in Procs \ {p} : place'[q] = place[q]
        /\ \A u \in Threads : Live(u)' <=> Live(u)
    BY <1>1, <2>1, GotoMoves DEF HolderTypes, Live
  <2>3. place[w] \in Parked
    BY <2>1 DEF WaitersInv
  <2>4. w # p /\ w \in Procs
    BY <1>1, <2>1, <2>3 DEF Parked, Procs
  <2>5. place[w] # "acquired"
    BY <1>2, <2>1, <2>4 DEF Holds, Owns, Owning
  <2>6. place'[w] \in Receiving
    BY <2>2, <2>3, <2>4, <2>5 DEF Parked, Receiving
  <2>7. Holds(w)' /\ \A q \in Procs : Holds(q)' => q = w
    <3>1. Holds(w)'
      BY <2>1 DEF Holds, Owns
    <3>2. QED
      BY <2>4, <3>1 DEF HolderInv, OneHolder
  <2>8. place'[w] \notin Published \cup Publishing \cup {"g_unlock"}
    BY <2>6 DEF Receiving, Published, Publishing
  <2>9. \A u \in Threads : ~Live(u)' => place'[u] \in Preemptible
    BY <2>2 DEF KeptInv, Procs
  <2>10. /\ place'[Reaper] # "abort"
         /\ place'[Reaper] # "idle" => w # victim
    BY <1>1, <1>4, <1>5, <2>1, <2>2
  <2>11. place'[Reaper] \in Granting \cup {"g_end"} => granted_tid' # victim'
    BY <1>1, <2>1, <2>10 DEF Granting
  <2>12. w \notin reaped'
    BY <1>1, <1>4, <2>1
  <2>13. QED
    BY <1>1, <1>3, <2>1, <2>4, <2>6, <2>7, <2>8, <2>9, <2>10, <2>11, <2>12 DEF KeptInv, Procs
<1>7. CASE owner_tid' = None /\ Goto(p, "g_active") /\ UNCHANGED <<granted_tid, state>>
  <2>1. /\ place'[p] = "g_active" /\ \A q \in Procs \ {p} : place'[q] = place[q]
        /\ \A u \in Threads : Live(u)' <=> Live(u)
    BY <1>1, <1>7, GotoMoves DEF Live
  <2>2. Holds(p)'
    BY <1>1, <2>1 DEF Holds, Owns, Owning, Granting, Procs
  <2>3. \A q \in Procs : Holds(q)' => q = p
    BY <2>2 DEF HolderInv, OneHolder
  <2>4. \A u \in Threads : granted_tid' # u
    <3>1. SUFFICES ASSUME NEW u \in Threads, granted_tid' = u PROVE FALSE
      OBVIOUS
    <3>2. Holds(u)' /\ u \in Procs
      BY <3>1 DEF Holds, Owns, Procs
    <3>3. u = p
      BY <2>3, <3>2
    <3>4. QED
      BY <2>1, <3>1, <3>3 DEF HolderInv, RecordInv, Owning, Granting
  <2>5. \A u \in Threads : ~Live(u)' => place'[u] \in Preemptible
    BY <2>1 DEF KeptInv, Procs
  <2>6. /\ place'[Reaper] # "abort"
        /\ place'[Reaper] \in Granting \cup {"g_end"} => granted_tid' # victim'
    <3>1. place'[Reaper] # "abort"
      BY <1>1, <1>5, <2>1
    <3>2. place'[Reaper] \in Granting \cup {"g_end"} => victim' \in Threads
      BY DEF HolderInv, ReapInv, Granting
    <3>3. QED
      BY <2>4, <3>1, <3>2
  <2>7. place'[p] \notin Published \cup Publishing \cup {"g_unlock"}
    BY <2>1 DEF Published, Publishing
  <2>8. QED
    BY <1>1, <1>3, <2>2, <2>3, <2>4, <2>5, <2>6, <2>7 DEF KeptInv, Procs
<1>8. QED
  BY <1>6, <1>7 DEF ext3_grant_next

\* With no successor the holder clears active, then drops the lock.
LEMMA KeptGoIdle ==
    ASSUME HolderInv, HolderInv', KeptInv, NEW p \in Procs, p \in Threads => Live(p), GoIdle(p)
    PROVE  KeptInv'
<1>1. /\ Reaper \in Procs /\ Reaper \notin Threads /\ HolderTypes
      /\ place[p] \in {"g_active", "g_unlock"}
      /\ UNCHANGED <<owner_tid, granted_tid, state, victim, reaped>>
      /\ \A u \in Threads : Live(u)' <=> Live(u)
  BY JournalOwnerConstants DEF GoIdle, Procs, reapVars, HolderInv, Live
<1>2. Holds(p) /\ \A q \in Procs \ {p} : ~Holds(q)
  BY <1>1 DEF HolderInv, OneHolder, Holds, Owns, Owning, Granting, Procs
<1>3. PICK l \in {"g_unlock", "g_end"} :
        /\ Goto(p, l)
        /\ l = "g_unlock" => lock' = lock /\ active' = FALSE
        /\ l = "g_end" => lock' = FALSE /\ active' = active /\ place[p] = "g_unlock"
  BY DEF GoIdle
<1>4. /\ place'[p] = l /\ \A q \in Procs \ {p} : place'[q] = place[q]
  BY <1>1, <1>3, GotoMoves
<1>5. ~active'
  BY <1>2, <1>3 DEF KeptInv
<1>6. \A q \in Procs \ {p} : ~Holds(q)'
  <2>1. CASE p = Reaper
    BY <1>1, <1>2, <1>4, <2>1 DEF Holds, Owns, Granting, Procs
  <2>2. CASE p # Reaper
    BY <1>1, <1>2, <1>4, <2>2 DEF Holds, Owns, Granting, Procs
  <2>3. QED
    BY <2>1, <2>2
<1>7. \A u \in Threads : granted_tid' # u
  BY <1>1, <1>2 DEF HolderInv, RecordInv, Holds, Owns, Owning, Granting, Procs
<1>8. \A u \in Threads : ~Live(u)' => place'[u] \in Preemptible
  BY <1>1, <1>4 DEF KeptInv, Procs
<1>9. lock' => Holds(p)'
  <2>1. CASE l = "g_end"
    BY <1>3, <2>1
  <2>2. CASE l = "g_unlock"
    BY <1>1, <1>4, <2>2 DEF Holds, Owns, Owning, Granting, Procs
  <2>3. QED
    BY <1>3, <2>1, <2>2
<1>10. /\ place'[Reaper] # "abort"
       /\ place'[Reaper] \in Granting \cup {"g_end"} => granted_tid' # victim'
  <2>1. p = Reaper \/ place[Reaper] # "abort"
    BY <1>2 DEF HolderInv, ReapInv, Procs
  <2>2. place'[Reaper] # "abort"
    BY <1>1, <1>4, <2>1
  <2>3. place'[Reaper] \in Granting \cup {"g_end"} => victim' \in Threads
    BY DEF HolderInv, ReapInv, Granting
  <2>4. QED
    BY <1>7, <2>2, <2>3
<1>11. place'[p] \notin Published \cup Publishing
  BY <1>4 DEF Published, Publishing
<1>12. QED
  BY <1>5, <1>6, <1>7, <1>8, <1>9, <1>10, <1>11 DEF KeptInv, Procs

\* The reaper is done with its victim: what the lock's holder was is no more
\* than a thread killed before the journal was active.
LEMMA KeptReaped ==
    ASSUME HolderInv, KeptInv, place[Reaper] \in {"check", "g_end"}, Goto(Reaper, "idle"),
           place[Reaper] = "check" => owner_tid # victim \/ ~active,
           reaped' = reaped \cup {victim}, victim' = None,
           UNCHANGED <<active, owner_tid, granted_tid, lock, state>>
    PROVE  KeptInv'
<1>1. /\ Reaper \in Procs /\ Reaper \notin Threads /\ HolderTypes
      /\ victim \in Threads \ reaped /\ ~Live(victim)
      /\ \A u \in Threads : Live(u)' <=> Live(u)
  BY JournalOwnerConstants DEF HolderInv, ReapInv, Procs, Live
<1>2. /\ place'[Reaper] = "idle" /\ \A q \in Procs \ {Reaper} : place'[q] = place[q]
  BY <1>1, GotoMoves
<1>3. \A q \in Procs : /\ Holds(q)' => Holds(q)
                       /\ q # victim => (Holds(q) => Holds(q)')
  BY <1>1, <1>2, JournalOwnerConstants DEF Holds, Owns, Owning, Granting, Procs
<1>4. granted_tid # victim
  <2>1. CASE place[Reaper] = "g_end"
    BY <2>1 DEF KeptInv
  <2>2. CASE place[Reaper] = "check"
    BY <1>1, <2>2 DEF KeptInv
  <2>3. QED
    BY <2>1, <2>2
<1>5. Holds(victim) => ~active /\ place[victim] \in Publishing
  <2>1. SUFFICES ASSUME Holds(victim) PROVE ~active /\ place[victim] \in Publishing
    OBVIOUS
  <2>2. place[Reaper] = "check" /\ place[victim] \in Owning
    BY <1>1, <1>4, <2>1 DEF Holds, Owns
  <2>3. place[victim] \in Preemptible
    BY <1>1 DEF KeptInv
  <2>4. place[victim] \in Published \cup Publishing
    BY SMT, <2>2, <2>3 DEF Owning, Granting, Preemptible, Published, Publishing
  <2>5. place[victim] \notin Published
    <3>1. victim \in Procs
      BY <1>1 DEF Procs
    <3>2. QED
      BY <1>1, <2>1, <2>2, <3>1 DEF KeptInv
  <2>6. active => owner_tid = victim
    BY <1>1, <2>1, <2>4, <2>5 DEF KeptInv
  <2>7. QED
    BY <2>2, <2>4, <2>5, <2>6
<1>6. \A u \in Threads : place'[u] = place[u]
  BY <1>1, <1>2 DEF Procs
<1>7. lock => \/ \E p \in Procs : Holds(p)'
              \/ ~active /\ \E u \in Threads : ~Live(u) /\ place[u] \in Publishing
  <2>1. ASSUME NEW p \in Procs, Holds(p)
        PROVE  Holds(p)' \/ (~active /\ ~Live(victim) /\ place[victim] \in Publishing)
    BY <1>1, <1>3, <1>5, <2>1
  <2>2. QED
    BY <1>1, <2>1 DEF KeptInv
<1>8. \A u \in Threads : ~Live(u)' => place'[u] \in Preemptible
  BY <1>1, <1>6 DEF KeptInv
<1>9. \A u \in Threads : granted_tid' = u =>
        active' /\ owner_tid' = u /\ u \notin reaped' /\ place'[u] \in Receiving
  BY <1>4, <1>6 DEF KeptInv
<1>10. \A p \in Procs : /\ Holds(p)' /\ place'[p] \in Published =>
                             active' /\ (p \in Threads => owner_tid' = p)
                        /\ Holds(p)' /\ place'[p] = "g_unlock" => ~active'
  BY <1>2, <1>3 DEF KeptInv, Published
<1>11. \A u \in Threads : Holds(u)' /\ place'[u] \in Publishing /\ (active' \/ place'[u] = "own1") =>
         owner_tid' = u
  BY <1>3, <1>6 DEF KeptInv, Procs
<1>12. lock' => \/ \E p \in Procs : Holds(p)'
                \/ ~active' /\ \E u \in Threads : ~Live(u)' /\ place'[u] \in Publishing
  BY <1>1, <1>6, <1>7
<1>13. /\ place'[Reaper] # "abort" /\ place'[Reaper] \notin Granting \cup {"g_end"}
       /\ active' => lock'
  BY <1>2 DEF KeptInv, Granting
<1>14. QED
  BY <1>8, <1>9, <1>10, <1>11, <1>12, <1>13 DEF KeptInv

\* The reaper picks a dead thread, and recognises the recorded owner in it.
LEMMA KeptReaper ==
    ASSUME HolderInv, HolderInv', KeptInv,
           \/ \E t \in Threads : Reap(t)
           \/ ReleaseCheck \/ ext3_journal_release_owner
    PROVE  KeptInv'
<1>1. Reaper \in Procs /\ Reaper \notin Threads /\ HolderTypes
  BY JournalOwnerConstants DEF Procs, HolderInv
<1>2. ASSUME NEW l \in {"check", "abort"}, Goto(Reaper, l), place[Reaper] \in {"idle", "check"},
             l = "abort" => active /\ owner_tid = victim /\ victim' = victim,
             UNCHANGED <<active, owner_tid, granted_tid, lock, state, reaped>>
      PROVE  KeptInv'
  <2>1. /\ place'[Reaper] = l /\ \A q \in Procs \ {Reaper} : place'[q] = place[q]
        /\ \A u \in Threads : place'[u] = place[u] /\ (Live(u)' <=> Live(u))
    BY <1>1, <1>2, GotoMoves DEF Procs, Live
  <2>2. \A q \in Procs : Holds(q)' <=> Holds(q)
    BY <1>1, <1>2, <2>1 DEF Holds, Owns, Owning, Granting, Procs
  <2>3. \A u \in Threads : ~Live(u)' => place'[u] \in Preemptible
    BY <2>1 DEF KeptInv
  <2>4. \A u \in Threads : granted_tid' = u =>
          active' /\ owner_tid' = u /\ u \notin reaped' /\ place'[u] \in Receiving
    BY <1>2, <2>1 DEF KeptInv
  <2>5. \A p \in Procs : /\ Holds(p)' /\ place'[p] \in Published =>
                              active' /\ (p \in Threads => owner_tid' = p)
                         /\ Holds(p)' /\ place'[p] = "g_unlock" => ~active'
    BY <1>2, <2>1, <2>2 DEF KeptInv, Published
  <2>6. \A u \in Threads : Holds(u)' /\ place'[u] \in Publishing /\ (active' \/ place'[u] = "own1") =>
           owner_tid' = u
    BY <1>2, <2>1, <2>2 DEF KeptInv, Procs
  <2>7. lock' => \/ \E p \in Procs : Holds(p)'
                 \/ ~active' /\ \E u \in Threads : ~Live(u)' /\ place'[u] \in Publishing
    <3>1. CASE \E p \in Procs : Holds(p)
      BY <2>2, <3>1
    <3>2. CASE ~active /\ \E u \in Threads : ~Live(u) /\ place[u] \in Publishing
      BY <1>2, <2>1, <3>2
    <3>3. QED
      BY <1>2, <3>1, <3>2 DEF KeptInv
  <2>8. /\ place'[Reaper] = "abort" => active' /\ owner_tid' = victim'
        /\ place'[Reaper] \notin Granting \cup {"g_end"}
        /\ active' => lock'
    BY <1>2, <2>1 DEF KeptInv, Granting
  <2>9. QED
    BY <2>3, <2>4, <2>5, <2>6, <2>7, <2>8 DEF KeptInv
<1>3. ASSUME NEW t \in Threads, Reap(t) PROVE KeptInv'
  <2>1. /\ place[Reaper] = "idle" /\ Goto(Reaper, "check")
        /\ UNCHANGED <<active, owner_tid, granted_tid, lock, state, reaped>>
    BY <1>3 DEF Reap, journalVars
  <2>2. QED
    BY <1>2, <2>1
<1>4. CASE ReleaseCheck
  <2>1. place[Reaper] = "check" /\ UNCHANGED <<active, owner_tid, granted_tid, lock, state>>
    BY <1>4 DEF ReleaseCheck, journalVars
  <2>2. CASE active /\ owner_tid = victim
    <3>1. Goto(Reaper, "abort") /\ UNCHANGED <<victim, reaped>>
      BY <1>4, <2>2 DEF ReleaseCheck, reapVars
    <3>2. QED
      BY <1>2, <2>1, <2>2, <3>1
  <2>3. CASE ~(active /\ owner_tid = victim)
    BY <1>4, <2>1, <2>3, KeptReaped DEF ReleaseCheck
  <2>4. QED
    BY <2>2, <2>3
<1>5. CASE ext3_journal_release_owner
  <2>1. /\ place[Reaper] = "abort" /\ UNCHANGED <<active, owner_tid, lock, state>>
        /\ active /\ active \in BOOLEAN
    BY <1>1, <1>5 DEF ext3_journal_release_owner, KeptInv, HolderTypes
  <2>2. /\ victim \in Threads \ reaped /\ ~Live(victim) /\ Holds(victim) /\ victim \in Procs
    BY <2>1 DEF HolderInv, ReapInv, Procs
  <2>3. lock /\ \A q \in Procs \ {victim} : ~Holds(q)
    BY <2>2 DEF HolderInv, OneHolder
  <2>4. /\ Goto(Reaper, "grant") /\ UNCHANGED <<victim, reaped>>
        /\ granted_tid' = None \/ (granted_tid' = granted_tid /\ granted_tid # victim)
    BY <1>5, <2>3 DEF ext3_journal_release_owner, reapVars
  <2>5. \A u \in Threads : granted_tid' # u
    BY <2>3, <2>4, JournalOwnerConstants DEF Holds, Owns, Procs
  <2>6. /\ place'[Reaper] = "grant" /\ \A q \in Procs \ {Reaper} : place'[q] = place[q]
        /\ \A u \in Threads : place'[u] = place[u] /\ (Live(u)' <=> Live(u))
    BY <1>1, <2>1, <2>4, GotoMoves DEF Procs, Live
  <2>7. Holds(Reaper)' /\ \A q \in Procs : Holds(q)' => q = Reaper
    <3>1. Holds(Reaper)'
      BY <2>6 DEF Holds, Owns, Granting
    <3>2. QED
      BY <1>1, <3>1 DEF HolderInv, OneHolder
  <2>8. \A u \in Threads : ~Live(u)' => place'[u] \in Preemptible
    BY <2>6 DEF KeptInv
  <2>9. place'[Reaper] # "abort" /\ place'[Reaper] # "g_unlock" /\ granted_tid' # victim'
    BY <2>2, <2>4, <2>5, <2>6
  <2>10. QED
    BY <1>1, <2>1, <2>3, <2>5, <2>7, <2>8, <2>9 DEF KeptInv, Procs
<1>6. QED
  BY <1>3, <1>4, <1>5

\* Every step preserves the record.
LEMMA KeptStep ==
    HolderInv /\ WaitersInv /\ KeptInv /\ [OwnerNext]_ownerVars => KeptInv'
<1>1. SUFFICES ASSUME HolderInv, WaitersInv, KeptInv, [OwnerNext]_ownerVars PROVE KeptInv'
  OBVIOUS
<1>2. HolderInv' /\ HolderTypes
  BY <1>1, OwnerNextInv DEF HolderInv
<1>3. CASE UNCHANGED ownerVars
  <2>1. UNCHANGED <<active, owner_tid, granted_tid, lock, place, reapVars, state>>
    BY <1>3 DEF ownerVars, journalVars
  <2>2. QED
    BY <1>1, <2>1, KeptStanding DEF Live
<1>4. ASSUME NEW t \in Threads,
             \/ NestedStart(t) \/ NestedStop(t) \/ StageBlock(t)
             \/ Signal(t) \/ Timeout(t) \/ Kill(t)
      PROVE  KeptInv'
  <2>1. UNCHANGED <<active, owner_tid, granted_tid, lock, place, reapVars>>
    BY <1>4 DEF NestedStart, NestedStop, StageBlock, Signal, Timeout, Kill, journalVars
  <2>2. \/ state' = state
        \/ state' = [state EXCEPT ![t] = "DEAD"] /\ place[t] \in Preemptible
        \/ Live(t) /\ \E x \in {"RUNNING", state[t]} : state' = [state EXCEPT ![t] = x]
    BY <1>4 DEF NestedStart, NestedStop, StageBlock, Signal, Timeout, Kill, Live
  <2>3. \A u \in Threads : /\ Live(u)' => Live(u)
                           /\ Live(u) /\ ~Live(u)' => place[u] \in Preemptible
    BY <1>2, <2>2 DEF HolderTypes, Live
  <2>4. QED
    BY <1>1, <2>1, <2>3, KeptStanding
<1>5. ASSUME NEW p \in Procs, Grant(p) PROVE KeptInv'
  <2>1. CASE ext3_grant_next(p) \/ GoIdle(p)
    BY <1>1, <1>2, <1>5, <2>1, KeptGrantNext, KeptGoIdle DEF Grant
  <2>2. CASE GrantEnd(p) /\ p \in Threads
    BY <1>1, <1>5, <2>2, WaitingMove, KeptOutside DEF Grant
  <2>3. CASE GrantEnd(p) /\ p = Reaper
    BY <1>1, <2>3, KeptReaped DEF GrantEnd
  <2>4. QED
    BY <1>5, <2>1, <2>2, <2>3 DEF Grant, Procs
<1>6. ASSUME NEW t \in Threads, Thread(t) \/ Begin(t) PROVE KeptInv'
  <2>1. lock \in BOOLEAN /\ t \in Procs
    BY <1>2 DEF HolderTypes, Procs
  <2>2. OutsideMove(t) => KeptInv'
    BY <1>1, KeptOutside
  <2>3. CASE TryLock(t) \/ RetryLock(t) \/ Regrant(t) \/ Interrupted(t)
    BY <1>1, <1>2, <2>1, <2>2, <2>3, WaitingMove, KeptOwning
  <2>4. QED
    BY <1>1, <1>2, <1>4, <1>5, <1>6, <2>1, <2>2, <2>3, WaitingMove, KeptOwning DEF Thread
<1>7. CASE Reaping
  <2>1. Reaper \in Procs
    BY DEF Procs
  <2>2. QED
    BY <1>1, <1>2, <1>5, <1>7, <2>1, KeptReaper DEF Reaping
<1>8. CASE OwnerNext
  BY <1>1, <1>4, <1>6, <1>7, <1>8 DEF OwnerNext
<1>9. QED
  BY <1>1, <1>3, <1>8

-----------------------------------------------------------------------------
(* The closed chain. *)

\* There is no chain at first.
LEMMA ChainInit == OwnerInit => ChainInv
BY DEF OwnerInit, ChainInv, ChainTypes, Forwarding, Granting, Procs

\* No thread moves; one may be signalled, woken or killed.
LEMMA ChainStanding ==
    ASSUME ChainInv, ChainTypes', UNCHANGED <<closed_chain, orphaned, lock, deferred, no_defer>>,
           \A u \in Threads : /\ place'[u] = place[u] /\ (sig[u] => sig'[u])
                              /\ Live(u)' => Live(u)
    PROVE  ChainInv'
<1>1. \A u \in Threads : Looking(u) => Looking(u)'
  BY DEF Looking
<1>2. closed_chain' /\ ~orphaned' => lock' \/ \E t \in Threads : Looking(t)'
  BY <1>1 DEF ChainInv
<1>3. QED
  BY <1>2 DEF ChainInv

\* A holder moves, and keeps the lock.
LEMMA ChainHeld ==
    ASSUME HolderInv, ChainInv, ChainTypes', NEW t \in Threads, Holds(t) \/ ~lock, lock',
           \A u \in Threads \ {t} :
             place'[u] = place[u] /\ sig'[u] = sig[u] /\ (Live(u)' <=> Live(u)),
           place'[t] \in Forwarding => sig'[t],
           place'[t] \in Granting /\ closed_chain' => deferred'[t] \/ sig'[t]
    PROVE  ChainInv'
<1>1. ASSUME NEW u \in Threads \ {t} PROVE ~(Live(u)' /\ place'[u] \in Granting)
  <2>1. ~Holds(u)
    BY <1>1 DEF HolderInv, OneHolder, Procs
  <2>2. QED
    BY <1>1, <2>1 DEF Holds, Owns, Owning
<1>2. \A u \in Threads : place'[u] \in Forwarding => sig'[u]
  BY DEF ChainInv
<1>3. QED
  BY <1>1, <1>2 DEF ChainInv

\* A thread outside moves, and does not forget the chain.
LEMMA ChainOutside ==
    ASSUME ChainInv, ChainTypes', NEW t \in Threads,
           UNCHANGED <<closed_chain, orphaned, lock>>,
           \A u \in Threads \ {t} :
             /\ place'[u] = place[u] /\ sig'[u] = sig[u] /\ (Live(u)' <=> Live(u))
             /\ deferred'[u] = deferred[u] /\ no_defer'[u] = no_defer[u],
           place'[t] \notin Granting, place'[t] \in Forwarding => sig'[t],
           closed_chain /\ Looking(t) => Looking(t)' \/ lock
    PROVE  ChainInv'
<1>1. \A u \in Threads : closed_chain /\ Looking(u) => Looking(u)' \/ lock
  BY DEF Looking
<1>2. closed_chain' /\ ~orphaned' => lock' \/ \E u \in Threads : Looking(u)'
  BY <1>1 DEF ChainInv
<1>3. \A u \in Threads : place'[u] \in Forwarding => sig'[u]
  BY DEF ChainInv
<1>4. \A u \in Threads : Live(u)' /\ place'[u] \in Granting /\ closed_chain' =>
        deferred'[u] \/ sig'[u]
  BY DEF ChainInv
<1>5. QED
  BY <1>2, <1>3, <1>4 DEF ChainInv

\* Steps that take the free lock or a grant, and steps of the owner.
LEMMA ChainOwning ==
    ASSUME HolderInv, ChainInv, NEW t \in Threads,
           \/ Acquired(t) \/ ext3_forward_grant(t) \/ PublishOwner(t) \/ ext3_journal_start(t)
           \/ MergeRunning(t) \/ ShouldDefer(t) \/ CommitChain(t) \/ ext3_take_grant(t)
           \/ (TryLock(t) \/ RetryLock(t)) /\ ~lock
           \/ (Regrant(t) \/ Interrupted(t)) /\ granted_tid = t
    PROVE  ChainInv'
<1>1. InsideMove(t) /\ HolderTypes /\ ChainTypes /\ t \in Procs
  BY OwningMove DEF HolderInv, Procs, ChainInv
<1>2. /\ Holds(t) \/ ~lock
      /\ lock' /\ \A u \in Threads \ {t} : place'[u] = place[u] /\ (Live(u)' <=> Live(u))
  BY <1>1, GotoMoves DEF InsideMove, Procs
<1>3. UNCHANGED <<sig, no_defer, orphaned>>
  BY DEF Acquired, ext3_forward_grant, PublishOwner, ext3_journal_start, MergeRunning,
         ShouldDefer, CommitChain, ext3_take_grant, TryLock, RetryLock, Regrant,
         Interrupted, localVars
<1>4. ChainTypes'
  <2>1. deferred' \in [Threads -> BOOLEAN]
    <3>1. deferred' = deferred \/ \E b \in BOOLEAN : deferred' = [deferred EXCEPT ![t] = b]
      BY DEF Acquired, ext3_forward_grant, PublishOwner, ext3_journal_start, MergeRunning,
             ShouldDefer, CommitChain, ext3_take_grant, TryLock, RetryLock, Regrant,
             Interrupted, localVars
    <3>2. QED
      BY <1>1, <3>1 DEF ChainTypes
  <2>2. closed_chain' \in BOOLEAN
    <3>1. closed_chain' = closed_chain \/ MergeRunning(t) \/ closed_chain' = FALSE
      BY DEF Acquired, ext3_forward_grant, PublishOwner, ext3_journal_start,
             ShouldDefer, CommitChain, ext3_take_grant, TryLock, RetryLock, Regrant,
             Interrupted, chainVars
    <3>2. QED
      BY <1>1, <3>1 DEF ChainTypes, MergeRunning
  <2>3. QED
    BY <1>1, <1>3, <2>1, <2>2 DEF ChainTypes
<1>5. CASE \E l \in {"acquired", "own0", "own1", "own", "decide", "commit"} : Goto(t, l)
  <2>1. place'[t] \in {"acquired", "own0", "own1", "own", "decide", "commit"}
    BY <1>1, <1>5, GotoMoves
  <2>2. place'[t] \notin Forwarding \cup Granting
    BY <2>1 DEF Forwarding, Granting
  <2>3. QED
    BY <1>2, <1>3, <1>4, <2>2, ChainHeld
<1>6. CASE (Interrupted(t) /\ granted_tid = t) \/ ext3_forward_grant(t)
  <2>1. place[t] \in Forwarding
    BY <1>6 DEF Interrupted, ext3_forward_grant, At, Forwarding
  <2>2. sig'[t]
    BY <1>3, <2>1 DEF ChainInv
  <2>3. QED
    BY <1>2, <1>3, <1>4, <2>2, ChainHeld
<1>7. CASE (ShouldDefer(t) /\ Goto(t, "grant")) \/ CommitChain(t)
  <2>1. Goto(t, "grant")
    BY <1>7 DEF CommitChain
  <2>2. place'[t] = "grant"
    BY <1>1, <2>1, GotoMoves
  <2>3. place'[t] \notin Forwarding
    BY <2>2 DEF Forwarding
  <2>4. closed_chain' => deferred'[t]
    <3>1. CASE CommitChain(t)
      BY <3>1 DEF CommitChain
    <3>2. CASE ShouldDefer(t)
      <4>1. CASE Goto(t, "commit")
        <5>1. place'[t] = "commit"
          BY <1>1, <4>1, GotoMoves
        <5>2. QED
          BY <2>2, <5>1
      <4>2. CASE deferred' = [deferred EXCEPT ![t] = TRUE]
        BY <1>1, <4>2 DEF ChainTypes
      <4>3. CASE ~closed_chain /\ closed_chain' = closed_chain
        BY <4>3
      <4>4. QED
        BY <3>2, <4>1, <4>2, <4>3 DEF ShouldDefer, chainVars
    <3>3. QED
      BY <1>7, <3>1, <3>2
  <2>5. QED
    BY <1>2, <1>3, <1>4, <2>3, <2>4, ChainHeld
<1>8. QED
  BY <1>5, <1>6, <1>7
  DEF Acquired, PublishOwner, ext3_journal_start, MergeRunning,
      ShouldDefer, ext3_take_grant, TryLock, RetryLock, Regrant

\* Steps of a thread that holds nothing and takes nothing: one that is to look
\* at the chain does, or finds the journal owned.
LEMMA ChainWaiting ==
    ASSUME HolderInv, KeptInv, ChainInv, NEW t \in Threads,
           \/ Begin(t) \/ TakeGrantLock(t) \/ ReadActive(t) \/ Park(t) \/ Recheck(t)
           \/ Woken(t) \/ ext3_journal_stop(t) \/ (GrantEnd(t) /\ Live(t))
           \/ (TryLock(t) \/ RetryLock(t)) /\ lock
           \/ (Regrant(t) \/ Interrupted(t)) /\ granted_tid # t
    PROVE  ChainInv'
<1>1. /\ OutsideMove(t) /\ HolderTypes /\ ChainTypes /\ t \in Procs /\ t # Reaper /\ Live(t)
      /\ closed_chain \in BOOLEAN /\ active \in BOOLEAN
      /\ sig \in [Threads -> BOOLEAN] /\ deferred \in [Threads -> BOOLEAN]
      /\ no_defer \in [Threads -> BOOLEAN]
  BY WaitingMove, JournalOwnerConstants
  DEF HolderInv, HolderTypes, Procs, ChainInv, ChainTypes, OutsideMove
<1>2. /\ UNCHANGED lock /\ place'[t] \notin Granting
      /\ \A u \in Threads \ {t} : place'[u] = place[u] /\ (Live(u)' <=> Live(u))
  BY <1>1, GotoMoves DEF OutsideMove, Procs, Owning
<1>3. UNCHANGED <<closed_chain, orphaned>>
  BY DEF Begin, TakeGrantLock, ReadActive, Park, Recheck, Woken, ext3_journal_stop,
         GrantEnd, TryLock, RetryLock, Regrant, Interrupted, chainVars
<1>4. ASSUME UNCHANGED <<sig, deferred, no_defer>>,
             place'[t] \notin Forwarding,
             closed_chain /\ Looking(t) => Looking(t)' \/ lock
      PROVE  ChainInv'
  <2>1. ChainTypes'
    BY <1>1, <1>3, <1>4 DEF ChainTypes
  <2>2. QED
    BY <1>2, <1>3, <1>4, <2>1, ChainOutside
<1>5. CASE Begin(t)
  <2>1. /\ place[t] = "idle" /\ Goto(t, "loop") /\ UNCHANGED <<sig, deferred>>
        /\ no_defer' = [no_defer EXCEPT ![t] = FALSE]
    BY <1>5 DEF Begin, At
  <2>2. place'[t] = "loop" /\ ~Looking(t)
    BY <1>1, <2>1, GotoMoves DEF Looking
  <2>3. ChainTypes' /\ \A u \in Threads \ {t} : no_defer'[u] = no_defer[u]
    BY <1>1, <1>3, <2>1 DEF ChainTypes
  <2>4. place'[t] \notin Forwarding
    BY <2>2 DEF Forwarding
  <2>5. QED
    BY <1>2, <1>3, <2>1, <2>2, <2>3, <2>4, ChainOutside
<1>6. CASE TakeGrantLock(t)
  <2>1. granted_tid = t /\ Goto(t, "take") /\ UNCHANGED <<sig, deferred, no_defer>>
    BY <1>6 DEF TakeGrantLock, localVars
  <2>2. lock /\ place'[t] = "take"
    BY <1>1, <2>1, GotoMoves DEF KeptInv
  <2>3. place'[t] \notin Forwarding
    BY <2>2 DEF Forwarding
  <2>4. QED
    BY <1>4, <2>1, <2>2, <2>3
<1>7. CASE ReadActive(t) \/ Park(t) \/ (Regrant(t) /\ granted_tid # t) \/ (Recheck(t) /\ ~active)
  <2>1. /\ place[t] \in {"loop", "park", "regrant", "recheck"}
        /\ \E l \in {"try", "park", "regrant", "retry", "recheck", "loop"} : Goto(t, l)
        /\ UNCHANGED <<sig, deferred, no_defer>>
    BY <1>7 DEF ReadActive, Park, Regrant, Recheck, localVars, At
  <2>2. place'[t] \in {"try", "park", "regrant", "retry", "recheck", "loop"}
    BY <1>1, <2>1, GotoMoves
  <2>3. Looking(t) => no_defer[t]
    BY <1>1, <2>1 DEF Looking
  <2>4. no_defer'[t] => Looking(t)'
    BY <2>2 DEF Looking
  <2>5. place'[t] \notin Forwarding
    BY <2>2 DEF Forwarding
  <2>6. QED
    BY <1>4, <2>1, <2>3, <2>4, <2>5
<1>8. CASE (TryLock(t) \/ RetryLock(t)) /\ lock
  <2>1. (Goto(t, "park") \/ Goto(t, "recheck")) /\ UNCHANGED <<sig, deferred, no_defer>>
    BY <1>8 DEF TryLock, RetryLock, localVars
  <2>2. place'[t] \in {"park", "recheck"}
    BY <1>1, <2>1, GotoMoves
  <2>3. place'[t] \notin Forwarding
    BY <2>2 DEF Forwarding
  <2>4. QED
    BY <1>4, <1>8, <2>1, <2>3
<1>9. CASE Recheck(t) /\ active
  <2>1. Goto(t, "sleep") /\ UNCHANGED <<sig, deferred, no_defer>> /\ lock
    BY <1>9 DEF Recheck, localVars, KeptInv
  <2>2. place'[t] = "sleep"
    BY <1>1, <2>1, GotoMoves
  <2>3. place'[t] \notin Forwarding
    BY <2>2 DEF Forwarding
  <2>4. QED
    BY <1>4, <2>1, <2>3
<1>10. CASE Woken(t)
  <2>1. /\ place[t] = "sleep" /\ Goto(t, IF sig[t] THEN "interrupted" ELSE "loop")
        /\ UNCHANGED <<sig, deferred, no_defer>>
    BY <1>10 DEF Woken, At, localVars
  <2>2. ~Looking(t)
    BY <1>1, <2>1 DEF Looking
  <2>3. place'[t] \in Forwarding => sig'[t]
    <3>1. place'[t] = IF sig[t] THEN "interrupted" ELSE "loop"
      BY <1>1, <2>1, GotoMoves
    <3>2. QED
      BY <2>1, <3>1 DEF Forwarding
  <2>4. ChainTypes'
    BY <1>1, <1>3, <2>1 DEF ChainTypes
  <2>5. QED
    BY <1>2, <1>3, <2>1, <2>2, <2>3, <2>4, ChainOutside
<1>11. CASE Interrupted(t) /\ granted_tid # t
  <2>1. /\ place[t] = "interrupted" /\ Goto(t, "idle") /\ UNCHANGED <<deferred, no_defer>>
        /\ sig' = [sig EXCEPT ![t] = FALSE]
    BY <1>11 DEF Interrupted, At, localVars
  <2>2. place'[t] = "idle" /\ ~Looking(t)
    BY <1>1, <2>1, GotoMoves DEF Looking
  <2>3. ChainTypes' /\ \A u \in Threads \ {t} : sig'[u] = sig[u]
    BY <1>1, <1>3, <2>1 DEF ChainTypes
  <2>4. place'[t] \notin Forwarding
    BY <2>2 DEF Forwarding
  <2>5. QED
    BY <1>2, <1>3, <2>1, <2>2, <2>3, <2>4, ChainOutside
<1>12. CASE GrantEnd(t)
  <2>1. /\ place[t] = "g_end" /\ UNCHANGED <<deferred, no_defer>>
        /\ Goto(t, IF Stopping(t) THEN "post" ELSE "idle")
        /\ sig' = [sig EXCEPT ![t] = @ /\ deferred[t]]
    BY <1>1, <1>12 DEF GrantEnd, localVars
  <2>2. place'[t] = IF Stopping(t) THEN "post" ELSE "idle"
    BY <1>1, <2>1, GotoMoves
  <2>3. sig' \in [Threads -> BOOLEAN] /\ \A u \in Threads \ {t} : sig'[u] = sig[u]
    BY <1>1, <2>1
  <2>4. ChainTypes'
    BY <1>1, <1>3, <2>1, <2>3 DEF ChainTypes
  <2>5. place'[t] \notin Forwarding
    BY <2>2 DEF Forwarding
  <2>6. Looking(t) => Looking(t)'
    <3>1. Looking(t) => deferred[t]
      BY <1>1, <2>1 DEF Looking
    <3>2. deferred[t] => place'[t] = "post"
      BY <2>2 DEF Stopping
    <3>3. QED
      BY <2>1, <3>1, <3>2 DEF Looking
  <2>7. QED
    BY <1>2, <1>3, <2>1, <2>3, <2>4, <2>5, <2>6, ChainOutside
<1>13. CASE ext3_journal_stop(t)
  <2>1. PICK again : again = (deferred[t] /\ closed_chain /\ ~active)
    OBVIOUS
  <2>2. /\ place[t] = "post" /\ again \in BOOLEAN
        /\ Goto(t, IF again THEN "loop" ELSE "idle")
        /\ no_defer' = [no_defer EXCEPT ![t] = again]
        /\ sig' = [sig EXCEPT ![t] = @ /\ again]
        /\ deferred' = [deferred EXCEPT ![t] = FALSE]
    BY <1>1, <1>13, <2>1 DEF ext3_journal_stop, At
  <2>3. place'[t] = IF again THEN "loop" ELSE "idle"
    BY <1>1, <2>2, GotoMoves
  <2>4. /\ ChainTypes' /\ no_defer'[t] = again
        /\ \A u \in Threads \ {t} :
             sig'[u] = sig[u] /\ deferred'[u] = deferred[u] /\ no_defer'[u] = no_defer[u]
    BY <1>1, <1>3, <2>2 DEF ChainTypes
  <2>5. place'[t] \notin Forwarding
    BY <2>3 DEF Forwarding
  <2>6. closed_chain /\ Looking(t) => Looking(t)' \/ lock
    <3>1. Looking(t) => deferred[t]
      BY <1>1, <2>2 DEF Looking
    <3>2. again => Looking(t)'
      BY <2>3, <2>4 DEF Looking
    <3>3. closed_chain /\ deferred[t] => again \/ active
      BY <2>1
    <3>4. QED
      BY <3>1, <3>2, <3>3 DEF KeptInv
  <2>7. QED
    BY <1>2, <1>3, <2>4, <2>5, <2>6, ChainOutside
<1>14. QED
  BY <1>1, <1>5, <1>6, <1>7, <1>8, <1>9, <1>10, <1>11, <1>12, <1>13

\* The holder hands over, or goes idle: a stopping one that leaves the chain
\* has deferred it and will look again.
LEMMA ChainGrant ==
    ASSUME HolderInv, HolderInv', KeptInv, ChainInv, NEW p \in Procs, Grant(p)
    PROVE  ChainInv'
<1>1. HolderTypes /\ ChainTypes /\ Reaper \notin Threads /\ lock \in BOOLEAN
  BY JournalOwnerConstants DEF HolderInv, HolderTypes, ChainInv
<1>2. CASE ext3_grant_next(p) \/ (GoIdle(p) /\ place[p] = "g_active")
  <2>1. /\ place[p] \in {"grant", "g_active"} /\ (p \in Threads => Live(p))
        /\ UNCHANGED <<lock, closed_chain, orphaned, sig, deferred, no_defer>>
    BY <1>2 DEF Grant, ext3_grant_next, GoIdle, localVars, chainVars
  <2>2. PICK l \in {"g_end", "g_active", "g_unlock"} : Goto(p, l)
    BY <1>2 DEF ext3_grant_next, GoIdle
  <2>3. place'[p] = l /\ \A q \in Procs \ {p} : place'[q] = place[q]
    BY <1>1, <2>2, GotoMoves
  <2>4. \A u \in Threads : Live(u)' <=> Live(u)
    <3>1. \/ state' = state
          \/ \E w \in Threads : state' = [state EXCEPT ![w] = IF @ = "BLOCKED" THEN "RUNNING" ELSE @]
      BY <1>2 DEF ext3_grant_next, GoIdle
    <3>2. QED
      BY <1>1, <3>1 DEF HolderTypes, Live
  <2>5. ChainTypes'
    BY <1>1, <2>1 DEF ChainTypes
  <2>6. CASE p = Reaper
    <3>1. \A u \in Threads : place'[u] = place[u]
      BY <1>1, <2>3, <2>6 DEF Procs
    <3>2. QED
      BY <2>1, <2>4, <2>5, <3>1, ChainStanding
  <2>7. CASE p \in Threads
    <3>1. Holds(p) /\ lock'
      <4>1. Holds(p)
        BY <2>1, <2>7 DEF Holds, Owns, Owning, Granting
      <4>2. QED
        BY <1>1, <2>1, <4>1 DEF HolderInv, OneHolder
    <3>2. place'[p] \notin Forwarding
      BY <2>3 DEF Forwarding
    <3>3. closed_chain' => deferred'[p] \/ sig'[p]
      BY <2>1, <2>7 DEF ChainInv, Granting
    <3>4. \A u \in Threads \ {p} : place'[u] = place[u] /\ sig'[u] = sig[u] /\ (Live(u)' <=> Live(u))
      BY <2>1, <2>3, <2>4 DEF Procs
    <3>5. QED
      BY <2>5, <2>7, <3>1, <3>2, <3>3, <3>4, ChainHeld
  <2>8. QED
    BY <2>6, <2>7 DEF Procs
<1>3. CASE GoIdle(p) /\ place[p] = "g_unlock"
  <2>1. /\ Goto(p, "g_end") /\ (p \in Threads => Live(p))
        /\ orphaned' = (orphaned \/ (closed_chain /\ ~Stopping(p)))
        /\ UNCHANGED <<closed_chain, sig, deferred, no_defer, state>>
    BY <1>3 DEF Grant, GoIdle, localVars, chainVars
  <2>2. /\ place'[p] = "g_end" /\ \A q \in Procs \ {p} : place'[q] = place[q]
        /\ \A u \in Threads : Live(u)' <=> Live(u)
    BY <1>1, <2>1, GotoMoves DEF Live
  <2>3. closed_chain' /\ ~orphaned' => \E t \in Threads : Looking(t)'
    <3>1. SUFFICES ASSUME closed_chain, ~orphaned' PROVE \E t \in Threads : Looking(t)'
      BY <2>1
    <3>2. p \in Threads /\ (sig[p] => deferred[p])
      BY <2>1, <3>1 DEF Stopping
    <3>3. deferred[p] \/ sig[p]
      BY <1>3, <2>1, <3>1, <3>2 DEF ChainInv, Granting
    <3>4. Looking(p)'
      BY <2>1, <2>2, <3>2, <3>3 DEF Looking
    <3>5. QED
      BY <3>2, <3>4
  <2>4. ChainTypes'
    BY <1>1, <2>1 DEF ChainTypes
  <2>5. \A u \in Threads : place'[u] \in Forwarding \cup Granting => place'[u] = place[u]
    BY <2>2 DEF Forwarding, Granting, Procs
  <2>6. QED
    BY <2>1, <2>2, <2>3, <2>4, <2>5 DEF ChainInv
<1>4. CASE GrantEnd(p) /\ p = Reaper
  <2>1. /\ Goto(p, "idle")
        /\ UNCHANGED <<lock, closed_chain, orphaned, sig, deferred, no_defer, state>>
    BY <1>4 DEF GrantEnd, localVars, chainVars
  <2>2. \A u \in Threads : place'[u] = place[u] /\ (Live(u)' <=> Live(u))
    BY <1>1, <1>4, <2>1, GotoMoves DEF Procs, Live
  <2>3. ChainTypes'
    BY <1>1, <2>1 DEF ChainTypes
  <2>4. QED
    BY <2>1, <2>2, <2>3, ChainStanding
<1>5. CASE GrantEnd(p) /\ p \in Threads
  BY <1>5, ChainWaiting DEF Grant
<1>6. CASE GoIdle(p)
  BY <1>2, <1>3, <1>6 DEF GoIdle
<1>7. QED
  BY <1>2, <1>4, <1>5, <1>6 DEF Grant, Procs

\* Every step keeps the chain under the lock or on somebody's mind.
LEMMA ChainStep ==
    HolderInv /\ WaitersInv /\ KeptInv /\ ChainInv /\ [OwnerNext]_ownerVars => ChainInv'
<1>1. SUFFICES ASSUME HolderInv, WaitersInv, KeptInv, ChainInv, [OwnerNext]_ownerVars
               PROVE  ChainInv'
  OBVIOUS
<1>2. HolderInv' /\ HolderTypes /\ ChainTypes
  BY <1>1, OwnerNextInv DEF HolderInv, ChainInv
<1>3. CASE UNCHANGED ownerVars
  <2>1. UNCHANGED <<closed_chain, orphaned, lock, deferred, no_defer, place, sig, state>>
    BY <1>3 DEF ownerVars, journalVars, chainVars, localVars
  <2>2. ChainTypes'
    BY <1>2, <2>1 DEF ChainTypes
  <2>3. QED
    BY <1>1, <2>1, <2>2, ChainStanding DEF Live
<1>4. ASSUME NEW t \in Threads,
             \/ NestedStart(t) \/ NestedStop(t) \/ StageBlock(t)
             \/ Signal(t) \/ Timeout(t) \/ Kill(t)
      PROVE  ChainInv'
  <2>1. UNCHANGED <<closed_chain, orphaned, lock, deferred, no_defer, place>>
    BY <1>4 DEF NestedStart, NestedStop, StageBlock, Signal, Timeout, Kill, journalVars,
                chainVars, localVars
  <2>2. \/ state' = state
        \/ state' = [state EXCEPT ![t] = "DEAD"]
        \/ Live(t) /\ \E x \in {"RUNNING", state[t]} : state' = [state EXCEPT ![t] = x]
    BY <1>4 DEF NestedStart, NestedStop, StageBlock, Signal, Timeout, Kill, Live
  <2>3. sig' = sig \/ sig' = [sig EXCEPT ![t] = TRUE]
    BY <1>4 DEF NestedStart, NestedStop, StageBlock, Signal, Timeout, Kill
  <2>4. \A u \in Threads : Live(u)' => Live(u)
    BY <1>2, <2>2 DEF HolderTypes, Live
  <2>5. ChainTypes' /\ \A u \in Threads : sig[u] => sig'[u]
    BY <1>2, <2>1, <2>3 DEF ChainTypes
  <2>6. QED
    BY <1>1, <2>1, <2>4, <2>5, ChainStanding
<1>5. ASSUME NEW t \in Threads, Thread(t) \/ Begin(t) PROVE ChainInv'
  <2>1. lock \in BOOLEAN /\ t \in Procs
    BY <1>2 DEF HolderTypes, Procs
  <2>2. CASE TryLock(t) \/ RetryLock(t) \/ Regrant(t) \/ Interrupted(t)
    BY <1>1, <2>1, <2>2, ChainWaiting, ChainOwning
  <2>3. QED
    BY <1>1, <1>2, <1>4, <1>5, <2>1, <2>2, ChainWaiting, ChainOwning, ChainGrant DEF Thread
<1>6. CASE Reaping
  <2>1. Reaper \in Procs /\ Reaper \notin Threads
    BY JournalOwnerConstants DEF Procs
  <2>2. CASE (\E t \in Threads : Reap(t)) \/ ReleaseCheck \/ ext3_journal_release_owner
    <3>1. UNCHANGED <<closed_chain, orphaned, lock, deferred, no_defer, sig, state>>
      BY <2>2 DEF Reap, ReleaseCheck, ext3_journal_release_owner, journalVars, chainVars, localVars
    <3>2. \E l \in Places : Goto(Reaper, l)
      BY <2>2 DEF Reap, ReleaseCheck, ext3_journal_release_owner, Places, Owning, Granting
    <3>3. \A u \in Threads : place'[u] = place[u] /\ (Live(u)' <=> Live(u))
      BY <1>2, <2>1, <3>1, <3>2, GotoMoves DEF Procs, Live
    <3>4. ChainTypes'
      BY <1>2, <3>1 DEF ChainTypes
    <3>5. QED
      BY <1>1, <3>1, <3>3, <3>4, ChainStanding
  <2>3. QED
    BY <1>1, <1>2, <1>6, <2>1, <2>2, ChainGrant DEF Reaping
<1>7. CASE OwnerNext
  BY <1>1, <1>4, <1>5, <1>6, <1>7 DEF OwnerNext
<1>8. QED
  BY <1>1, <1>3, <1>7

-----------------------------------------------------------------------------
\* The strengthening holds in every reachable state: one holder, a queue
\* without repetitions, a record the reaper can go by, and a closed chain that
\* is under the lock or that somebody will look at.
THEOREM JournalOwnerInvariant == OwnerSpec => []OwnerInv
<1>1. OwnerInit => OwnerInv
  <2>1. OwnerInit => WaitersInv
    BY SMT DEF OwnerInit, WaitersInv, Distinct
  <2>2. QED
    BY <2>1, OwnerInitInv, KeptInit, ChainInit DEF OwnerInv
<1>2. OwnerInv /\ [OwnerNext]_ownerVars => OwnerInv'
  BY OwnerNextInv, WaitersStep, KeptStep, ChainStep DEF OwnerInv
<1>3. QED
  BY <1>1, <1>2, PTL DEF OwnerSpec

\* While trans->lock is held somebody will release it, whatever the number of
\* threads and kills: a running or killed owner the reaper has not visited, a
\* granted thread still in ext3_journal_start(), or the reaper.  Only a thread
\* killed before the journal is active, or with the raw sched_lock, takes the
\* lock with it, since ext3_journal_release_owner() cannot recognise it.
THEOREM JournalLockNotStranded == OwnerSpec => []LockNotStranded
<1>1. OwnerInv => LockNotStranded
  <2>1. SUFFICES ASSUME HolderInv, KeptInv, lock
                 PROVE  \/ \E t \in Threads \ reaped : granted_tid = t /\ place[t] # "idle"
                        \/ \E t \in Threads \ reaped : place[t] \in Owning
                        \/ place[Reaper] \in Granting
                        \/ \E t \in Threads : Unrecognised(t)
    BY DEF OwnerInv, LockNotStranded
  <2>2. CASE ~active /\ \E t \in Threads : ~Live(t) /\ place[t] \in Publishing
    BY <2>2 DEF Unrecognised, Publishing
  <2>3. ASSUME NEW t \in Threads, granted_tid = t
        PROVE  t \notin reaped /\ place[t] # "idle"
    BY <2>1, <2>3 DEF KeptInv, Receiving
  <2>4. \A t \in reaped : ~Live(t)
    BY <2>1 DEF HolderInv, ReapInv
  <2>5. CASE \E p \in Procs : Holds(p)
    BY <2>3, <2>4, <2>5 DEF Holds, Owns
  <2>6. QED
    BY <2>1, <2>2, <2>5 DEF KeptInv
<1>2. QED
  BY <1>1, JournalOwnerInvariant, PTL

\* When nobody owns or waits for the transaction and no handle is on its way
\* out, no finished handle's images are left in the closed chain, whatever the
\* number of threads and handles: ext3_journal_stop() defers a chain only to
\* look at it again.  The exceptions are those NoIdleChain states.
THEOREM JournalNoIdleChain == OwnerSpec => []NoIdleChain
<1>1. OwnerInv => NoIdleChain
  <2>1. SUFFICES ASSUME ChainInv, ~lock, closed_chain, ~orphaned,
                        \A p \in Procs : place[p] = "idle" \/ (p \in Threads /\ ~Live(p))
                 PROVE  \E t \in Threads : ~Live(t) /\ (deferred[t] \/ no_defer[t])
    BY DEF OwnerInv, NoIdleChain
  <2>2. PICK t \in Threads : Looking(t)
    BY <2>1 DEF ChainInv
  <2>3. t \in Procs
    BY DEF Procs
  <2>4. ~Live(t) /\ (deferred[t] \/ no_defer[t])
    BY <2>1, <2>2, <2>3 DEF Looking
  <2>5. QED
    BY <2>4
<1>2. QED
  BY <1>1, JournalOwnerInvariant, PTL

\* No thread that queued behind a live waiter is granted the transaction,
\* whatever the number of threads: ext3_grant_next() hands it to the head of
\* the queue, and an entry is linked once.
THEOREM JournalFirstComeFirstServed == OwnerSpec => FirstComeFirstServed
<1>1. WaitersInv /\ [OwnerNext]_ownerVars => [OwnerPresent => OldestFirst]_ownerVars
  <2>1. SUFFICES ASSUME WaitersInv, OwnerNext,
                        NEW w \in Threads, granted_tid' = w, granted_tid # w,
                        NEW i \in DOMAIN waiters, NEW j \in DOMAIN waiters,
                        waiters[j] = w, i < j
                 PROVE  ~Live(waiters[i])
    BY DEF OldestFirst
  <2>2. granted_tid' # granted_tid /\ granted_tid' # None
    BY <2>1, JournalOwnerConstants
  <2>3. ASSUME NEW t \in Threads,
               \/ Begin(t) \/ NestedStart(t) \/ StageBlock(t)
               \/ Signal(t) \/ Timeout(t) \/ Kill(t) \/ Reap(t)
        PROVE  FALSE
    BY <2>2, <2>3
    DEF Begin, NestedStart, StageBlock, Signal, Timeout, Kill, Reap, journalVars
  <2>4. ~ReleaseCheck /\ ~ext3_journal_release_owner
    BY <2>2 DEF ReleaseCheck, ext3_journal_release_owner, journalVars
  <2>5. ASSUME NEW t \in Threads, Thread(t) PROVE Grant(t)
    BY <2>2, <2>5
    DEF Thread, TakeGrantLock, ext3_take_grant, ReadActive, TryLock, Park, Regrant, RetryLock,
        Acquired, Recheck, Woken, Interrupted, ext3_forward_grant, PublishOwner,
        ext3_journal_start, NestedStop, MergeRunning, ShouldDefer, CommitChain,
        ext3_journal_stop, journalVars
  <2>6. PICK p \in Procs : Grant(p)
    BY <2>1, <2>3, <2>4, <2>5 DEF OwnerNext, Reaping, Procs
  <2>7. ext3_grant_next(p)
    BY <2>2, <2>6 DEF Grant, GoIdle, GrantEnd
  <2>8. Receives(w)
    BY <2>1, <2>2, <2>7 DEF ext3_grant_next
  <2>9. PICK k \in DOMAIN waiters : waiters[k] = w /\ \A n \in 1..(k - 1) : ~Live(waiters[n])
    BY <2>8 DEF Receives
  <2>10. k = j
    BY <2>1, <2>9 DEF WaitersInv, Distinct
  <2>11. i \in 1..(k - 1)
    BY SMT, <2>1, <2>9, <2>10 DEF WaitersInv
  <2>12. QED
    BY <2>9, <2>11
<1>2. OwnerInv => WaitersInv
  BY DEF OwnerInv
<1>3. QED
  BY <1>1, <1>2, JournalOwnerInvariant, PTL DEF OwnerSpec, FirstComeFirstServed


=============================================================================
