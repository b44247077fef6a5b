----------------------------- MODULE TlbProofs -----------------------------
(***************************************************************************)
(* TlbShootdown for any number of CPUs, address spaces and changes.        *)
(*                                                                         *)
(* RequestAnswered, on every machine, by the invariant RequestInv: who     *)
(* holds shootdown_lock, whose mailboxes are filled, and that a filled     *)
(* mailbox holds the request of the lock's holder.  The types need the     *)
(* last part (the handler flushes the space it was sent), so the three are *)
(* one induction.                                                          *)
(*                                                                         *)
(* NoStaleTranslation, on every machine without the two known windows      *)
(* (SoundMachines), by the invariant TlbInv: CR3, the bits and the entries *)
(* stay in step (SwitchInv), a request without a tag is made only where no *)
(* kernel thread runs (TagInv), and the CPUs a request has dealt with will *)
(* not use what it invalidates (FlushInv), which no later step of any CPU  *)
(* undoes (CleanStep).                                                     *)
(***************************************************************************)
EXTENDS TlbShootdown, TLAPS

\* Most leaves are first order; the ones that cite SMT need arithmetic or types.
USE ZenonT(30)

-----------------------------------------------------------------------------
(* The steps, by what they leave alone.                                      *)

\* A step of CPU c in user code, in an exception or in the context switch.
LocalStep(c) ==
    \/ Access(c) \/ Fault(c) \/ FaultDone(c) \/ ChangeMasked(c)
    \/ SwitchPublish(c) \/ SwitchCached(c) \/ SwitchLoad(c)
    \/ \E t \in Spaces \cup hw.others : SwitchStart(c, t)

\* A step of CPU c that makes or carries a request.
RequestStep(c) ==
    \/ tlb_flush_deferred_drain(c) \/ \E s \in Spaces : Change(c, s)
    \/ LockShootdown(c) \/ IdleInvalidate(c) \/ ScanDone(c)
    \/ PostAck(c) \/ LocalFlush(c) \/ do_shootdown(c)
    \/ \E i \in CPUs : cpu_needs_shootdown(c, i) \/ PostSlot(c, i) \/ SendIpi(c, i)

\* A step of CPU c that answers one.
HandlerStep(c) ==
    tlb_shootdown_isr(c) \/ tlb_shootdown_poll(c) \/ HandlerFlush(c) \/ HandlerAck(c)

\* A step of CPU c.
StepOf(c) == LocalStep(c) \/ RequestStep(c) \/ HandlerStep(c)

\* The places of a CPU that has a request.
Asking == Held \cup {"spin"}

\* A step of CPU c outside the protocol.
Elsewhere(c) ==
    /\ handler[c] = "off" /\ where[c] \notin Asking /\ where'[c] \notin Asking
    /\ \A i \in CPUs \ {c} : where'[i] = where[i]
    /\ \A s \in Spaces : pte[s] <= pte'[s]
    /\ UNCHANGED <<hw, shootdown_slot, ack, ipi, handler>>
    /\ UNCHANGED <<op, todo, probe, targets, shootdown_lock>>

\* What an invalidation for s does on CPU c: entries and bits go, no other
\* CPU's, and what is left of s is flushed before it is used.
Flushes(c, s) ==
    /\ tlb' \in [CPUs -> [Spaces -> Nat \cup {None}]]
    /\ active_pcids' \in [CPUs -> SUBSET Spaces]
    /\ \A i \in CPUs \ {c} : tlb'[i] = tlb[i] /\ active_pcids'[i] = active_pcids[i]
    /\ \A r \in Spaces : tlb'[c][r] \in {tlb[c][r], None}
    /\ active_pcids'[c] \subseteq active_pcids[c]
    /\ HasPcid \/ loaded[c] = s \/ tlb[c][s] = None =>
         tlb'[c][s] = None \/ (HasPcid /\ loaded[c] # s /\ s \notin active_pcids'[c])

\* The types, value by value.
LEMMA Typed ==
    ASSUME TlbTypeOK
    PROVE  \A c \in CPUs :
             /\ op[c].space \in Spaces \cup {None} /\ op[c].known \in BOOLEAN /\ op[c].version \in Nat
             /\ shootdown_slot[c].known \in BOOLEAN /\ ack[c] \in BOOLEAN
             /\ loaded[c] \in Spaces \cup {None}
             /\ todo[c] \subseteq CPUs /\ targets[c] \subseteq CPUs /\ probe[c] \in CPUs \cup {None}
             /\ \A s \in Spaces : tlb[c][s] \in Nat \cup {None} /\ pte[s] \in Nat /\ flushed[s] \in Nat
BY SMT DEF TlbTypeOK

\* CPU c alone goes elsewhere.
LEMMA GotoEffect ==
    ASSUME TlbTypeOK, NEW c \in CPUs, NEW p, TlbGoto(c, p)
    PROVE  where'[c] = p /\ \A i \in CPUs \ {c} : where'[i] = where[i]
BY DEF TlbTypeOK, TlbGoto

\* The local steps are outside the protocol.
LEMMA LocalElsewhere ==
    ASSUME TlbTypeOK, NEW c \in CPUs, LocalStep(c)
    PROVE  Elsewhere(c)
<1> USE GotoEffect DEF Elsewhere, Asking, Held, At, mailbox, request
<1>1. ASSUME UNCHANGED pte PROVE \A s \in Spaces : pte[s] <= pte'[s]
  BY SMT, <1>1, Typed
<1>2. CASE Access(c)
  BY <1>1, <1>2 DEF Access, InUser
<1>3. CASE Fault(c)
  BY SMT, <1>1, <1>3 DEF Fault, InUser
<1>4. CASE FaultDone(c)
  BY SMT, <1>1, <1>4 DEF FaultDone
<1>5. CASE ChangeMasked(c)
  <2>1. \A s \in Spaces : pte[s] <= pte'[s]
    <3>1. pte \in [Spaces -> Nat]
      BY DEF TlbTypeOK
    <3>2. QED
      BY SMT, <1>5, <3>1 DEF ChangeMasked
  <2>2. QED
    BY <1>5, <2>1 DEF ChangeMasked, InUser
<1>6. CASE SwitchPublish(c)
  BY SMT, <1>1, <1>6 DEF SwitchPublish
<1>7. CASE SwitchCached(c)
  BY SMT, <1>1, <1>7 DEF SwitchCached
<1>8. CASE SwitchLoad(c)
  BY SMT, <1>1, <1>8 DEF SwitchLoad
<1>9. ASSUME NEW t \in Spaces \cup hw.others, SwitchStart(c, t) PROVE Elsewhere(c)
  BY SMT, <1>1, <1>9 DEF SwitchStart
<1>10. QED
  BY <1>2, <1>3, <1>4, <1>5, <1>6, <1>7, <1>8, <1>9 DEF LocalStep

-----------------------------------------------------------------------------
(* What the steps do.                                                        *)

\* What the initiator runs for its own CPU is such an invalidation.
LEMMA LocalEffect ==
    ASSUME TlbTypeOK, NEW c \in CPUs, NEW s \in Spaces, NEW known \in BOOLEAN,
           local_flush_for(c, s, known)
    PROVE  Flushes(c, s)
<1>1. loaded[c] \in Spaces \cup {None} /\ None \notin Spaces
  BY TlbConstants DEF TlbTypeOK
<1>2. ASSUME NEW r \in Spaces, FlushSpace(c, r)
      PROVE  /\ tlb' \in [CPUs -> [Spaces -> Nat \cup {None}]] /\ tlb'[c][r] = None
             /\ \A i \in CPUs \ {c} : tlb'[i] = tlb[i]
             /\ \A q \in Spaces : tlb'[c][q] \in {tlb[c][q], None}
  BY <1>2 DEF TlbTypeOK, FlushSpace
<1>3. ASSUME FlushEverything(c)
      PROVE  /\ tlb' \in [CPUs -> [Spaces -> Nat \cup {None}]]
             /\ \A i \in CPUs \ {c} : tlb'[i] = tlb[i]
             /\ \A q \in Spaces : tlb'[c][q] = None
  BY <1>3 DEF TlbTypeOK, FlushEverything
<1>4. CASE ~HasPcid
  <2>1. CASE loaded[c] = None
    BY <1>1, <1>4, <2>1 DEF local_flush_for, Flushes, TlbTypeOK
  <2>2. CASE loaded[c] # None
    BY <1>1, <1>2, <1>4, <2>2 DEF local_flush_for, Flushes, TlbTypeOK
  <2>3. QED
    BY <2>1, <2>2
<1>5. CASE HasPcid /\ ~known
  <2> cpu_pcid_invalidate_all(c) /\ pcid_flush_all(c)
    BY <1>5 DEF local_flush_for
  <2>1. /\ active_pcids' \in [CPUs -> SUBSET Spaces] /\ active_pcids'[c] = {}
        /\ \A i \in CPUs \ {c} : active_pcids'[i] = active_pcids[i]
    BY DEF cpu_pcid_invalidate_all, TlbTypeOK
  <2>2. CASE HasInvpcid
    BY <1>3, <2>1, <2>2 DEF pcid_flush_all, Flushes
  <2>3. CASE ~HasInvpcid /\ loaded[c] = None
    BY <1>1, <1>5, <2>1, <2>3 DEF pcid_flush_all, ReloadCr3, Flushes, TlbTypeOK
  <2>4. CASE ~HasInvpcid /\ loaded[c] # None
    BY <1>1, <1>2, <1>5, <2>1, <2>4 DEF pcid_flush_all, ReloadCr3, Flushes
  <2>5. QED
    BY <2>2, <2>3, <2>4
<1>6. CASE HasPcid /\ known /\ (loaded[c] = s \/ HasInvpcid)
  BY <1>2, <1>6 DEF local_flush_for, Flushes, TlbTypeOK
<1>7. CASE HasPcid /\ known /\ loaded[c] # s /\ ~HasInvpcid
  <2>1. cpu_pcid_invalidate(c, s) /\ UNCHANGED tlb
    BY <1>7 DEF local_flush_for
  <2>2. QED
    BY <1>7, <2>1 DEF cpu_pcid_invalidate, Flushes, TlbTypeOK
<1>8. QED
  BY <1>4, <1>5, <1>6, <1>7

\* So is what the handler runs for the request in its mailbox.
LEMMA HandlerEffect ==
    ASSUME TlbTypeOK, NEW c \in CPUs, shootdown_slot[c].space \in Spaces, HandlerFlush(c)
    PROVE  Flushes(c, shootdown_slot[c].space)
<1> DEFINE s == shootdown_slot[c].space
           known == shootdown_slot[c].known
<1>1. s \in Spaces /\ known \in BOOLEAN
  BY DEF TlbTypeOK
<1>2. CASE HasPcid /\ known /\ loaded[c] # s
  <2>1. cpu_pcid_invalidate(c, s) /\ UNCHANGED tlb
    BY <1>2 DEF HandlerFlush
  <2>2. QED
    BY <1>2, <2>1 DEF cpu_pcid_invalidate, Flushes, TlbTypeOK
<1>3. CASE ~(HasPcid /\ known /\ loaded[c] # s)
  <2>1. local_flush_for(c, s, known)
    BY <1>3 DEF HandlerFlush, local_flush_for
  <2>2. QED
    BY <1>1, <2>1, LocalEffect
<1>4. QED
  BY <1>2, <1>3

\* The request a handler answers is the initiator's.
LEMMA SlotOfOp ==
    ASSUME TlbTypeOK, OpInv, MailboxInv, NEW i \in CPUs, ack[i]
    PROVE  /\ shootdown_lock \in CPUs /\ i \in Posted(shootdown_lock) /\ where[shootdown_lock] \in Held
           /\ shootdown_slot[i].space = op[shootdown_lock].space
           /\ shootdown_slot[i].space \in Spaces
<1>1. shootdown_lock \in CPUs /\ i \in Posted(shootdown_lock) /\ where[shootdown_lock] \in Held
  BY DEF MailboxInv, TlbTypeOK
<1>2. QED
  BY <1>1, TlbConstants DEF OpInv, Posted

\* The three outcomes for a CPU the scan visits: left to the idle path, made
\* a target, or passed over with its bit cleared if the tag is known.
ScanIdle(c, i) ==
    /\ runs[i] = "idle" /\ where'[c] = "idle" /\ \A j \in CPUs \ {c} : where'[j] = where[j]
    /\ probe'[c] = i /\ \A j \in CPUs \ {c} : probe'[j] = probe[j]
    /\ UNCHANGED <<todo, targets, active_pcids>>

Visited(c, i) ==
    /\ todo'[c] = todo[c] \ {i} /\ \A j \in CPUs \ {c} : todo'[j] = todo[j]
    /\ UNCHANGED <<where, probe>>

ScanTarget(c, i) ==
    /\ Visited(c, i) /\ UNCHANGED active_pcids
    /\ targets'[c] = targets[c] \cup {i} /\ \A j \in CPUs \ {c} : targets'[j] = targets[j]

ScanSkip(c, i) ==
    /\ Visited(c, i) /\ UNCHANGED targets
    /\ runs[i] # "idle" /\ ~QueueLocked(i) /\ ~NeedsIpi(i, op[c].space, op[c].known)
    /\ ~HasPcid => UNCHANGED active_pcids
    /\ \A j \in CPUs \ {i} : active_pcids'[j] = active_pcids[j]
    /\ active_pcids'[i] \subseteq active_pcids[i]
    /\ HasPcid /\ op[c].known => op[c].space \notin active_pcids'[i]

\* The scan of one CPU has one of the three outcomes, and keeps the types.
LEMMA ScanCases ==
    ASSUME TlbTypeOK, NEW c \in CPUs, NEW i \in CPUs, cpu_needs_shootdown(c, i)
    PROVE  /\ where[c] = "scan" /\ handler[c] = "off" /\ i \in todo[c] /\ TlbTypeOK'
           /\ UNCHANGED <<hw, pte, flushed, tlb, switch, mailbox, op, shootdown_lock, outer, pending>>
           /\ ScanIdle(c, i) \/ ScanTarget(c, i) \/ ScanSkip(c, i)
<1>1. /\ where[c] = "scan" /\ handler[c] = "off" /\ i \in todo[c]
      /\ UNCHANGED <<hw, pte, flushed, tlb, switch, mailbox, op, shootdown_lock, outer, pending>>
  BY DEF cpu_needs_shootdown, At
<1>2. /\ active_pcids \in [CPUs -> SUBSET Spaces] /\ probe \in [CPUs -> CPUs \cup {None}]
      /\ todo \in [CPUs -> SUBSET CPUs] /\ targets \in [CPUs -> SUBSET CPUs]
      /\ where \in [CPUs -> TlbPlaces]
  BY DEF TlbTypeOK
<1> DEFINE Types == /\ active_pcids' \in [CPUs -> SUBSET Spaces]
                    /\ probe' \in [CPUs -> CPUs \cup {None}]
                    /\ todo' \in [CPUs -> SUBSET CPUs] /\ targets' \in [CPUs -> SUBSET CPUs]
                    /\ where' \in [CPUs -> TlbPlaces]
<1>3. Types => TlbTypeOK'
  BY <1>1 DEF TlbTypeOK, switch, mailbox
<1>4. CASE /\ runs[i] = "idle"
           /\ probe' = [probe EXCEPT ![c] = i]
           /\ TlbGoto(c, "idle")
           /\ UNCHANGED <<todo, targets, active_pcids>>
  <2>1. Types /\ ScanIdle(c, i)
    BY <1>2, <1>4 DEF TlbGoto, ScanIdle, TlbPlaces
  <2>2. QED
    BY <1>1, <1>3, <2>1
<1>5. CASE /\ targets' = [targets EXCEPT ![c] = @ \cup {i}] /\ Visit(c, i)
           /\ UNCHANGED <<where, active_pcids, probe>>
  <2>1. Types /\ ScanTarget(c, i)
    BY <1>2, <1>5 DEF Visit, Visited, ScanTarget
  <2>2. QED
    BY <1>1, <1>3, <2>1
<1>6. CASE /\ runs[i] # "idle" /\ ~QueueLocked(i) /\ ~NeedsIpi(i, op[c].space, op[c].known)
           /\ UNCHANGED targets /\ Visit(c, i) /\ UNCHANGED <<where, probe>>
           /\ IF ClearsBit(i, op[c].space, op[c].known)
              THEN cpu_pcid_invalidate(i, op[c].space) ELSE UNCHANGED active_pcids
  <2>1. /\ active_pcids' \in [CPUs -> SUBSET Spaces] /\ active_pcids'[i] \subseteq active_pcids[i]
        /\ \A j \in CPUs \ {i} : active_pcids'[j] = active_pcids[j]
        /\ HasPcid /\ op[c].known => op[c].space \notin active_pcids'[i]
        /\ ~HasPcid => UNCHANGED active_pcids
    BY <1>2, <1>6 DEF ClearsBit, cpu_pcid_invalidate
  <2>2. Types /\ ScanSkip(c, i)
    BY <1>2, <1>6, <2>1 DEF Visit, Visited, ScanSkip
  <2>3. QED
    BY <1>1, <1>3, <2>2
<1>7. QED
  <2>1. CASE NeedsIpi(i, op[c].space, op[c].known)
    BY <2>1, <1>4, <1>5 DEF cpu_needs_shootdown, ClearsBit
  <2>2. CASE ~NeedsIpi(i, op[c].space, op[c].known)
    BY <2>2, <1>4, <1>5, <1>6 DEF cpu_needs_shootdown
  <2>3. QED
    BY <2>1, <2>2

\* The holder of the lock is the one CPU that carries a request.
LEMMA OneHolder ==
    ASSUME TlbTypeOK, MailboxInv, NEW c \in CPUs, where[c] \in Held
    PROVE  /\ shootdown_lock = c /\ handler[c] = "off" /\ ~ack[c]
           /\ \A i \in CPUs \ {c} : where[i] \notin Held
<1>1. shootdown_lock = c /\ handler[c] = "off"
  BY DEF MailboxInv, Held
<1>2. \A i \in CPUs \ {c} : where[i] \notin Held
  BY <1>1 DEF MailboxInv
<1>3. c \notin targets[c]
  BY DEF MailboxInv
<1>4. ~ack[c]
  BY <1>1, <1>3 DEF MailboxInv, Posted
<1>5. QED
  BY <1>1, <1>2, <1>4

\* A new request, of a thread or from the deferred queue.
Asks(c) ==
    /\ where[c] = "run" /\ handler[c] = "off" /\ where'[c] = "spin"
    /\ \A i \in CPUs \ {c} : where'[i] = where[i] /\ op'[i] = op[i]
    /\ op'[c].space \in Spaces /\ op'[c].version \in Nat /\ op'[c].version <= pte'[op'[c].space]
    /\ \A s \in Spaces : pte'[s] \in Nat /\ pte[s] <= pte'[s]
    /\ UNCHANGED <<hw, shootdown_slot, ack, ipi, handler>>
    /\ UNCHANGED <<todo, probe, targets, shootdown_lock>>

\* A drained request is such a request.
LEMMA DrainAsks ==
    ASSUME TlbTypeOK, NEW c \in CPUs, tlb_flush_deferred_drain(c)
    PROVE  Asks(c) /\ TlbTypeOK'
<1>1. PICK r \in pending[c] :
          /\ pending' = [pending EXCEPT ![c] = @ \ {r}]
          /\ op' = [op EXCEPT ![c] =
                       [space |-> r, known |-> HasPcid /\ loaded[c] = r, version |-> pte[r]]]
  BY DEF tlb_flush_deferred_drain
<1>2. r \in Spaces /\ pte[r] \in Nat /\ pending \in [CPUs -> SUBSET Spaces] /\ DOMAIN op = CPUs
  BY DEF TlbTypeOK
<1>3. /\ op'[c].space = r /\ op'[c].version = pte[r]
      /\ \A i \in CPUs \ {c} : op'[i] = op[i]
  BY <1>1, <1>2
<1>4. /\ where[c] = "run" /\ handler[c] = "off" /\ where'[c] = "spin"
      /\ \A i \in CPUs \ {c} : where'[i] = where[i]
  BY GotoEffect DEF tlb_flush_deferred_drain, At
<1>5. Asks(c)
  BY SMT, <1>2, <1>3, <1>4, Typed DEF tlb_flush_deferred_drain, Asks, mailbox
<1>6. /\ pending' \in [CPUs -> SUBSET Spaces]
      /\ op' \in [CPUs -> [space : Spaces \cup {None}, known : BOOLEAN, version : Nat]]
  <2>1. op \in [CPUs -> [space : Spaces \cup {None}, known : BOOLEAN, version : Nat]]
    BY DEF TlbTypeOK
  <2>2. [space |-> r, known |-> HasPcid /\ loaded[c] = r, version |-> pte[r]]
            \in [space : Spaces \cup {None}, known : BOOLEAN, version : Nat]
    BY <1>2 DEF TlbTypeOK, Machine, HasPcid
  <2>3. QED
    BY <1>1, <1>2, <2>1, <2>2
<1>7. QED
  BY <1>5, <1>6 DEF tlb_flush_deferred_drain, TlbGoto, TlbPlaces, TlbTypeOK, switch, mailbox

\* So is a thread's.
LEMMA ChangeAsks ==
    ASSUME TlbTypeOK, NEW c \in CPUs, NEW s \in Spaces, Change(c, s)
    PROVE  Asks(c) /\ TlbTypeOK'
<1>1. PICK kind \in hw.callers \ {"masked"} :
          op' = [op EXCEPT ![c] = [space |-> s, known |-> HasPcid /\ kind # "foreign",
                                   version |-> pte[s] + 1]]
  BY DEF Change
<1>2. pte \in [Spaces -> Nat] /\ DOMAIN op = CPUs
  BY DEF TlbTypeOK
<1>3. /\ op'[c].space = s /\ op'[c].version = pte[s] + 1
      /\ \A i \in CPUs \ {c} : op'[i] = op[i]
  BY <1>1, <1>2
<1>4. /\ pte' \in [Spaces -> Nat] /\ pte'[s] = pte[s] + 1
      /\ \A r \in Spaces : pte'[r] \in Nat /\ pte[r] <= pte'[r]
  BY SMT, <1>2 DEF Change
<1>5. /\ where[c] = "run" /\ handler[c] = "off" /\ where'[c] = "spin"
      /\ \A i \in CPUs \ {c} : where'[i] = where[i]
  BY GotoEffect DEF Change, At
<1>6. Asks(c)
  BY SMT, <1>2, <1>3, <1>4, <1>5 DEF Change, Asks, mailbox
<1>7. op' \in [CPUs -> [space : Spaces \cup {None}, known : BOOLEAN, version : Nat]]
  <2>1. op \in [CPUs -> [space : Spaces \cup {None}, known : BOOLEAN, version : Nat]]
    BY DEF TlbTypeOK
  <2>2. [space |-> s, known |-> HasPcid /\ kind # "foreign", version |-> pte[s] + 1]
            \in [space : Spaces \cup {None}, known : BOOLEAN, version : Nat]
    BY SMT, <1>2
  <2>3. QED
    BY <1>1, <2>1, <2>2
<1>8. outer' \in CPUs \cup {None}
  BY DEF Change, TlbTypeOK
<1>9. QED
  BY <1>4, <1>6, <1>7, <1>8 DEF Change, TlbGoto, TlbPlaces, TlbTypeOK, switch, mailbox

\* The steps outside the protocol keep the types.
LEMMA LocalTypes ==
    ASSUME TlbTypeOK, NEW c \in CPUs, LocalStep(c)
    PROVE  TlbTypeOK'
<1> USE TlbConstants DEF TlbTypeOK, TlbPlaces, TlbGoto, mailbox, request
<1>1. CASE Access(c)
  BY <1>1 DEF Access, InUser, switch
<1>2. CASE Fault(c)
  BY <1>2 DEF Fault, switch
<1>3. CASE FaultDone(c)
  BY <1>3 DEF FaultDone, switch
<1>4. CASE ChangeMasked(c)
  BY SMT, <1>4 DEF ChangeMasked, InUser, FlushSpace, switch
<1>5. CASE SwitchPublish(c)
  BY <1>5 DEF SwitchPublish
<1>6. CASE SwitchCached(c)
  BY <1>6 DEF SwitchCached
<1>7. CASE SwitchLoad(c)
  <2>1. loaded' \in [CPUs -> Spaces \cup {None}]
    BY <1>7 DEF SwitchLoad
  <2>2. tlb' \in [CPUs -> [Spaces -> Nat \cup {None}]]
    <3> HIDE DEF TlbTypeOK
    <3>1. UNCHANGED tlb \/ FlushEverything(c) \/ \E s \in Spaces : FlushSpace(c, s)
      BY <1>7 DEF SwitchLoad, ReloadCr3
    <3>2. tlb \in [CPUs -> [Spaces -> Nat \cup {None}]]
      BY DEF TlbTypeOK
    <3>3. QED
      BY SMT, <3>1, <3>2 DEF FlushSpace, FlushEverything
  <2>3. QED
    BY <1>7, <2>1, <2>2 DEF SwitchLoad
<1>8. ASSUME NEW t \in Spaces \cup hw.others, SwitchStart(c, t) PROVE TlbTypeOK'
  BY <1>8 DEF SwitchStart
<1>9. QED
  BY <1>1, <1>2, <1>3, <1>4, <1>5, <1>6, <1>7, <1>8 DEF LocalStep

\* The steps outside the protocol keep the invariant.
LEMMA LocalStepInv ==
    ASSUME TlbTypeOK, MailboxInv, OpInv, NEW c \in CPUs, LocalStep(c)
    PROVE  TlbTypeOK' /\ MailboxInv' /\ OpInv'
<1>1. Elsewhere(c) /\ TlbTypeOK'
  BY LocalElsewhere, LocalTypes
<1>2. MailboxInv'
  <2>1. \A i \in CPUs : Posted(i)' = Posted(i)
    BY <1>1 DEF Elsewhere, Asking, Posted, Held
  <2>2. shootdown_lock \in CPUs \cup {None}
    BY DEF TlbTypeOK
  <2>3. QED
    BY SMT, <1>1, <2>1, <2>2 DEF Elsewhere, Asking, MailboxInv, Held
<1>3. OpInv'
  <2>1. \A s \in Spaces : pte[s] \in Nat /\ pte'[s] \in Nat /\ pte[s] <= pte'[s]
    BY <1>1 DEF Elsewhere, TlbTypeOK
  <2>2. QED
    BY SMT, <1>1, <2>1, Typed DEF Elsewhere, Asking, OpInv, Posted, Held
<1>4. QED
  BY <1>1, <1>2, <1>3

\* The handler answers the request of the holder, and closes it.
LEMMA HandlerStepInv ==
    ASSUME TlbTypeOK, MailboxInv, OpInv, NEW c \in CPUs, HandlerStep(c)
    PROVE  TlbTypeOK' /\ MailboxInv' /\ OpInv'
<1>1. OpInv'
  <2>1. UNCHANGED <<pte, shootdown_slot, where, request>>
    BY DEF HandlerStep, tlb_shootdown_isr, tlb_shootdown_poll, HandlerFlush, HandlerAck
  <2>2. QED
    BY <2>1 DEF OpInv, Posted, request
<1>2. ASSUME TlbTypeOK',
             UNCHANGED <<where, todo, probe, targets, shootdown_lock>>, ipi \subseteq ipi' \cup {c},
             \A i \in CPUs \ {c} : handler'[i] = handler[i] /\ ack'[i] = ack[i],
             where[c] \in {"run", "spin", "fault"},
             handler'[c] # "off" => ack'[c],
             ack'[c] => ack[c] /\ (handler'[c] = "off" => c \in ipi' /\ handler[c] = "off")
      PROVE  TlbTypeOK' /\ MailboxInv' /\ OpInv'
  <2>1. MailboxInv'
    BY SMT, <1>2, Typed DEF MailboxInv, Posted, Held
  <2>2. QED
    BY <1>1, <1>2, <2>1
<1>3. handler \in [CPUs -> {"off", "flush", "ack"}] /\ ack \in [CPUs -> BOOLEAN] /\ ipi \subseteq CPUs
  BY DEF TlbTypeOK
<1>4. CASE tlb_shootdown_isr(c)
  <2>1. TlbTypeOK'
    BY <1>3, <1>4 DEF tlb_shootdown_isr, TlbTypeOK, switch, request
  <2>2. QED
    BY <1>2, <1>3, <1>4, <2>1 DEF tlb_shootdown_isr, Unmasked, request
<1>5. CASE tlb_shootdown_poll(c)
  <2>1. TlbTypeOK'
    BY <1>3, <1>5 DEF tlb_shootdown_poll, TlbTypeOK, switch, request
  <2>2. QED
    BY <1>2, <1>3, <1>5, <2>1 DEF tlb_shootdown_poll, At, request
<1>6. CASE HandlerFlush(c)
  <2>1. ack[c] /\ where[c] \in {"run", "spin", "fault"} /\ shootdown_slot[c].space \in Spaces
    BY <1>6, SlotOfOp DEF HandlerFlush, MailboxInv
  <2>2. Flushes(c, shootdown_slot[c].space)
    BY <1>6, <2>1, HandlerEffect
  <2>3. TlbTypeOK'
    BY <1>3, <1>6, <2>2 DEF Flushes, TlbTypeOK, HandlerFlush, switch, request
  <2>4. QED
    BY <1>2, <1>3, <1>6, <2>1, <2>3 DEF HandlerFlush, request
<1>7. CASE HandlerAck(c)
  <2>1. where[c] \in {"run", "spin", "fault"}
    BY <1>7 DEF HandlerAck, MailboxInv
  <2>2. TlbTypeOK'
    BY <1>3, <1>7 DEF HandlerAck, TlbTypeOK, switch, request
  <2>3. QED
    BY <1>2, <1>3, <1>7, <2>1, <2>2 DEF HandlerAck, request
<1>8. QED
  BY <1>4, <1>5, <1>6, <1>7 DEF HandlerStep

\* A thread that asks has sent nothing yet.
LEMMA AsksInv ==
    ASSUME TlbTypeOK, MailboxInv, OpInv, NEW c \in CPUs, Asks(c)
    PROVE  MailboxInv' /\ OpInv'
<1>1. \A i \in CPUs : Posted(i)' = Posted(i)
  BY DEF Asks, Posted
<1>2. shootdown_lock \in CPUs \cup {None}
  BY DEF TlbTypeOK
<1>3. MailboxInv'
  BY SMT, <1>1, <1>2 DEF Asks, MailboxInv, Held
<1>4. OpInv'
  BY SMT, <1>1, Typed DEF Asks, OpInv, Held
<1>5. QED
  BY <1>3, <1>4

\* do_shootdown() takes the lock when no request is open.
LEMMA LockInv ==
    ASSUME TlbTypeOK, MailboxInv, OpInv, NEW c \in CPUs, LockShootdown(c)
    PROVE  TlbTypeOK' /\ MailboxInv' /\ OpInv'
<1> USE TlbConstants
<1>1. TlbTypeOK'
  BY DEF LockShootdown, TlbGoto, TlbPlaces, TlbTypeOK, switch, mailbox
<1>2. /\ where[c] = "spin" /\ shootdown_lock = None /\ shootdown_lock' = c
      /\ where'[c] = "scan" /\ todo'[c] = CPUs \ {c} /\ targets'[c] = {}
      /\ UNCHANGED <<pte, mailbox, probe, op>>
  BY GotoEffect DEF LockShootdown, At, TlbTypeOK
<1>3. \A i \in CPUs \ {c} : where'[i] = where[i] /\ todo'[i] = todo[i] /\ targets'[i] = targets[i]
  BY GotoEffect DEF LockShootdown, TlbTypeOK
<1>4. \A i \in CPUs : ~ack[i] /\ handler[i] = "off" /\ where[i] \notin Held
  BY <1>2 DEF MailboxInv
<1>5. MailboxInv'
  BY SMT, <1>2, <1>3, <1>4 DEF MailboxInv, Held, mailbox
<1>6. OpInv'
  BY <1>2, <1>3, <1>4 DEF OpInv, Held
<1>7. QED
  BY <1>1, <1>5, <1>6

\* The scan builds target_mask, and nothing is sent while it runs.
LEMMA ScanInv ==
    ASSUME TlbTypeOK, MailboxInv, OpInv, NEW c \in CPUs, NEW i \in CPUs, cpu_needs_shootdown(c, i)
    PROVE  TlbTypeOK' /\ MailboxInv' /\ OpInv'
<1>1. /\ where[c] = "scan" /\ i \in todo[c] /\ TlbTypeOK'
      /\ UNCHANGED <<pte, mailbox, op, shootdown_lock>>
      /\ ScanIdle(c, i) \/ ScanTarget(c, i) \/ ScanSkip(c, i)
  BY ScanCases
<1>2. /\ shootdown_lock = c /\ i # c /\ c \notin targets[c] \cup todo[c]
      /\ \A j \in CPUs \ {c} : where[j] \notin Held
  BY <1>1, OneHolder DEF Held, MailboxInv
<1>3. \A j \in CPUs : ~ack[j] /\ handler[j] = "off"
  BY <1>1, <1>2 DEF MailboxInv, Posted
<1>4. /\ where'[c] \in {"scan", "idle"} /\ \A j \in CPUs \ {c} : where'[j] = where[j]
      /\ c \notin targets'[c] \cup todo'[c]
  BY <1>1, <1>2 DEF ScanIdle, ScanTarget, ScanSkip, Visited
<1>5. /\ \A j \in CPUs \ {c} : probe'[j] = probe[j]
      /\ IF where'[c] = "idle" THEN probe'[c] \in todo'[c] ELSE probe'[c] = None
  BY SMT, <1>1 DEF ScanIdle, ScanTarget, ScanSkip, Visited, MailboxInv
<1>6. MailboxInv'
  BY SMT, <1>1, <1>2, <1>3, <1>4, <1>5 DEF MailboxInv, Held, mailbox
<1>7. OpInv'
  BY <1>1, <1>2, <1>4 DEF OpInv, Held
<1>8. QED
  BY <1>1, <1>6, <1>7

\* So for the rest of the idle path and for its end.
LEMMA ScanRestInv ==
    ASSUME TlbTypeOK, MailboxInv, OpInv, NEW c \in CPUs, IdleInvalidate(c) \/ ScanDone(c)
    PROVE  TlbTypeOK' /\ MailboxInv' /\ OpInv'
<1>1. /\ where[c] \in {"scan", "idle"} /\ UNCHANGED <<pte, mailbox, op, targets, shootdown_lock>>
      /\ \A j \in CPUs \ {c} : where'[j] = where[j]
  BY GotoEffect DEF IdleInvalidate, ScanDone, At
<1>2. /\ shootdown_lock = c /\ c \notin targets[c] \cup todo[c]
      /\ \A j \in CPUs \ {c} : where[j] \notin Held
  BY <1>1, OneHolder DEF Held, MailboxInv
<1>3. \A j \in CPUs : ~ack[j] /\ handler[j] = "off"
  BY <1>1, <1>2 DEF MailboxInv, Posted
<1>4. /\ active_pcids \in [CPUs -> SUBSET Spaces] /\ probe \in [CPUs -> CPUs \cup {None}]
      /\ todo \in [CPUs -> SUBSET CPUs] /\ targets \in [CPUs -> SUBSET CPUs]
      /\ where \in [CPUs -> TlbPlaces]
  BY DEF TlbTypeOK
<1>5. CASE IdleInvalidate(c)
  <2>1. active_pcids' \in [CPUs -> SUBSET Spaces]
    BY SMT, <1>4, <1>5 DEF IdleInvalidate, cpu_pcid_invalidate
  <2>2. todo' \in [CPUs -> SUBSET CPUs] /\ todo'[c] = todo[c] \ {probe[c]}
    BY <1>4, <1>5 DEF IdleInvalidate, Visit
  <2>3. /\ probe' \in [CPUs -> CPUs \cup {None}] /\ where' \in [CPUs -> TlbPlaces]
        /\ probe'[c] = None /\ where'[c] = "scan" /\ \A j \in CPUs \ {c} : probe'[j] = probe[j]
    BY <1>4, <1>5 DEF IdleInvalidate, TlbGoto, TlbPlaces
  <2>4. TlbTypeOK'
    BY <1>5, <2>1, <2>2, <2>3 DEF IdleInvalidate, TlbTypeOK, switch, mailbox
  <2>5. MailboxInv'
    BY SMT, <1>1, <1>2, <1>3, <2>2, <2>3 DEF MailboxInv, Held, mailbox
  <2>6. OpInv'
    BY <1>1, <1>2, <2>3 DEF OpInv, Held
  <2>7. QED
    BY <2>4, <2>5, <2>6
<1>6. CASE ScanDone(c)
  <2>1. /\ todo' \in [CPUs -> SUBSET CPUs] /\ where' \in [CPUs -> TlbPlaces]
        /\ todo'[c] = targets[c] /\ where'[c] = "post"
    BY <1>4, <1>6 DEF ScanDone, TlbGoto, TlbPlaces
  <2>2. UNCHANGED probe /\ probe[c] = None
    BY <1>6 DEF ScanDone, At, MailboxInv
  <2>3. TlbTypeOK'
    BY <1>6, <2>1 DEF ScanDone, TlbTypeOK, switch, mailbox
  <2>4. MailboxInv'
    BY SMT, <1>1, <1>2, <1>3, <2>1, <2>2 DEF MailboxInv, Held, mailbox
  <2>5. OpInv'
    <3>1. Posted(c)' = {}
      BY <1>1, <2>1 DEF Posted
    <3>2. QED
      BY SMT, <1>1, <1>2, <2>1, <2>2, <3>1 DEF OpInv, Held
  <2>6. QED
    BY <2>3, <2>4, <2>5
<1>7. QED
  BY <1>5, <1>6

\* Slot, acknowledgement flag and interrupt, target by target.
LEMMA PostInv ==
    ASSUME TlbTypeOK, MailboxInv, OpInv, NEW c \in CPUs,
           PostAck(c) \/ LocalFlush(c) \/ \E i \in CPUs : PostSlot(c, i) \/ SendIpi(c, i)
    PROVE  TlbTypeOK' /\ MailboxInv' /\ OpInv'
<1> USE TlbConstants
<1>1. /\ where[c] \in {"post", "send"} /\ UNCHANGED <<pte, op, handler, targets, shootdown_lock>>
      /\ \A j \in CPUs \ {c} : where'[j] = where[j]
  BY GotoEffect DEF PostAck, LocalFlush, PostSlot, SendIpi, At, mailbox
<1>2. /\ shootdown_lock = c /\ c \notin targets[c] \cup todo[c] /\ todo[c] \subseteq targets[c]
      /\ \A j \in CPUs \ {c} : where[j] \notin Held
  BY <1>1, OneHolder DEF Held, MailboxInv
<1>3. /\ shootdown_slot \in [CPUs -> [space : Spaces \cup {None}, known : BOOLEAN]]
      /\ ack \in [CPUs -> BOOLEAN] /\ ipi \subseteq CPUs
      /\ todo \in [CPUs -> SUBSET CPUs] /\ probe \in [CPUs -> CPUs \cup {None}]
      /\ targets[c] \subseteq CPUs /\ where \in [CPUs -> TlbPlaces]
  BY DEF TlbTypeOK
<1>4. op[c].space \in Spaces /\ op[c].known \in BOOLEAN
  BY <1>1, Typed DEF OpInv, Held
<1>5. ASSUME NEW i \in CPUs, PostSlot(c, i)
      PROVE  TlbTypeOK' /\ MailboxInv' /\ OpInv'
  <2>1. /\ where[c] = "post" /\ probe[c] = None /\ i \in todo[c] /\ probe'[c] = i
        /\ \A j \in CPUs \ {c} : probe'[j] = probe[j]
        /\ UNCHANGED <<ack, ipi, where, todo>>
    BY <1>3, <1>5 DEF PostSlot, At
  <2>2. /\ shootdown_slot'[i].space = op[c].space /\ shootdown_slot'[i].known = op[c].known
        /\ \A j \in CPUs \ {i} : shootdown_slot'[j] = shootdown_slot[j]
    BY <1>3, <1>5 DEF PostSlot
  <2>3. TlbTypeOK'
    <3>1. shootdown_slot' \in [CPUs -> [space : Spaces \cup {None}, known : BOOLEAN]]
      BY <1>3, <1>4, <1>5 DEF PostSlot
    <3>2. QED
      BY <1>5, <3>1 DEF PostSlot, TlbTypeOK, switch
  <2>4. MailboxInv'
    BY <1>1, <1>2, <2>1 DEF MailboxInv, Held, Posted
  <2>5. OpInv'
    BY SMT, <1>1, <1>2, <1>3, <2>1, <2>2 DEF OpInv, Held, Posted
  <2>6. QED
    BY <2>3, <2>4, <2>5
<1>6. CASE PostAck(c)
  <2>1. /\ where[c] = "post" /\ probe[c] \in todo[c] /\ probe'[c] = None
        /\ \A j \in CPUs \ {c} : probe'[j] = probe[j]
        /\ UNCHANGED <<shootdown_slot, ipi, where>>
    BY SMT, <1>3, <1>6 DEF PostAck, At, MailboxInv
  <2>2. /\ probe[c] \in CPUs /\ todo'[c] = todo[c] \ {probe[c]}
        /\ \A j \in CPUs \ {probe[c]} : ack'[j] = ack[j]
    BY <1>3, <1>6, <2>1 DEF PostAck, Visit
  <2>3. TlbTypeOK'
    BY <1>6 DEF PostAck, Visit, TlbTypeOK, switch
  <2>4. MailboxInv'
    BY SMT, <1>1, <1>2, <2>1, <2>2 DEF MailboxInv, Held, Posted
  <2>5. OpInv'
    BY SMT, <1>1, <1>2, <2>1, <2>2 DEF OpInv, Held, Posted
  <2>6. QED
    BY <2>3, <2>4, <2>5
<1>7. CASE LocalFlush(c)
  <2>1. /\ where[c] = "post" /\ where'[c] = "send" /\ probe[c] = None /\ todo[c] = {}
        /\ todo'[c] = targets[c] /\ UNCHANGED <<mailbox, probe>>
    BY <1>3, <1>7 DEF LocalFlush, At, TlbGoto
  <2>2. TlbTypeOK'
    <3>1. Flushes(c, op[c].space)
      BY <1>4, <1>7, LocalEffect DEF LocalFlush
    <3>2. todo' \in [CPUs -> SUBSET CPUs] /\ where' \in [CPUs -> TlbPlaces]
      BY <1>3, <1>7 DEF LocalFlush, TlbGoto, TlbPlaces
    <3>3. QED
      BY <1>7, <3>1, <3>2 DEF LocalFlush, Flushes, TlbTypeOK, switch, mailbox
  <2>3. Posted(c)' = Posted(c)
    BY <1>1, <2>1 DEF Posted
  <2>4. MailboxInv'
    BY SMT, <1>1, <1>2, <2>1, <2>3 DEF MailboxInv, Held, mailbox
  <2>5. OpInv'
    BY SMT, <1>1, <1>2, <2>1, <2>3 DEF OpInv, Held, mailbox
  <2>6. QED
    BY <2>2, <2>4, <2>5
<1>8. ASSUME NEW i \in CPUs, SendIpi(c, i)
      PROVE  TlbTypeOK' /\ MailboxInv' /\ OpInv'
  <2>1. /\ where[c] = "send" /\ i \in todo[c] /\ todo'[c] = todo[c] \ {i} /\ ipi' = ipi \cup {i}
        /\ UNCHANGED <<shootdown_slot, ack, where, probe>>
    BY <1>3, <1>8 DEF SendIpi, At, Visit
  <2>2. TlbTypeOK'
    BY <1>8 DEF SendIpi, Visit, TlbTypeOK, switch
  <2>3. \A j \in CPUs : Posted(j)' = Posted(j)
    BY <1>1, <1>2, <2>1 DEF Posted, Held
  <2>4. MailboxInv'
    BY SMT, <1>1, <1>2, <2>1, <2>3 DEF MailboxInv, Held
  <2>5. OpInv'
    BY SMT, <1>1, <1>2, <2>1, <2>3 DEF OpInv, Held
  <2>6. QED
    BY <2>2, <2>4, <2>5
<1>9. QED
  BY <1>5, <1>6, <1>7, <1>8

\* When every target has acknowledged, the mailboxes are empty.
LEMMA CompleteInv ==
    ASSUME TlbTypeOK, MailboxInv, OpInv, NEW c \in CPUs, do_shootdown(c)
    PROVE  TlbTypeOK' /\ MailboxInv' /\ OpInv'
<1> USE TlbConstants
<1>1. /\ where[c] = "send" /\ where'[c] = "run" /\ shootdown_lock' = None
      /\ \A j \in CPUs \ {c} : where'[j] = where[j]
      /\ UNCHANGED <<pte, mailbox, todo, probe>> /\ \A i \in targets[c] : ~ack[i]
  BY GotoEffect DEF do_shootdown, At, Acknowledged
<1>2. shootdown_lock = c /\ \A j \in CPUs \ {c} : where[j] \notin Held
  BY <1>1, OneHolder DEF Held
<1>3. \A j \in CPUs : ~ack[j] /\ handler[j] = "off"
  BY <1>1, <1>2 DEF MailboxInv, Posted
<1>4. /\ flushed \in [Spaces -> Nat] /\ where \in [CPUs -> TlbPlaces]
      /\ op \in [CPUs -> [space : Spaces \cup {None}, known : BOOLEAN, version : Nat]]
  BY DEF TlbTypeOK
<1>5. \A j \in CPUs \ {c} : op'[j] = op[j]
  BY <1>4 DEF do_shootdown
<1>6. TlbTypeOK'
  <2>1. flushed' \in [Spaces -> Nat]
    BY <1>4 DEF do_shootdown
  <2>2. op' \in [CPUs -> [space : Spaces \cup {None}, known : BOOLEAN, version : Nat]]
    BY <1>4 DEF do_shootdown, NoOp
  <2>3. where' \in [CPUs -> TlbPlaces]
    BY <1>4 DEF do_shootdown, TlbGoto, TlbPlaces
  <2>4. QED
    BY <2>1, <2>2, <2>3 DEF do_shootdown, TlbTypeOK, switch, mailbox
<1>7. MailboxInv'
  BY SMT, <1>1, <1>2, <1>3 DEF MailboxInv, Held, mailbox
<1>8. OpInv'
  BY <1>1, <1>2, <1>5 DEF OpInv, Held
<1>9. QED
  BY <1>6, <1>7, <1>8

-----------------------------------------------------------------------------
(* The theorem.                                                              *)

\* Every step is of one of the three kinds.
LEMMA NextIsStepOf == TlbNext => \E c \in CPUs : StepOf(c)
BY DEF TlbNext, TlbStep, StepOf, LocalStep, RequestStep, HandlerStep

\* Nothing is requested at first.
LEMMA RequestInitInv == TlbInit => RequestInv
<1> SUFFICES ASSUME TlbInit PROVE RequestInv
  OBVIOUS
<1> USE TlbConstants
<1>1. TlbTypeOK
  BY DEF TlbInit, TlbTypeOK, TlbPlaces, NoOp
<1>2. MailboxInv /\ OpInv
  BY DEF TlbInit, MailboxInv, OpInv, Held
<1>3. QED
  BY <1>1, <1>2 DEF RequestInv

\* Every step keeps the invariant.
LEMMA RequestNextInv == ASSUME RequestInv, [TlbNext]_tlbVars PROVE RequestInv'
<1>1. TlbTypeOK /\ MailboxInv /\ OpInv
  BY DEF RequestInv
<1>2. CASE UNCHANGED tlbVars
  <2>1. TlbTypeOK'
    BY <1>1, <1>2 DEF tlbVars, switch, mailbox, request, TlbTypeOK
  <2>2. /\ UNCHANGED <<pte, shootdown_slot, ack, ipi, handler, where>>
        /\ UNCHANGED <<op, todo, probe, targets, shootdown_lock>>
    BY <1>2 DEF tlbVars, mailbox, request
  <2>3. MailboxInv'
    BY <1>1, <2>2 DEF MailboxInv, Posted
  <2>4. OpInv'
    BY <1>1, <2>2 DEF OpInv, Posted
  <2>5. QED
    BY <2>1, <2>3, <2>4 DEF RequestInv
<1>3. ASSUME NEW c \in CPUs, RequestStep(c) PROVE TlbTypeOK' /\ MailboxInv' /\ OpInv'
  <2>1. CASE tlb_flush_deferred_drain(c) \/ \E s \in Spaces : Change(c, s)
    BY <1>1, <2>1, DrainAsks, ChangeAsks, AsksInv
  <2>2. CASE \/ LockShootdown(c) \/ IdleInvalidate(c) \/ ScanDone(c)
             \/ \E i \in CPUs : cpu_needs_shootdown(c, i)
    BY <1>1, <2>2, LockInv, ScanInv, ScanRestInv
  <2>3. CASE PostAck(c) \/ LocalFlush(c) \/ \E i \in CPUs : PostSlot(c, i) \/ SendIpi(c, i)
    BY <1>1, <2>3, PostInv
  <2>4. CASE do_shootdown(c)
    BY <1>1, <2>4, CompleteInv
  <2>5. QED
    BY <1>3, <2>1, <2>2, <2>3, <2>4 DEF RequestStep
<1>4. CASE TlbNext
  BY <1>1, <1>3, <1>4, NextIsStepOf, LocalStepInv, HandlerStepInv DEF StepOf, RequestInv
<1>5. QED
  BY <1>2, <1>4

(***************************************************************************)
(* Once the interrupts of do_shootdown() are out, a target that has not    *)
(* acknowledged has the interrupt pending or is answering, on every        *)
(* machine: the wait ends when the targets run.                            *)
(***************************************************************************)
THEOREM TlbRequestAnswered == TlbSpec => []RequestAnswered
<1>1. RequestInv => RequestAnswered
  BY DEF RequestInv, MailboxInv, RequestAnswered
<1>2. QED
  BY <1>1, RequestInitInv, RequestNextInv, PTL DEF TlbSpec

-----------------------------------------------------------------------------
(* The steps, by what they do to the translations.                           *)

\* CPU c stays out of the context switch, or where it is in it.
Moves(c) ==
    /\ \/ where'[c] = where[c]
       \/ {where[c], where'[c]} \cap {"publish", "cached", "load"} = {}
    /\ \A i \in CPUs \ {c} : where'[i] = where[i]

\* A step of CPU c that leaves the translations and the switch alone.
Still(c) == Moves(c) /\ UNCHANGED <<hw, tlb, active_pcids, runs, loaded, next, noflush>>

\* A step of CPU c that invalidates for s on c.
Flushing(c, s) ==
    Moves(c) /\ where[c] # "load" /\ Flushes(c, s) /\ UNCHANGED <<hw, runs, loaded, next, noflush>>

\* A step of CPU c that passes over CPU i.
Skipping(c, i) == ScanSkip(c, i) /\ UNCHANGED <<hw, tlb, runs, loaded, next, noflush>>

\* A step of the context switch, or of user code that touches the entries.
Switches(c) ==
    \/ Access(c) \/ ChangeMasked(c) \/ SwitchPublish(c) \/ SwitchCached(c) \/ SwitchLoad(c)
    \/ \E t \in Spaces \cup hw.others : SwitchStart(c, t)

\* Every step is of one of these kinds; IdleInvalidate() clears no bit on a
\* sound machine.
LEMMA StepKinds ==
    ASSUME TlbTypeOK, OpInv, MailboxInv, FlushInv, NEW c \in CPUs, StepOf(c)
    PROVE  \/ Still(c) \/ (\E s \in Spaces : Flushing(c, s)) \/ (\E i \in CPUs : Skipping(c, i))
           \/ Switches(c)
<1> USE GotoEffect DEF Moves
<1>1. CASE LocalStep(c)
  <2>1. CASE Fault(c)
    BY SMT, <2>1 DEF Fault, InUser, At, Still, switch
  <2>2. CASE FaultDone(c)
    BY SMT, <2>2 DEF FaultDone, At, Still, switch
  <2>3. QED
    BY <1>1, <2>1, <2>2 DEF LocalStep, Switches
<1>2. CASE HandlerStep(c)
  <2>1. CASE HandlerFlush(c)
    <3>1. shootdown_slot[c].space \in Spaces /\ where[c] # "load"
      BY <2>1, SlotOfOp DEF HandlerFlush, MailboxInv
    <3>2. Flushes(c, shootdown_slot[c].space)
      BY <2>1, <3>1, HandlerEffect
    <3>3. QED
      BY <2>1, <3>1, <3>2 DEF HandlerFlush, Flushing, switch
  <2>2. CASE ~HandlerFlush(c)
    BY <1>2, <2>2 DEF HandlerStep, tlb_shootdown_isr, tlb_shootdown_poll, HandlerAck, Still, switch
  <2>3. QED
    BY <2>1, <2>2
<1>3. CASE RequestStep(c)
  <2>1. CASE tlb_flush_deferred_drain(c)
    BY SMT, <2>1 DEF tlb_flush_deferred_drain, At, Still, switch
  <2>2. ASSUME NEW s \in Spaces, Change(c, s) PROVE Still(c)
    BY SMT, <2>2 DEF Change, At, Still, switch
  <2>3. CASE LockShootdown(c)
    BY SMT, <2>3 DEF LockShootdown, At, Still, switch
  <2>4. CASE IdleInvalidate(c)
    <3>1. ~HasPcid
      BY <2>4 DEF IdleInvalidate, At, FlushInv, Progress, Held
    <3>2. QED
      BY SMT, <2>4, <3>1 DEF IdleInvalidate, At, Still, switch
  <2>5. CASE ScanDone(c)
    BY SMT, <2>5 DEF ScanDone, At, Still, switch
  <2>6. CASE PostAck(c)
    BY <2>6 DEF PostAck, Still, switch
  <2>7. CASE LocalFlush(c)
    <3>1. op[c].space \in Spaces /\ op[c].known \in BOOLEAN
      BY <2>7, Typed DEF LocalFlush, At, OpInv, Held
    <3>2. Flushes(c, op[c].space)
      BY <2>7, <3>1, LocalEffect DEF LocalFlush
    <3>3. QED
      BY SMT, <2>7, <3>1, <3>2 DEF LocalFlush, At, Flushing, switch
  <2>8. CASE do_shootdown(c)
    BY SMT, <2>8 DEF do_shootdown, At, Still, switch
  <2>9. ASSUME NEW i \in CPUs, cpu_needs_shootdown(c, i) PROVE Still(c) \/ Skipping(c, i)
    BY <2>9, ScanCases DEF ScanIdle, ScanTarget, Visited, Still, Skipping, switch
  <2>10. ASSUME NEW i \in CPUs, PostSlot(c, i) PROVE Still(c)
    BY <2>10 DEF PostSlot, Still, switch
  <2>11. ASSUME NEW i \in CPUs, SendIpi(c, i) PROVE Still(c)
    BY <2>11 DEF SendIpi, Still, switch
  <2>12. QED
    BY <1>3, <2>1, <2>2, <2>3, <2>4, <2>5, <2>6, <2>7, <2>8, <2>9, <2>10, <2>11 DEF RequestStep
<1>4. QED
  BY <1>1, <1>2, <1>3 DEF StepOf

\* What a step of the context switch does, CPU by CPU: the place, the entries,
\* the bits and CR3 of every other CPU stay.
LEMMA SwitchOthers ==
    ASSUME TlbTypeOK, NEW c \in CPUs, Switches(c)
    PROVE  /\ UNCHANGED hw
           /\ \A i \in CPUs \ {c} :
                /\ where'[i] = where[i] /\ tlb'[i] = tlb[i] /\ active_pcids'[i] = active_pcids[i]
                /\ runs'[i] = runs[i] /\ loaded'[i] = loaded[i] /\ next'[i] = next[i]
                /\ noflush'[i] = noflush[i]
<1>1. /\ tlb \in [CPUs -> [Spaces -> Nat \cup {None}]] /\ active_pcids \in [CPUs -> SUBSET Spaces]
      /\ DOMAIN runs = CPUs /\ DOMAIN loaded = CPUs /\ DOMAIN next = CPUs /\ DOMAIN noflush = CPUs
  BY DEF TlbTypeOK
<1> USE GotoEffect
<1>2. CASE Access(c)
  BY <1>1, <1>2 DEF Access, switch
<1>3. CASE ChangeMasked(c)
  BY <1>1, <1>3 DEF ChangeMasked, FlushSpace, switch
<1>4. CASE SwitchPublish(c)
  BY <1>1, <1>4 DEF SwitchPublish
<1>5. CASE SwitchCached(c)
  BY <1>1, <1>5 DEF SwitchCached
<1>6. CASE SwitchLoad(c)
  BY <1>1, <1>6 DEF SwitchLoad, ReloadCr3, FlushSpace, FlushEverything
<1>7. ASSUME NEW t \in Spaces \cup hw.others, SwitchStart(c, t)
      PROVE  /\ UNCHANGED <<hw, tlb, active_pcids, runs, loaded, noflush>>
             /\ \A i \in CPUs \ {c} : where'[i] = where[i] /\ next'[i] = next[i]
  BY <1>1, <1>7 DEF SwitchStart
<1>8. QED
  BY <1>2, <1>3, <1>4, <1>5, <1>6, <1>7 DEF Switches

\* The load of CR3: what was cached of the space goes, unless the load need
\* not flush or the space was loaded.
LEMMA LoadEffect ==
    ASSUME TlbTypeOK, NEW c \in CPUs, SwitchLoad(c)
    PROVE  LET s == SpaceOf(next[c])
           IN /\ where[c] = "load" /\ where'[c] = "run" /\ noflush'[c] = FALSE
              /\ loaded'[c] = s /\ s \in Spaces \cup {None}
              /\ UNCHANGED <<hw, active_pcids, next, runs>>
              /\ \A r \in Spaces : tlb'[c][r] \in {tlb[c][r], None}
              /\ tlb' \in [CPUs -> [Spaces -> Nat \cup {None}]]
              /\ s # loaded[c] /\ ~noflush[c] =>
                   \A r \in Spaces : r = s \/ ~HasPcid => tlb'[c][r] = None
<1> DEFINE s == SpaceOf(next[c])
<1>1. /\ where[c] = "load" /\ loaded' = [loaded EXCEPT ![c] = s] /\ TlbGoto(c, "run")
      /\ UNCHANGED <<hw, active_pcids, next, runs>>
      /\ IF s = loaded[c] \/ noflush[c] THEN UNCHANGED tlb ELSE ReloadCr3(c, s)
      /\ noflush' = [noflush EXCEPT ![c] = FALSE]
  BY DEF SwitchLoad, At, SpaceOf
<1>2. where'[c] = "run" /\ loaded'[c] = s /\ s \in Spaces \cup {None} /\ noflush'[c] = FALSE
  BY <1>1, GotoEffect DEF TlbTypeOK, SpaceOf
<1>3. tlb \in [CPUs -> [Spaces -> Nat \cup {None}]] /\ None \notin Spaces
  BY TlbConstants DEF TlbTypeOK
<1>4. CASE UNCHANGED tlb
  <2>1. s # loaded[c] /\ ~noflush[c] =>
          (HasPcid /\ (s = None \/ FlushSpace(c, s))) \/ FlushEverything(c)
    BY <1>1 DEF ReloadCr3
  <2>2. s # loaded[c] /\ ~noflush[c] => \A r \in Spaces : r = s \/ ~HasPcid => tlb'[c][r] = None
    BY <1>2, <1>3, <2>1 DEF FlushSpace, FlushEverything
  <2>3. QED
    BY <1>1, <1>2, <1>3, <1>4, <2>2
<1>5. CASE FlushEverything(c)
  <2>1. tlb' \in [CPUs -> [Spaces -> Nat \cup {None}]] /\ \A r \in Spaces : tlb'[c][r] = None
    BY <1>3, <1>5 DEF FlushEverything
  <2>2. QED
    BY <1>1, <1>2, <2>1
<1>6. CASE HasPcid /\ s \in Spaces /\ FlushSpace(c, s)
  <2>1. /\ tlb' \in [CPUs -> [Spaces -> Nat \cup {None}]] /\ tlb'[c][s] = None
        /\ \A r \in Spaces : tlb'[c][r] \in {tlb[c][r], None}
    BY <1>3, <1>6 DEF FlushSpace
  <2>2. QED
    BY <1>1, <1>2, <1>6, <2>1
<1>7. UNCHANGED tlb \/ FlushEverything(c) \/ (HasPcid /\ s \in Spaces /\ FlushSpace(c, s))
  BY <1>1, <1>2 DEF ReloadCr3
<1>8. QED
  BY <1>4, <1>5, <1>6, <1>7

\* What is settled for a space on some CPU stays settled: a fresh walk reads
\* the page table, and CR3 is loaded with a flush where the bit is clear.
LEMMA CleanStep ==
    ASSUME TlbTypeOK, SwitchInv, OpInv, MailboxInv, FlushInv, NEW c \in CPUs, StepOf(c),
           NEW j \in CPUs, NEW r \in Spaces, NEW v \in Nat, v <= pte[r], Clean(j, r, v)
    PROVE  Clean(j, r, v)'
<1> USE DEF Clean, Covered, HasPcid
<1>1. CASE Still(c)
  BY <1>1 DEF Still, Moves
<1>2. ASSUME NEW s \in Spaces, Flushing(c, s) PROVE Clean(j, r, v)'
  BY <1>2 DEF Flushing, Moves, Flushes
<1>3. ASSUME NEW i \in CPUs, Skipping(c, i) PROVE Clean(j, r, v)'
  BY <1>3 DEF Skipping, ScanSkip, Visited
<1>4. CASE Switches(c)
  <2>1. CASE j # c
    BY <1>4, <2>1, SwitchOthers
  <2>2. CASE Access(c)
    <3>1. /\ UNCHANGED <<hw, active_pcids, where, loaded, next, noflush>>
          /\ tlb'[c][runs[c]] = pte[runs[c]]
          /\ \A q \in Spaces \ {runs[c]} : tlb'[c][q] = tlb[c][q]
      BY <2>2 DEF Access, InUser, switch, TlbTypeOK
    <3>2. CASE r = runs[c]
      BY SMT, <2>1, <3>1, <3>2
    <3>3. CASE r # runs[c]
      BY <2>1, <3>1, <3>3
    <3>4. QED
      BY <3>2, <3>3
  <2>3. CASE ChangeMasked(c)
    <3>1. UNCHANGED <<hw, active_pcids, where, loaded, next, noflush>>
      BY <2>3 DEF ChangeMasked, switch
    <3>2. tlb'[c][r] \in {tlb[c][r], None}
      BY <2>3 DEF ChangeMasked, FlushSpace, TlbTypeOK
    <3>3. QED
      BY <2>1, <3>1, <3>2
  <2>4. CASE SwitchPublish(c)
    <3>1. /\ UNCHANGED <<hw, tlb, active_pcids, loaded, next, noflush>>
          /\ where[c] = "publish" /\ where'[c] = "cached"
      BY <2>4, GotoEffect DEF SwitchPublish, At
    <3>2. QED
      BY <2>1, <3>1
  <2>5. CASE SwitchCached(c)
    <3>1. /\ UNCHANGED <<hw, tlb, loaded, next>> /\ where[c] = "cached" /\ where'[c] = "load"
          /\ noflush'[c] = (HasPcid /\ next[c] \in active_pcids[c])
          /\ \A q \in Spaces : q \in active_pcids'[c] => q \in active_pcids[c] \/ q = next[c]
      BY <2>5, GotoEffect DEF SwitchCached, At, TlbTypeOK
    <3>2. QED
      BY <2>1, <3>1
  <2>6. CASE SwitchLoad(c)
    <3> DEFINE s == SpaceOf(next[c])
    <3>1. /\ where[c] = "load" /\ where'[c] = "run" /\ loaded'[c] = s
          /\ UNCHANGED <<hw, active_pcids, next>> /\ tlb'[c][r] \in {tlb[c][r], None}
          /\ s # loaded[c] /\ ~noflush[c] /\ (r = s \/ ~HasPcid) => tlb'[c][r] = None
      BY <2>6, LoadEffect
    <3>2. noflush[c] => next[c] \in active_pcids[c] /\ HasPcid
      BY DEF SwitchInv
    <3>3. r = s <=> next[c] = r
      BY TlbConstants DEF SpaceOf
    <3>4. QED
      BY <2>1, <3>1, <3>2, <3>3
  <2>7. ASSUME NEW t \in Spaces \cup hw.others, SwitchStart(c, t) PROVE Clean(j, r, v)'
    <3>1. /\ UNCHANGED <<hw, tlb, active_pcids, loaded, noflush>>
          /\ where[c] = "run" /\ where'[c] = "publish"
      BY <2>7, GotoEffect DEF SwitchStart, At
    <3>2. QED
      BY <2>1, <3>1
  <2>8. QED
    BY <1>4, <2>2, <2>3, <2>4, <2>5, <2>6, <2>7 DEF Switches
<1>5. QED
  BY <1>1, <1>2, <1>3, <1>4, StepKinds

\* The context switch keeps CR3, the bits and the entries in step, and no
\* other step disturbs that.
LEMMA SwitchStepInv ==
    ASSUME TlbTypeOK, Sound(hw), SwitchInv, OpInv, MailboxInv, FlushInv, NEW c \in CPUs, StepOf(c)
    PROVE  SwitchInv'
<1> DEFINE Nothing == [s \in Spaces |-> None]
<1> USE DEF HasPcid
<1>1. CASE Still(c)
  BY <1>1 DEF Still, Moves, SwitchInv, SpaceOf
<1>2. ASSUME NEW s \in Spaces, Flushing(c, s) PROVE SwitchInv'
  <2>1. \A i \in CPUs : tlb[i] = Nothing => tlb'[i] = Nothing
    BY SMT, <1>2 DEF Flushing, Flushes
  <2>2. \A i \in CPUs, q \in Spaces : tlb[i][q] = None => tlb'[i][q] = None
    BY <1>2 DEF Flushing, Flushes
  <2>3. \A i \in CPUs : where'[i] # where[i] => where[i] \notin {"publish", "cached", "load"}
                                                /\ where'[i] \notin {"publish", "cached", "load"}
    BY <1>2 DEF Flushing, Moves
  <2>4. \A i \in CPUs : where[i] = "load" => active_pcids'[i] = active_pcids[i]
    BY <1>2 DEF Flushing, Flushes
  <2>5. QED
    BY <1>2, <2>1, <2>2, <2>3, <2>4 DEF Flushing, SwitchInv, SpaceOf
<1>3. ASSUME NEW i \in CPUs, Skipping(c, i) PROVE SwitchInv'
  BY <1>3 DEF Skipping, ScanSkip, Visited, QueueLocked, SwitchInv, SpaceOf
<1>4. CASE Switches(c)
  <2> DEFINE Local(i) ==
        /\ where[i] \notin {"cached", "load"} => loaded[i] = SpaceOf(runs[i])
        /\ where[i] \in {"cached", "load"} => runs[i] = next[i]
        /\ where[i] = "publish" => next[i] \in Spaces \cup hw.others
        /\ noflush[i] => where[i] = "load" /\ HasPcid /\ next[i] \in active_pcids[i]
        /\ \A s \in Spaces : ~HasPcid /\ loaded[i] # s => tlb[i][s] = None
        /\ HasPcid /\ "kthread" \notin hw.others /\ runs[i] \notin Spaces => tlb[i] = Nothing
  <2>1. Local(c)
    BY DEF SwitchInv
  <2>2. ASSUME NEW i \in CPUs \ {c} PROVE Local(i)'
    <3>1. Local(i)
      BY DEF SwitchInv
    <3>2. QED
      BY <1>4, <2>2, <3>1, SwitchOthers DEF SpaceOf
  <2>3. UNCHANGED hw /\ None \notin Spaces
    BY <1>4, SwitchOthers, TlbConstants
  <2>4. ASSUME Access(c) PROVE Local(c)'
    <3>1. /\ UNCHANGED <<active_pcids, where, runs, loaded, next, noflush>> /\ runs[c] \in Spaces
          /\ loaded[c] = runs[c] /\ \A q \in Spaces \ {runs[c]} : tlb'[c][q] = tlb[c][q]
      BY <2>4 DEF Access, InUser, switch, TlbTypeOK
    <3>2. QED
      BY <2>1, <2>3, <3>1 DEF SpaceOf
  <2>5. ASSUME ChangeMasked(c) PROVE Local(c)'
    <3>1. UNCHANGED <<active_pcids, where, runs, loaded, next, noflush>> /\ runs[c] \in Spaces
      BY <2>5 DEF ChangeMasked, InUser, switch
    <3>2. \A q \in Spaces : tlb'[c][q] \in {tlb[c][q], None}
      BY <2>5 DEF ChangeMasked, FlushSpace, TlbTypeOK
    <3>3. QED
      BY <2>1, <2>3, <3>1, <3>2 DEF SpaceOf
  <2>6. ASSUME SwitchPublish(c) PROVE Local(c)'
    <3>1. /\ UNCHANGED <<tlb, active_pcids, loaded, next, noflush>> /\ runs'[c] = next[c]
          /\ where[c] = "publish" /\ where'[c] = "cached"
      BY <2>6, GotoEffect DEF SwitchPublish, At, TlbTypeOK
    <3>2. HasPcid /\ "kthread" \notin hw.others => next[c] \in Spaces
      <4>1. hw.others \subseteq {"idle", "kthread"}
        BY TlbConstants DEF TlbTypeOK, Machine
      <4>2. QED
        BY <2>1, <3>1, <4>1 DEF Sound
    <3>3. QED
      BY <2>1, <2>3, <3>1, <3>2
  <2>7. ASSUME SwitchCached(c) PROVE Local(c)'
    <3>1. /\ UNCHANGED <<tlb, loaded, next, runs>> /\ where[c] = "cached" /\ where'[c] = "load"
          /\ noflush'[c] = (HasPcid /\ next[c] \in active_pcids[c])
          /\ active_pcids[c] \subseteq active_pcids'[c]
      BY <2>7, GotoEffect DEF SwitchCached, At, TlbTypeOK
    <3>2. QED
      BY <2>1, <2>3, <3>1
  <2>8. ASSUME SwitchLoad(c) PROVE Local(c)'
    <3> DEFINE s == SpaceOf(next[c])
    <3>1. /\ where[c] = "load" /\ where'[c] = "run" /\ noflush'[c] = FALSE /\ loaded'[c] = s
          /\ UNCHANGED <<active_pcids, next, runs>>
          /\ \A q \in Spaces : tlb'[c][q] \in {tlb[c][q], None}
          /\ tlb' \in [CPUs -> [Spaces -> Nat \cup {None}]]
          /\ s # loaded[c] /\ ~noflush[c] /\ ~HasPcid => \A q \in Spaces : tlb'[c][q] = None
      BY <2>8, LoadEffect
    <3>2. tlb[c] = Nothing => tlb'[c] = Nothing
      BY <3>1
    <3>3. s = SpaceOf(runs[c])
      BY <2>1, <3>1
    <3>4. \A q \in Spaces : ~HasPcid /\ loaded'[c] # q => tlb'[c][q] = None
      BY <2>1, <3>1
    <3>5. QED
      BY <2>1, <2>3, <3>1, <3>2, <3>3, <3>4 DEF SpaceOf
  <2>9. ASSUME NEW t \in Spaces \cup hw.others, SwitchStart(c, t) PROVE Local(c)'
    <3>1. /\ UNCHANGED <<tlb, active_pcids, loaded, runs, noflush>> /\ next'[c] = t
          /\ where[c] = "run" /\ where'[c] = "publish"
      BY <2>9, GotoEffect DEF SwitchStart, At, TlbTypeOK
    <3>2. QED
      BY <2>1, <2>3, <2>9, <3>1 DEF SpaceOf
  <2>10. Local(c)'
    BY <1>4, <2>4, <2>5, <2>6, <2>7, <2>8, <2>9 DEF Switches
  <2> HIDE DEF Local
  <2>11. \A i \in CPUs : Local(i)'
    BY <2>2, <2>10
  <2>12. QED
    BY <2>11 DEF Local, SwitchInv
<1>5. QED
  BY <1>1, <1>2, <1>3, <1>4, StepKinds

\* A step that makes no request leaves the tags alone.
LEMMA TagStepInv ==
    ASSUME TlbTypeOK, MailboxInv, OpInv, Sound(hw), TagInv, NEW c \in CPUs, StepOf(c)
    PROVE  TagInv'
<1> USE DEF TagInv, HasPcid
<1>1. ASSUME UNCHANGED hw, \A k \in CPUs : pending'[k] \subseteq pending[k],
             \A k \in CPUs : where'[k] \in Asking => where[k] \in Asking /\ op'[k] = op[k]
      PROVE  TagInv'
  BY <1>1 DEF Asking
<1>2. CASE LocalStep(c)
  <2>1. Elsewhere(c)
    BY <1>2, LocalElsewhere
  <2>2. CASE ~ChangeMasked(c)
    <3>1. UNCHANGED pending
      BY <1>2, <2>2 DEF LocalStep, Access, Fault, FaultDone, SwitchPublish, SwitchCached, SwitchLoad,
         SwitchStart
    <3>2. QED
      BY <1>1, <2>1, <3>1 DEF Elsewhere
  <2>3. CASE ChangeMasked(c)
    <3>1. "masked" \in hw.callers
      BY <2>3 DEF ChangeMasked
    <3>2. QED
      BY <2>1, <2>3, <3>1 DEF Elsewhere, Asking, ChangeMasked
  <2>4. QED
    BY <2>2, <2>3
<1>3. CASE HandlerStep(c)
  <2>1. UNCHANGED <<hw, where, pending, op>>
    BY <1>3 DEF HandlerStep, tlb_shootdown_isr, tlb_shootdown_poll, HandlerFlush, HandlerAck, request
  <2>2. QED
    BY <1>1, <2>1
<1>4. CASE tlb_flush_deferred_drain(c)
  <2>1. PICK r \in pending[c] : pending' = [pending EXCEPT ![c] = @ \ {r}]
    BY <1>4, Zenon DEF tlb_flush_deferred_drain
  <2>2. \A k \in CPUs : pending'[k] \subseteq pending[k]
    BY <2>1 DEF TlbTypeOK
  <2>3. HasPcid => "kthread" \notin hw.others
    BY <2>1 DEF Sound
  <2>4. UNCHANGED hw /\ \A k \in CPUs \ {c} : where'[k] = where[k] /\ op'[k] = op[k]
    BY <1>4, DrainAsks DEF Asks
  <2>5. QED
    BY <2>2, <2>3, <2>4
<1>5. ASSUME NEW s \in Spaces, Change(c, s) PROVE TagInv'
  <2>1. PICK kind \in hw.callers \ {"masked"} :
            op' = [op EXCEPT ![c] = [space |-> s, known |-> HasPcid /\ kind # "foreign",
                                     version |-> pte[s] + 1]]
    BY <1>5, Zenon DEF Change
  <2>2. UNCHANGED <<hw, pending>> /\ \A k \in CPUs \ {c} : where'[k] = where[k] /\ op'[k] = op[k]
    BY <1>5, ChangeAsks DEF Asks, Change
  <2>3. HasPcid /\ ~op'[c].known => "foreign" \in hw.callers
    BY <2>1 DEF TlbTypeOK
  <2>4. QED
    BY <2>2, <2>3 DEF Sound
<1>6. CASE do_shootdown(c)
  <2>1. UNCHANGED <<hw, pending>> /\ \A k \in CPUs \ {c} : where'[k] = where[k] /\ op'[k] = op[k]
    BY <1>6, GotoEffect DEF do_shootdown, TlbTypeOK
  <2>2. where'[c] \notin Asking
    BY SMT, <1>6, GotoEffect DEF do_shootdown, Asking, Held
  <2>3. QED
    BY <1>1, <2>1, <2>2
<1>7. ASSUME NEW i \in CPUs, cpu_needs_shootdown(c, i) PROVE TagInv'
  <2>1. /\ UNCHANGED <<hw, op, pending>> /\ where[c] \in Asking
        /\ \A k \in CPUs \ {c} : where'[k] = where[k]
    BY <1>7, ScanCases DEF ScanIdle, ScanTarget, ScanSkip, Visited, Asking, Held
  <2>2. QED
    BY <1>1, <2>1
<1>8. CASE RequestStep(c)
  <2>1. SUFFICES ASSUME \/ LockShootdown(c) \/ IdleInvalidate(c) \/ ScanDone(c)
                        \/ PostAck(c) \/ LocalFlush(c)
                        \/ \E i \in CPUs : PostSlot(c, i) \/ SendIpi(c, i)
                 PROVE  TagInv'
    BY <1>4, <1>5, <1>6, <1>7, <1>8 DEF RequestStep
  <2>2. /\ UNCHANGED <<hw, op, pending>> /\ where[c] \in Asking
        /\ UNCHANGED where \/ \E p \in Held : TlbGoto(c, p)
    BY <2>1 DEF LockShootdown, IdleInvalidate, ScanDone, PostAck, LocalFlush, PostSlot, SendIpi, At,
       Asking, Held
  <2>3. \A k \in CPUs \ {c} : where'[k] = where[k]
    BY <2>2, GotoEffect
  <2>4. QED
    BY <1>1, <2>2, <2>3
<1>9. QED
  BY <1>2, <1>3, <1>8 DEF StepOf

-----------------------------------------------------------------------------
(* The progress of a request.                                                *)

\* A CPU that is done with a request stays done.
LEMMA DoneStep ==
    ASSUME TlbTypeOK, SwitchInv, OpInv, MailboxInv, FlushInv, NEW c \in CPUs, StepOf(c),
           NEW h \in CPUs, where[h] \in Held, op'[h] = op[h]
    PROVE  \A j \in CPUs : Done(h, j) => Done(h, j)'
<1> SUFFICES ASSUME NEW j \in CPUs, Done(h, j) PROVE Done(h, j)'
  OBVIOUS
<1>1. op[h].space \in Spaces /\ op[h].version \in Nat /\ op[h].version <= pte[op[h].space]
  BY Typed DEF OpInv
<1>2. Clean(j, op[h].space, op[h].version)'
  <2> DEFINE s == op[h].space
             v == op[h].version
  <2>1. Clean(j, s, v)
    BY DEF Done
  <2> HIDE DEF s, v
  <2>2. Clean(j, s, v)'
    BY <1>1, <2>1, CleanStep DEF s, v
  <2>3. QED
    BY <2>2 DEF s, v
<1>3. QED
  BY <1>2 DEF Done

\* A step that leaves the requests under way alone and answers none.
Outside(c) ==
    /\ where[c] \notin Held /\ where'[c] \notin Held
    /\ \A i \in CPUs \ {c} : where'[i] = where[i] /\ op'[i] = op[i]
    /\ \A i \in CPUs : handler'[i] = "ack" => handler[i] = "ack"
    /\ \A i \in CPUs : ~ack'[i] => ~ack[i] \/ handler[i] = "ack"
    /\ UNCHANGED <<hw, todo, probe, targets>>

\* Such a step keeps the progress of every request.
LEMMA OutsideFlush ==
    ASSUME TlbTypeOK, SwitchInv, OpInv, MailboxInv, FlushInv, NEW c \in CPUs, StepOf(c), Outside(c)
    PROVE  FlushInv'
<1> SUFFICES ASSUME NEW h \in CPUs, where'[h] \in Held PROVE Progress(h)'
  BY DEF FlushInv, Held, Outside
<1>1. h # c /\ where'[h] = where[h] /\ op'[h] = op[h] /\ Progress(h)
  BY DEF FlushInv, Held, Outside
<1>2. \A j \in CPUs : Done(h, j) => Done(h, j)'
  BY <1>1, DoneStep
<1>3. Posted(h)' = Posted(h) /\ Posted(h) \subseteq CPUs
  BY <1>1 DEF Posted, TlbTypeOK, Outside
<1>4. \A i \in Posted(h) : ~ack'[i] \/ handler'[i] = "ack" => ~ack[i] \/ handler[i] = "ack"
  BY <1>3 DEF Outside
<1>5. probe[h] \in CPUs \cup {None} /\ (where[h] = "idle" => probe[h] \in CPUs)
  <2>1. where[h] = "idle" => probe[h] \in todo[h]
    BY DEF MailboxInv
  <2>2. QED
    BY <2>1 DEF TlbTypeOK
<1>6. QED
  BY <1>1, <1>2, <1>3, <1>4, <1>5 DEF Progress, HasPcid, Outside

\* The handler's invalidation settles the request for its CPU; the other
\* steps of the handler change nothing about it.
LEMMA HandlerFlushInv ==
    ASSUME TlbTypeOK, SwitchInv, OpInv, MailboxInv, FlushInv, NEW c \in CPUs, HandlerStep(c)
    PROVE  FlushInv'
<1> StepOf(c)
  BY DEF StepOf
<1>1. ack \in [CPUs -> BOOLEAN] /\ handler \in [CPUs -> {"off", "flush", "ack"}]
  BY DEF TlbTypeOK
<1>2. UNCHANGED <<hw, where, op, todo, probe, targets, shootdown_lock>>
  BY DEF HandlerStep, tlb_shootdown_isr, tlb_shootdown_poll, HandlerFlush, HandlerAck, request
<1>3. CASE tlb_shootdown_isr(c) \/ tlb_shootdown_poll(c)
  <2>1. /\ where[c] \notin Held /\ UNCHANGED ack /\ handler'[c] # "ack"
        /\ \A i \in CPUs \ {c} : handler'[i] = handler[i]
    BY <1>1, <1>3 DEF tlb_shootdown_isr, tlb_shootdown_poll, Unmasked, At, Held
  <2>2. Outside(c)
    BY <1>2, <2>1 DEF Outside
  <2>3. QED
    BY <2>2, OutsideFlush
<1>4. CASE HandlerAck(c)
  <2>1. handler[c] = "ack" /\ where[c] \in {"run", "spin", "fault"}
    BY <1>4 DEF HandlerAck, MailboxInv
  <2>2. handler'[c] = "off" /\ \A i \in CPUs \ {c} : handler'[i] = handler[i] /\ ack'[i] = ack[i]
    BY <1>1, <1>4 DEF HandlerAck
  <2>3. Outside(c)
    BY <1>2, <2>1, <2>2 DEF Outside, Held
  <2>4. QED
    BY <2>3, OutsideFlush
<1>5. CASE HandlerFlush(c)
  <2> DEFINE h == shootdown_lock
  <2>1. handler[c] = "flush" /\ ack[c] /\ where[c] \in {"run", "spin", "fault"}
    BY <1>5 DEF HandlerFlush, MailboxInv
  <2>2. /\ h \in CPUs /\ c \in Posted(h) /\ where[h] \in Held /\ h # c
        /\ shootdown_slot[c].space = op[h].space /\ op[h].space \in Spaces
    BY <2>1, SlotOfOp DEF Held
  <2>3. UNCHANGED ack /\ UNCHANGED switch
    BY <1>5 DEF HandlerFlush
  <2>4. \A i \in CPUs \ {c} : handler'[i] = handler[i]
    BY <1>1, <1>5 DEF HandlerFlush
  <2>5. Flushes(c, op[h].space)
    BY <1>5, <2>2, HandlerEffect
  <2>6. Done(h, c)'
    BY <1>2, <2>1, <2>3, <2>5 DEF Flushes, Done, Clean, Covered, HasPcid, switch
  <2>7. \A j \in CPUs : Done(h, j) => Done(h, j)'
    BY <1>2, <2>2, DoneStep
  <2>8. Posted(h)' = Posted(h) /\ Posted(h) \subseteq CPUs /\ (where[h] = "idle" => probe[h] \in CPUs)
    BY <1>2, <2>2, Typed DEF Posted, MailboxInv
  <2>9. Progress(h) /\ \A k \in CPUs \ {h} : where[k] \notin Held
    BY <2>2, OneHolder DEF FlushInv
  <2>10. Progress(h)'
    BY <1>2, <2>2, <2>3, <2>4, <2>6, <2>7, <2>8, <2>9 DEF Progress, HasPcid
  <2>11. QED
    BY <1>2, <2>9, <2>10 DEF FlushInv
<1>6. QED
  BY <1>3, <1>4, <1>5 DEF HandlerStep

\* The holder's step concerns the holder's request only.
LEMMA HolderFlush ==
    ASSUME TlbTypeOK, MailboxInv, FlushInv, NEW c \in CPUs, where[c] \in Held \/ shootdown_lock = None,
           \A k \in CPUs \ {c} : where'[k] = where[k], where'[c] \in Held => Progress(c)'
    PROVE  FlushInv'
<1>1. \A k \in CPUs \ {c} : where[k] \notin Held
  <2>1. CASE where[c] \in Held
    BY <2>1, OneHolder
  <2>2. CASE shootdown_lock = None
    BY <2>2, TlbConstants DEF MailboxInv
  <2>3. QED
    BY <2>1, <2>2
<1>2. QED
  BY <1>1 DEF FlushInv

\* The scan passes over a CPU only when it is done with the request: it runs
\* another space, whose entries of the request's are gone or have lost their
\* bit, or on a machine without kernel threads none at all.
LEMMA ScanFlushInv ==
    ASSUME TlbTypeOK, Sound(hw), SwitchInv, OpInv, MailboxInv, TagInv, FlushInv, NEW c \in CPUs,
           NEW i \in CPUs, cpu_needs_shootdown(c, i)
    PROVE  FlushInv'
<1> StepOf(c)
  BY DEF StepOf, RequestStep
<1>1. /\ where[c] = "scan" /\ i \in todo[c] /\ i # c
      /\ UNCHANGED <<hw, tlb, op, ack, handler>> /\ UNCHANGED switch
      /\ ScanIdle(c, i) \/ ScanTarget(c, i) \/ ScanSkip(c, i)
  BY ScanCases DEF MailboxInv, mailbox, Held
<1>2. where[c] \in Held /\ Progress(c)
  BY <1>1 DEF FlushInv, Held
<1>3. \A j \in CPUs : Done(c, j) => Done(c, j)'
  BY <1>1, <1>2, DoneStep
<1>4. \A k \in CPUs \ {c} : where'[k] = where[k]
  BY <1>1 DEF ScanIdle, ScanTarget, ScanSkip, Visited
<1>5. op[c].space \in Spaces /\ op[c].known \in BOOLEAN
  BY <1>2, Typed DEF OpInv
<1>6. ASSUME ScanIdle(c, i) PROVE Progress(c)'
  <2>1. ~HasPcid
    <3>1. runs[i] \in Spaces \cup hw.others \cup {"kthread"}
      BY DEF TlbTypeOK
    <3>2. QED
      BY <1>6, <3>1, TlbConstants DEF ScanIdle, Sound, HasPcid
  <2>2. runs[i] = "idle" /\ where'[c] = "idle" /\ probe'[c] = i /\ UNCHANGED <<todo, targets>>
    BY <1>6 DEF ScanIdle
  <2>3. Done(c, i)'
    <3>1. where[i] \in {"cached", "load"} => runs[i] = next[i]
      BY DEF SwitchInv
    <3>2. where[i] \notin {"cached", "load"} => loaded[i] = None
      BY <2>2, TlbConstants DEF SwitchInv, SpaceOf
    <3>3. Covered(i, op[c].space)
      BY <1>5, <2>1, <2>2, <3>1, <3>2, TlbConstants DEF Covered
    <3>4. QED
      BY <1>3, <3>3 DEF Done, Clean
  <2>4. QED
    BY <1>1, <1>2, <1>3, <2>1, <2>2, <2>3 DEF Progress, Posted, HasPcid
<1>7. ASSUME ScanTarget(c, i) PROVE Progress(c)'
  BY <1>1, <1>2, <1>3, <1>7 DEF ScanTarget, Visited, Progress, Posted
<1>8. ASSUME ScanSkip(c, i) PROVE Progress(c)'
  <2>1. loaded[i] = SpaceOf(runs[i]) /\ where[i] \notin {"cached", "load"}
    BY <1>8 DEF ScanSkip, QueueLocked, SwitchInv
  <2>2. ASSUME ~HasPcid PROVE Done(c, i)'
    <3>1. loaded[i] # op[c].space
      BY <1>5, <1>8, <2>1, <2>2, TlbConstants DEF ScanSkip, NeedsIpi, SpaceOf
    <3>2. tlb[i][op[c].space] = None
      BY <1>5, <2>2, <3>1 DEF SwitchInv
    <3>3. QED
      BY <1>1, <3>2 DEF Done, Clean
  <2>3. ASSUME HasPcid, op[c].known PROVE Done(c, i)'
    <3>1. loaded[i] # op[c].space /\ op[c].space \notin active_pcids'[i]
      BY <1>5, <1>8, <2>1, <2>3, TlbConstants DEF ScanSkip, NeedsIpi, SpaceOf
    <3>2. QED
      BY <1>1, <2>3, <3>1 DEF Done, Clean, Covered, HasPcid, switch
  <2>4. ASSUME HasPcid, ~op[c].known PROVE Done(c, i)'
    <3>1. "kthread" \notin hw.others /\ runs[i] \notin Spaces
      BY <1>2, <1>5, <1>8, <2>4 DEF ScanSkip, NeedsIpi, TagInv
    <3>2. tlb[i] = [s \in Spaces |-> None]
      BY <2>4, <3>1 DEF SwitchInv
    <3>3. QED
      BY <1>1, <1>5, <3>2 DEF Done, Clean
  <2>5. Done(c, i)'
    BY <1>5, <2>2, <2>3, <2>4
  <2>6. QED
    BY <1>1, <1>2, <1>3, <1>8, <2>5 DEF ScanSkip, Visited, Progress, Posted
<1>9. QED
  BY <1>1, <1>2, <1>4, <1>6, <1>7, <1>8, HolderFlush

\* The other steps of the initiator.
LEMMA RequestFlushInv ==
    ASSUME TlbTypeOK, Sound(hw), SwitchInv, OpInv, MailboxInv, TagInv, FlushInv,
           NEW c \in CPUs, RequestStep(c)
    PROVE  FlushInv'
<1> USE GotoEffect DEF At
<1> StepOf(c)
  BY DEF StepOf
<1>1. /\ todo[c] \subseteq CPUs /\ targets[c] \subseteq CPUs
      /\ DOMAIN todo = CPUs /\ DOMAIN targets = CPUs /\ ack \in [CPUs -> BOOLEAN]
  BY DEF TlbTypeOK
<1>2. ASSUME where[c] \in Held, op'[c] = op[c]
      PROVE  /\ Progress(c) /\ \A j \in CPUs : Done(c, j) => Done(c, j)'
  BY <1>2, DoneStep DEF FlushInv
<1>3. CASE Asks(c)
  <2>1. Outside(c)
    BY <1>3 DEF Asks, Outside, Held
  <2>2. QED
    BY <2>1, OutsideFlush
<1>4. CASE LockShootdown(c)
  <2>1. /\ where'[c] = "scan" /\ todo'[c] = CPUs \ {c} /\ \A i \in CPUs \ {c} : where'[i] = where[i]
        /\ shootdown_lock = None
    BY <1>1, <1>4 DEF LockShootdown
  <2>2. Progress(c)'
    BY <2>1 DEF Progress, Posted
  <2>3. QED
    BY <2>1, <2>2, HolderFlush
<1>5. CASE IdleInvalidate(c)
  <2>1. /\ todo'[c] = todo[c] \ {probe[c]} /\ where[c] = "idle" /\ where'[c] = "scan"
        /\ UNCHANGED <<op, targets>> /\ \A i \in CPUs \ {c} : where'[i] = where[i]
    BY <1>1, <1>5 DEF IdleInvalidate, Visit
  <2>2. Progress(c)'
    BY <1>2, <2>1 DEF Progress, Posted, Held
  <2>3. QED
    BY <2>1, <2>2, HolderFlush DEF Held
<1>6. CASE ScanDone(c)
  <2>1. /\ todo'[c] = targets[c] /\ where[c] = "scan" /\ where'[c] = "post" /\ todo[c] = {}
        /\ UNCHANGED <<op, targets>> /\ \A i \in CPUs \ {c} : where'[i] = where[i]
    BY <1>1, <1>6 DEF ScanDone
  <2>2. Progress(c)'
    BY <1>1, <1>2, <2>1 DEF Progress, Posted, Held
  <2>3. QED
    BY <2>1, <2>2, HolderFlush DEF Held
<1>7. CASE PostAck(c)
  <2>1. /\ where[c] = "post" /\ probe[c] # None /\ UNCHANGED <<where, op, targets, handler>>
        /\ todo'[c] = todo[c] \ {probe[c]} /\ probe[c] \in todo[c] /\ todo[c] \subseteq targets[c]
        /\ ack' = [ack EXCEPT ![probe[c]] = TRUE]
    <3>1. where[c] = "post" /\ probe[c] # None
      BY <1>7 DEF PostAck
    <3>2. probe[c] \in todo[c] /\ todo[c] \subseteq targets[c]
      BY <3>1 DEF MailboxInv
    <3>3. QED
      BY <1>1, <1>7, <3>1, <3>2 DEF PostAck, Visit
  <2>2. handler[probe[c]] = "off"
    <3>1. shootdown_lock = c /\ probe[c] \in CPUs /\ probe[c] \notin Posted(c)
      BY <1>1, <2>1, OneHolder DEF Posted, Held
    <3>2. QED
      BY <3>1 DEF MailboxInv
  <2>3. \A k \in Posted(c)' : ~ack'[k] \/ handler'[k] = "ack" =>
            k \in CPUs /\ k \in Posted(c) /\ (~ack[k] \/ handler[k] = "ack")
    BY <1>1, <2>1, <2>2 DEF Posted
  <2>4. Progress(c)'
    BY <1>1, <1>2, <2>1, <2>3 DEF Progress, Held
  <2>5. QED
    BY <2>1, <2>4, HolderFlush DEF Held
<1>8. CASE LocalFlush(c)
  <2>1. /\ where[c] = "post" /\ where'[c] = "send"
        /\ UNCHANGED <<targets, ack, handler, hw, op>> /\ UNCHANGED switch
        /\ todo[c] = {} /\ todo'[c] = targets[c] /\ \A i \in CPUs \ {c} : where'[i] = where[i]
    BY <1>1, <1>8 DEF LocalFlush, mailbox
  <2>2. op[c].space \in Spaces /\ op[c].known \in BOOLEAN
    BY <2>1, Typed DEF OpInv, Held
  <2>3. Flushes(c, op[c].space)
    BY <1>8, <2>2, LocalEffect DEF LocalFlush
  <2>4. Done(c, c)'
    BY <2>1, <2>2, <2>3 DEF Flushes, Done, Clean, Covered, HasPcid, switch
  <2>5. Progress(c)'
    BY <1>1, <1>2, <2>1, <2>4 DEF Progress, Posted, Held
  <2>6. QED
    BY <2>1, <2>5, HolderFlush DEF Held
<1>9. CASE do_shootdown(c)
  <2>1. where[c] = "send" /\ where'[c] = "run" /\ \A i \in CPUs \ {c} : where'[i] = where[i]
    BY <1>9 DEF do_shootdown
  <2>2. QED
    BY <2>1, HolderFlush DEF Held
<1>10. ASSUME NEW i \in CPUs, PostSlot(c, i) PROVE FlushInv'
  <2>1. where[c] = "post" /\ UNCHANGED <<where, op, targets, todo, ack, handler>>
    BY <1>10 DEF PostSlot
  <2>2. Progress(c)'
    BY <1>1, <1>2, <2>1 DEF Progress, Posted, Held
  <2>3. QED
    BY <2>1, <2>2, HolderFlush DEF Held
<1>11. ASSUME NEW i \in CPUs, SendIpi(c, i) PROVE FlushInv'
  <2>1. where[c] = "send" /\ UNCHANGED <<where, op, targets, ack, handler>>
    BY <1>11 DEF SendIpi
  <2>2. Progress(c)'
    BY <1>1, <1>2, <2>1 DEF Progress, Posted, Held
  <2>3. QED
    BY <2>1, <2>2, HolderFlush DEF Held
<1>12. QED
  BY <1>3, <1>4, <1>5, <1>6, <1>7, <1>8, <1>9, <1>10, <1>11,
     DrainAsks, ChangeAsks, ScanFlushInv DEF RequestStep

\* Every step keeps the progress of the requests.
LEMMA FlushStepInv ==
    ASSUME TlbTypeOK, Sound(hw), SwitchInv, OpInv, MailboxInv, TagInv, FlushInv,
           NEW c \in CPUs, StepOf(c)
    PROVE  FlushInv'
<1>1. CASE LocalStep(c)
  <2>1. Outside(c)
    BY <1>1, LocalElsewhere DEF Elsewhere, Outside, Asking
  <2>2. QED
    BY <2>1, OutsideFlush
<1>2. QED
  BY <1>1, HandlerFlushInv, RequestFlushInv DEF StepOf

-----------------------------------------------------------------------------
(* The promise of a completed shootdown.                                     *)

\* The machine is fixed, page tables only change forward, and only
\* do_shootdown() completes a request.
LEMMA TableStep ==
    ASSUME TlbTypeOK, NEW c \in CPUs, StepOf(c)
    PROVE  /\ UNCHANGED hw /\ \A s \in Spaces : pte[s] <= pte'[s]
           /\ UNCHANGED flushed \/ do_shootdown(c)
<1>1. UNCHANGED pte => \A s \in Spaces : pte[s] <= pte'[s]
  BY SMT, Typed
<1>2. CASE LocalStep(c)
  <2>1. UNCHANGED flushed
    BY <1>2, Zenon DEF LocalStep, Access, Fault, FaultDone, ChangeMasked, SwitchPublish, SwitchCached,
       SwitchLoad, SwitchStart
  <2>2. QED
    BY <1>2, <2>1, LocalElsewhere DEF Elsewhere
<1>3. CASE HandlerStep(c)
  BY <1>1, <1>3, Zenon DEF HandlerStep, tlb_shootdown_isr, tlb_shootdown_poll, HandlerFlush, HandlerAck
<1>4. CASE tlb_flush_deferred_drain(c) \/ \E s \in Spaces : Change(c, s)
  <2>1. Asks(c)
    BY <1>4, DrainAsks, ChangeAsks
  <2>2. UNCHANGED flushed
    BY <1>4, Zenon DEF tlb_flush_deferred_drain, Change
  <2>3. QED
    BY <2>1, <2>2 DEF Asks
<1>5. CASE RequestStep(c)
  <2>1. CASE ~(tlb_flush_deferred_drain(c) \/ \E s \in Spaces : Change(c, s))
    BY <1>1, <1>5, <2>1, Zenon DEF RequestStep, LockShootdown, IdleInvalidate, ScanDone, PostAck,
       LocalFlush, do_shootdown, cpu_needs_shootdown, PostSlot, SendIpi
  <2>2. QED
    BY <1>4, <2>1
<1>6. QED
  BY <1>2, <1>3, <1>5 DEF StepOf

\* What a completed shootdown promises is kept, and do_shootdown() promises
\* only what is true.
LEMMA FlushedStep ==
    ASSUME TlbInv, NEW c \in CPUs, StepOf(c), TlbTypeOK', NEW s \in Spaces, NEW i \in CPUs
    PROVE  flushed'[s] <= pte'[s] /\ Clean(i, s, flushed[s])'
<1>1. /\ MailboxInv /\ TlbTypeOK /\ Sound(hw) /\ SwitchInv /\ OpInv /\ TagInv /\ FlushInv
      /\ flushed[s] \in Nat /\ pte[s] \in Nat /\ flushed[s] <= pte[s] /\ Clean(i, s, flushed[s])
  BY Typed DEF TlbInv, RequestInv
<1>2. pte[s] <= pte'[s] /\ pte'[s] \in Nat
  BY <1>1, TableStep DEF TlbTypeOK
<1>3. ASSUME NEW v \in Nat, v <= pte[s], Clean(i, s, v), flushed'[s] = v
      PROVE  flushed'[s] <= pte'[s] /\ Clean(i, s, flushed[s])'
  <2>1. Clean(i, s, v)'
    BY <1>1, <1>3, CleanStep
  <2>2. flushed'[s] <= pte'[s]
    BY SMT, <1>1, <1>2, <1>3
  <2>3. tlb'[i][s] = None \/ tlb'[i][s] >= v \/ Covered(i, s)'
    BY <2>1 DEF Clean
  <2>4. tlb'[i][s] = None \/ tlb'[i][s] >= flushed'[s] \/ Covered(i, s)'
    BY <1>3, <2>3
  <2>5. QED
    BY <2>2, <2>4 DEF Clean
<1>4. CASE UNCHANGED flushed
  BY <1>1, <1>3, <1>4
<1>5. CASE do_shootdown(c)
  <2>1. /\ where[c] = "send" /\ todo[c] = {} /\ \A j \in targets[c] : ~ack[j]
        /\ op[c].space \in Spaces /\ op[c].version \in Nat /\ op[c].version <= pte[op[c].space]
    BY <1>1, <1>5, Typed DEF do_shootdown, At, Acknowledged, OpInv, Held
  <2>2. Done(c, i)
    BY <1>1, <2>1 DEF FlushInv, Progress, Posted, Held
  <2>3. flushed \in [Spaces -> Nat]
    BY <1>1 DEF TlbTypeOK
  <2>4. CASE s = op[c].space
    <3>1. flushed'[s] \in {flushed[s], op[c].version}
      BY <1>5, <2>1, <2>3, <2>4 DEF do_shootdown
    <3>2. Clean(i, s, op[c].version)
      BY <2>2, <2>4 DEF Done
    <3>3. QED
      BY <1>1, <1>3, <2>1, <2>4, <3>1, <3>2
  <2>5. CASE s # op[c].space
    <3>1. flushed'[s] = flushed[s]
      BY <1>5, <2>1, <2>3, <2>5 DEF do_shootdown
    <3>2. QED
      BY <1>1, <1>3, <3>1
  <2>6. QED
    BY <2>4, <2>5
<1>6. QED
  BY <1>1, <1>4, <1>5, TableStep

\* The machines the theorem is about.
SoundMachines == \A m \in Machines : Sound(m)

\* Nothing is cached, loaded or requested at first.
LEMMA TlbInitInv == SoundMachines /\ TlbInit => TlbInv
<1> SUFFICES ASSUME SoundMachines, TlbInit PROVE TlbInv
  OBVIOUS
<1> USE TlbConstants
<1>1. RequestInv /\ Sound(hw)
  BY RequestInitInv DEF TlbInit, SoundMachines
<1>2. SwitchInv
  BY DEF TlbInit, SwitchInv, SpaceOf
<1>3. TagInv /\ FlushInv
  BY DEF TlbInit, TagInv, FlushInv, Held
<1>4. \A s \in Spaces : flushed[s] <= pte[s] /\ \A i \in CPUs : Clean(i, s, flushed[s])
  BY SMT DEF TlbInit, Clean
<1>5. QED
  BY <1>1, <1>2, <1>3, <1>4 DEF TlbInv

\* A step that changes nothing keeps the invariant.
LEMMA TlbStutterInv == ASSUME TlbInv, UNCHANGED tlbVars PROVE TlbInv'
<1>1. RequestInv'
  BY RequestNextInv DEF TlbInv
<1>2. /\ HasPcid' = HasPcid /\ \A c \in CPUs : Posted(c)' = Posted(c)
      /\ \A i \in CPUs, s \in Spaces, v \in Nat : Clean(i, s, v)' <=> Clean(i, s, v)
  BY DEF tlbVars, switch, request, HasPcid, Posted, Clean, Covered
<1>3. Sound(hw)' /\ SwitchInv' /\ TagInv'
  BY DEF tlbVars, switch, request, TlbInv, Sound, SwitchInv, TagInv, HasPcid
<1>4. \A c, i \in CPUs : Done(c, i)' <=> Done(c, i)
  BY DEF tlbVars, switch, request, Done, HasPcid, Clean, Covered
<1>5. FlushInv'
  <2>1. \A c \in CPUs : where[c] = "idle" => probe[c] \in CPUs
    BY Typed DEF TlbInv, RequestInv, MailboxInv
  <2>2. \A c \in CPUs : Posted(c) \subseteq CPUs
    BY Typed DEF TlbInv, RequestInv, Posted
  <2>3. QED
    BY <1>2, <1>4, <2>1, <2>2 DEF tlbVars, mailbox, request, TlbInv, FlushInv, Progress
<1>6. \A s \in Spaces : flushed'[s] <= pte'[s] /\ \A i \in CPUs : Clean(i, s, flushed[s])'
  BY DEF tlbVars, switch, TlbInv, Clean, Covered, HasPcid
<1>7. QED
  BY <1>1, <1>3, <1>5, <1>6 DEF TlbInv

\* Every step keeps the invariant.
LEMMA TlbNextInv == ASSUME TlbInv, [TlbNext]_tlbVars PROVE TlbInv'
<1>1. RequestInv'
  BY RequestNextInv DEF TlbInv
<1>2. ASSUME NEW c \in CPUs, StepOf(c) PROVE TlbInv'
  <2>1. TlbTypeOK /\ TlbTypeOK' /\ OpInv /\ MailboxInv /\ Sound(hw) /\ SwitchInv /\ TagInv /\ FlushInv
    BY <1>1 DEF TlbInv, RequestInv
  <2>2. SwitchInv' /\ TagInv' /\ FlushInv'
    BY <1>2, <2>1, SwitchStepInv, TagStepInv, FlushStepInv
  <2>3. Sound(hw)'
    BY <1>2, <2>1, TableStep DEF Sound
  <2>4. QED
    BY <1>1, <1>2, <2>1, <2>2, <2>3, FlushedStep DEF TlbInv
<1>3. QED
  BY <1>2, NextIsStepOf, TlbStutterInv

(***************************************************************************)
(* When do_shootdown() has returned, no CPU that runs a thread of the      *)
(* space has the old translation, on every machine without the two windows *)
(* (SoundMachines) and for any number of CPUs, spaces and changes.         *)
(***************************************************************************)
THEOREM TlbNoStaleTranslation == SoundMachines => (TlbSpec => []NoStaleTranslation)
<1> SUFFICES ASSUME SoundMachines PROVE TlbSpec => []NoStaleTranslation
  OBVIOUS
<1>1. TlbInit => TlbInv
  BY TlbInitInv
<1>2. TlbInv => NoStaleTranslation
  BY Typed DEF TlbInv, RequestInv, NoStaleTranslation, InUser, At, Clean, Covered
<1>3. QED
  BY <1>1, <1>2, TlbNextInv, PTL DEF TlbSpec
=============================================================================
