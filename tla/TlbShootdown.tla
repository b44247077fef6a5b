---------------------------- MODULE TlbShootdown ----------------------------
(***************************************************************************)
(* TLB shootdown (kernel/src/mm/tlb_shootdown.c) against the scheduler's   *)
(* lazy, PCID-aware CR3 switch (kernel/src/sched/sched.c:744-802).         *)
(*                                                                         *)
(* Every address space has one user page; its mapping is a version number  *)
(* that grows when the page table changes.  A CPU's TLB holds, per address *)
(* space, a version or None.  With PCIDs the entries of a space survive    *)
(* while another space is loaded, and a per-CPU bit (active_pcids_bmp)     *)
(* tells the scheduler whether they may be kept at the next CR3 load.      *)
(* Every space has a PCID of its own here; Pcid models their recycling.    *)
(*                                                                         *)
(* A CPU is in one of these places (where):                                  *)
(*   run      a thread runs with interrupts enabled                        *)
(*   fault    masked, in an exception handler, spinning for the outer lock *)
(*   publish, cached, load   in sched_schedule, queue_lock held            *)
(*   spin     waiting for shootdown_lock, interrupts open                  *)
(*   scan, idle, post, send   in do_shootdown, shootdown_lock held   *)
(***************************************************************************)
EXTENDS Integers, FiniteSets, Null

CONSTANTS
    CPUs, Spaces,
    Machines,   \* the machines and workloads considered
    MaxChanges  \* bound: page-table changes

(* A machine has PCIDs and INVPCID or not.  Its CPUs run, besides user       *)
(* threads, the idle thread or kernel threads; shootdowns come from threads  *)
(* of the space ("own"), of another one that knows the tag ("pcid") or not   *)
(* ("foreign"), and from masked sections; and initiators may hold an outer   *)
(* lock that masked waiters spin for.                                        *)
Machine ==
    [pcid : BOOLEAN, invpcid : BOOLEAN, others : SUBSET {"idle", "kthread"},
     callers : SUBSET {"own", "foreign", "pcid", "masked"}, outerLock : BOOLEAN]

ASSUME TlbConstants ==
    /\ Machines \subseteq Machine
    /\ MaxChanges \in Nat
    /\ None \notin CPUs \cup Spaces \cup Nat
    /\ {"idle", "kthread"} \cap Spaces = {}

VARIABLES
    hw,         \* the machine, fixed
    pte,        \* space -> version now in the page table
    flushed,    \* space -> version up to which a shootdown has completed
    tlb,        \* cpu -> space -> version cached there, or None
    active_pcids,     \* cpu -> spaces whose active_pcids_bmp bit is set
    runs,    \* cpu -> current_thread: a space, "idle" or "kthread"
    loaded,     \* cpu -> space in CR3, or None for kernel_cr3
    next,       \* cpu -> thread being switched to
    noflush,    \* cpu -> the switch found the PCID warm
    shootdown_slot,       \* cpu -> cpu_shootdown_addr/pcid: [space, known]
    ack,        \* cpu -> cpu_shootdown_ack
    ipi,        \* cpus with a shootdown IPI pending
    handler,    \* cpu -> "off", "flush" or "ack": progress of the handler
    where,         \* cpu -> place
    op,         \* cpu -> the request it initiates
    todo,       \* cpu -> cpus its current loop has not visited
    probe,      \* cpu -> the cpu its loop is at, between two steps
    targets,    \* cpu -> target_mask
    shootdown_lock, outer,
    pending     \* cpu -> spaces with a deferred invalidation

switch == <<runs, loaded, next, noflush>>
mailbox == <<shootdown_slot, ack, ipi, handler>>
request == <<op, todo, probe, targets, shootdown_lock, outer>>
tlbVars == <<hw, pte, flushed, tlb, active_pcids, switch, mailbox, where, request, pending>>

HasPcid == hw.pcid        \* cpu_has_pcid()
HasInvpcid == hw.invpcid  \* cpu_has_invpcid()

NoOp == [space |-> None, known |-> FALSE, version |-> 0]

TlbPlaces ==
    {"run", "fault", "publish", "cached", "load", "spin", "scan", "idle", "post", "send"}

(* The state's types; CR3 only ever holds an address space or the kernel's.   *)
TlbTypeOK ==
    /\ hw \in Machines
    /\ pte \in [Spaces -> Nat] /\ flushed \in [Spaces -> Nat]
    /\ tlb \in [CPUs -> [Spaces -> Nat \cup {None}]]
    /\ active_pcids \in [CPUs -> SUBSET Spaces]
    /\ runs \in [CPUs -> Spaces \cup hw.others \cup {"kthread"}]
    /\ next \in [CPUs -> Spaces \cup hw.others \cup {"kthread"}]
    /\ loaded \in [CPUs -> Spaces \cup {None}]
    /\ noflush \in [CPUs -> BOOLEAN]
    /\ shootdown_slot \in [CPUs -> [space : Spaces \cup {None}, known : BOOLEAN]]
    /\ ack \in [CPUs -> BOOLEAN] /\ ipi \subseteq CPUs
    /\ handler \in [CPUs -> {"off", "flush", "ack"}]
    /\ where \in [CPUs -> TlbPlaces]
    /\ op \in [CPUs -> [space : Spaces \cup {None}, known : BOOLEAN,
                        version : Nat]]
    /\ probe \in [CPUs -> CPUs \cup {None}]
    /\ todo \in [CPUs -> SUBSET CPUs] /\ targets \in [CPUs -> SUBSET CPUs]
    /\ shootdown_lock \in CPUs \cup {None} /\ outer \in CPUs \cup {None}
    /\ pending \in [CPUs -> SUBSET Spaces]

TlbInit ==
    /\ hw \in Machines
    /\ pte = [s \in Spaces |-> 0] /\ flushed = pte
    /\ tlb = [c \in CPUs |-> [s \in Spaces |-> None]]
    /\ active_pcids = [c \in CPUs |-> {}] /\ loaded = [c \in CPUs |-> None]
    /\ runs \in [CPUs -> {"kthread"}] /\ next = runs
    /\ noflush = [c \in CPUs |-> FALSE]
    /\ shootdown_slot = [c \in CPUs |-> [space |-> None, known |-> FALSE]]
    /\ ack = [c \in CPUs |-> FALSE] /\ ipi = {}
    /\ handler = [c \in CPUs |-> "off"] /\ where = [c \in CPUs |-> "run"]
    /\ op = [c \in CPUs |-> NoOp]
    /\ probe = [c \in CPUs |-> None]
    /\ todo = [c \in CPUs |-> {}] /\ targets = [c \in CPUs |-> {}]
    /\ shootdown_lock = None /\ outer = None
    /\ pending = [c \in CPUs |-> {}]

\* No state: only another module of the run moves.
TlbAbsent ==
    /\ hw = None /\ pte = None /\ flushed = None /\ tlb = None
    /\ active_pcids = None /\ runs = None /\ loaded = None /\ next = None
    /\ noflush = None /\ shootdown_slot = None /\ ack = None /\ ipi = None
    /\ handler = None /\ where = None /\ op = None /\ todo = None
    /\ probe = None /\ targets = None /\ shootdown_lock = None
    /\ outer = None /\ pending = None

TlbPresent == hw # None

TlbGoto(c, place) == where' = [where EXCEPT ![c] = place]

At(c, place) == where[c] = place /\ handler[c] = "off"

QueueLocked(c) == where[c] \in {"publish", "cached", "load"}

InUser(c) == At(c, "run") /\ runs[c] \in Spaces /\ loaded[c] = runs[c]

-----------------------------------------------------------------------------
(* Effect of the invalidation instructions on one CPU.                       *)

FlushSpace(c, s) == tlb' = [tlb EXCEPT ![c][s] = None]

FlushEverything(c) == tlb' = [tlb EXCEPT ![c] = [s \in Spaces |-> None]]

(* Reload of CR3 with the flush bit: the loaded tag only, and without PCIDs  *)
(* everything is tagged alike.                                               *)
ReloadCr3(c, s) ==
    IF ~HasPcid THEN FlushEverything(c)
    ELSE IF s = None THEN UNCHANGED tlb ELSE FlushSpace(c, s)

pcid_flush_all(c) ==
    IF HasInvpcid THEN FlushEverything(c) ELSE ReloadCr3(c, loaded[c])

cpu_pcid_invalidate(c, s) == active_pcids' = [active_pcids EXCEPT ![c] = @ \ {s}]

cpu_pcid_invalidate_all(c) == active_pcids' = [active_pcids EXCEPT ![c] = {}]

-----------------------------------------------------------------------------
(* User code and the context switch.                                         *)

(* A user access walks the page table when the TLB has no entry.             *)
Access(c) ==
    /\ InUser(c) /\ tlb[c][runs[c]] = None
    /\ tlb' = [tlb EXCEPT ![c][runs[c]] = pte[runs[c]]]
    /\ UNCHANGED <<hw, pte, flushed, active_pcids, switch, mailbox, where, request, pending>>

(* sched_schedule has masked interrupts, taken queue_lock and picked t.      *)
SwitchStart(c, t) ==
    /\ At(c, "run")
    /\ t # runs[c]
    /\ next' = [next EXCEPT ![c] = t]
    /\ TlbGoto(c, "publish")
    /\ UNCHANGED <<hw, pte, flushed, tlb, active_pcids, runs, loaded, noflush, mailbox,
                   request, pending>>

(* current_thread is published before CR3 is loaded.                         *)
SwitchPublish(c) ==
    /\ At(c, "publish")
    /\ runs' = [runs EXCEPT ![c] = next[c]]
    /\ TlbGoto(c, "cached")
    /\ UNCHANGED <<hw, pte, flushed, tlb, active_pcids, loaded, next, noflush, mailbox,
                   request, pending>>

(* cpu_pcid_is_cached decides between a flushing and a non-flushing load.    *)
SwitchCached(c) ==
    /\ At(c, "cached")
    /\ LET warm == HasPcid /\ next[c] \in active_pcids[c]
       IN /\ noflush' = [noflush EXCEPT ![c] = warm]
          /\ active_pcids' = IF HasPcid /\ next[c] \in Spaces /\ next[c] # loaded[c]
                       THEN [active_pcids EXCEPT ![c] = @ \cup {next[c]}] ELSE active_pcids
    /\ TlbGoto(c, "load")
    /\ UNCHANGED <<hw, pte, flushed, tlb, runs, loaded, next, mailbox, request,
                   pending>>

(* mov cr3: skipped when the base is already loaded; kernel and idle threads *)
(* load kernel_cr3, whose tag is PCID 0.  Then queue_lock is released.       *)
SwitchLoad(c) ==
    /\ At(c, "load")
    /\ LET s == IF next[c] \in Spaces THEN next[c] ELSE None
       IN /\ loaded' = [loaded EXCEPT ![c] = s]
          /\ IF s = loaded[c] \/ noflush[c] THEN UNCHANGED tlb
             ELSE ReloadCr3(c, s)
    /\ noflush' = [noflush EXCEPT ![c] = FALSE]
    /\ TlbGoto(c, "run")
    /\ UNCHANGED <<hw, pte, flushed, active_pcids, runs, next, mailbox, request, pending>>

(* An exception handler runs masked and spins for a lock.                    *)
Fault(c) ==
    /\ hw.outerLock /\ InUser(c)
    /\ TlbGoto(c, "fault")
    /\ UNCHANGED <<hw, pte, flushed, tlb, active_pcids, switch, mailbox, request, pending>>

FaultDone(c) ==
    /\ At(c, "fault") /\ outer = None
    /\ TlbGoto(c, "run")
    /\ UNCHANGED <<hw, pte, flushed, tlb, active_pcids, switch, mailbox, request, pending>>

-----------------------------------------------------------------------------
(* The target's side.                                                        *)

(* tlb_shootdown_handle_ipi_regs is entered by the IPI when interrupts are   *)
(* open, or by tlb_shootdown_poll from a masked lock wait; a CPU whose       *)
(* request was already answered returns at once.                             *)
Unmasked(c) == where[c] \in {"run", "spin"}

tlb_shootdown_isr(c) ==
    /\ c \in ipi /\ Unmasked(c) /\ handler[c] = "off"
    /\ ipi' = ipi \ {c}
    /\ handler' = [handler EXCEPT ![c] = IF ack[c] THEN "flush" ELSE "off"]
    /\ UNCHANGED <<hw, pte, flushed, tlb, active_pcids, switch, shootdown_slot, ack, where, request,
                   pending>>

tlb_shootdown_poll(c) ==
    /\ At(c, "fault") /\ ack[c]
    /\ handler' = [handler EXCEPT ![c] = "flush"]
    /\ UNCHANGED <<hw, pte, flushed, tlb, active_pcids, switch, shootdown_slot, ack, ipi, where, request,
                   pending>>

(* Mutant: a request for a space that is not loaded here is ignored. *)
FlushLoadedOnly(c) ==
    /\ handler[c] = "flush"
    /\ LET s == shootdown_slot[c].space
       IN IF loaded[c] = s THEN FlushSpace(c, s) ELSE UNCHANGED tlb
    /\ handler' = [handler EXCEPT ![c] = "ack"]
    /\ UNCHANGED <<hw, pte, flushed, active_pcids, switch, shootdown_slot, ack, ipi, where, request,
                   pending>>

(* The invalidation of one page.  Without a tag everything goes; with one,   *)
(* the entry goes if its space is loaded here, else its bit is cleared so    *)
(* that the next switch into it flushes.                                     *)
HandlerFlush(c) ==
    /\ handler[c] = "flush"
    /\ LET s == shootdown_slot[c].space
       IN \/ /\ ~HasPcid
             /\ IF loaded[c] = None THEN UNCHANGED tlb ELSE FlushSpace(c, loaded[c])
             /\ UNCHANGED active_pcids
          \/ HasPcid /\ ~shootdown_slot[c].known
                /\ cpu_pcid_invalidate_all(c) /\ pcid_flush_all(c)
          \/ HasPcid /\ shootdown_slot[c].known /\ loaded[c] = s
                /\ FlushSpace(c, s) /\ UNCHANGED active_pcids
          \/ HasPcid /\ shootdown_slot[c].known /\ loaded[c] # s
                /\ cpu_pcid_invalidate(c, s) /\ UNCHANGED tlb
    /\ handler' = [handler EXCEPT ![c] = "ack"]
    /\ UNCHANGED <<hw, pte, flushed, switch, shootdown_slot, ack, ipi, where, request, pending>>

(* Mutant: only a CPU that has the space loaded acknowledges. *)
AckIfLoaded(c) ==
    /\ handler[c] = "ack"
    /\ ack' = [ack EXCEPT ![c] = loaded[c] # shootdown_slot[c].space]
    /\ handler' = [handler EXCEPT ![c] = "off"]
    /\ UNCHANGED <<hw, pte, flushed, tlb, active_pcids, switch, shootdown_slot, ipi, where, request,
                   pending>>

HandlerAck(c) ==
    /\ handler[c] = "ack"
    /\ ack' = [ack EXCEPT ![c] = FALSE]
    /\ handler' = [handler EXCEPT ![c] = "off"]
    /\ UNCHANGED <<hw, pte, flushed, tlb, active_pcids, switch, shootdown_slot, ipi, where, request,
                   pending>>

-----------------------------------------------------------------------------
(* The initiator's side.                                                     *)

local_flush_for(c, s, known) ==
    \/ /\ ~HasPcid
       /\ IF loaded[c] = None THEN UNCHANGED tlb ELSE FlushSpace(c, loaded[c])
       /\ UNCHANGED active_pcids
    \/ HasPcid /\ ~known /\ cpu_pcid_invalidate_all(c) /\ pcid_flush_all(c)
    \/ HasPcid /\ known /\ (loaded[c] = s \/ HasInvpcid)
          /\ FlushSpace(c, s) /\ UNCHANGED active_pcids
    \/ HasPcid /\ known /\ loaded[c] # s /\ ~HasInvpcid
          /\ cpu_pcid_invalidate(c, s) /\ UNCHANGED tlb

Changes == LET sum[S \in SUBSET Spaces] ==
                   IF S = {} THEN 0
                   ELSE LET s == CHOOSE x \in S : TRUE IN pte[s] + sum[S \ {s}]
           IN sum[Spaces]

(* A thread changes a mapping of s and calls tlb_shootdown_page (own),       *)
(* tlb_shootdown_page_for (foreign: the space is not loaded here) or         *)
(* tlb_shootdown_page_for_pcid (pcid: the caller knows the tag).             *)
Change(c, s) ==
    /\ At(c, "run") /\ Changes < MaxChanges
    /\ \E kind \in hw.callers \ {"masked"} :
          /\ (kind = "own") = (loaded[c] = s)
          /\ kind = "own" => runs[c] = s
          /\ op' = [op EXCEPT ![c] =
                       [space |-> s, known |-> HasPcid /\ kind # "foreign",
                        version |-> pte[s] + 1]]
    /\ pte' = [pte EXCEPT ![s] = @ + 1]
    /\ outer' \in {outer} \cup {x \in {c} : hw.outerLock /\ outer = None}
    /\ TlbGoto(c, "spin")
    /\ UNCHANGED <<hw, flushed, tlb, active_pcids, switch, mailbox, todo, probe,
                   targets, shootdown_lock, pending>>

(* The same from a masked section: do_shootdown flushes the loaded space     *)
(* here and leaves the remote part for a later drain.                        *)
ChangeMasked(c) ==
    /\ "masked" \in hw.callers /\ InUser(c) /\ Changes < MaxChanges
    /\ LET s == runs[c]
       IN /\ pte' = [pte EXCEPT ![s] = @ + 1]
          /\ pending' = [pending EXCEPT ![c] = @ \cup {s}]
          /\ FlushSpace(c, s)
    /\ UNCHANGED <<hw, flushed, active_pcids, switch, mailbox, where, request>>

(* tlb_flush_deferred_drain, interrupts enabled: the next queued request.    *)
tlb_flush_deferred_drain(c) ==
    /\ At(c, "run")
    /\ \E s \in pending[c] :
          /\ pending' = [pending EXCEPT ![c] = @ \ {s}]
          /\ op' = [op EXCEPT ![c] =
                       [space |-> s, known |-> HasPcid /\ loaded[c] = s,
                        version |-> pte[s]]]
    /\ TlbGoto(c, "spin")
    /\ UNCHANGED <<hw, pte, flushed, tlb, active_pcids, switch, mailbox, todo, probe,
                   targets, shootdown_lock, outer>>

LockShootdown(c) ==
    /\ At(c, "spin") /\ shootdown_lock = None
    /\ shootdown_lock' = c
    /\ todo' = [todo EXCEPT ![c] = CPUs \ {c}]
    /\ targets' = [targets EXCEPT ![c] = {}]
    /\ TlbGoto(c, "scan")
    /\ UNCHANGED <<hw, pte, flushed, tlb, active_pcids, switch, mailbox, op, probe, outer,
                   pending>>

Visit(c, i) == todo' = [todo EXCEPT ![c] = @ \ {i}]

(* The locked part of cpu_needs_shootdown: does cpu i need an IPI, and if    *)
(* not, is the bit of the space cleared instead?                             *)
NeedsIpi(i, s, known) ==
    IF HasPcid THEN runs[i] \in Spaces /\ (~known \/ runs[i] = s)
    ELSE runs[i] = s

ClearsBit(i, s, known) ==
    HasPcid /\ known /\ ~NeedsIpi(i, s, known)

cpu_needs_shootdown(c, i) ==
    /\ At(c, "scan") /\ i \in todo[c]
    /\ \/ (* the permanent idle thread: decided without queue_lock *)
          /\ runs[i] = "idle"
          /\ probe' = [probe EXCEPT ![c] = i]
          /\ TlbGoto(c, "idle")
          /\ UNCHANGED <<todo, targets, active_pcids>>
       \/ (* queue_lock is busy: target conservatively *)
          /\ runs[i] # "idle" /\ QueueLocked(i)
          /\ targets' = [targets EXCEPT ![c] = @ \cup {i}]
          /\ Visit(c, i)
          /\ UNCHANGED <<where, active_pcids, probe>>
       \/ /\ runs[i] # "idle" /\ ~QueueLocked(i)
          /\ targets' = IF NeedsIpi(i, op[c].space, op[c].known)
                        THEN [targets EXCEPT ![c] = @ \cup {i}] ELSE targets
          /\ IF ClearsBit(i, op[c].space, op[c].known)
             THEN cpu_pcid_invalidate(i, op[c].space) ELSE UNCHANGED active_pcids
          /\ Visit(c, i)
          /\ UNCHANGED <<where, probe>>
    /\ UNCHANGED <<hw, pte, flushed, tlb, switch, mailbox, op, shootdown_lock, outer,
                   pending>>

(* ... and its tag's bit is cleared, so that the next user load flushes.     *)
IdleInvalidate(c) ==
    /\ At(c, "idle")
    /\ IF HasPcid /\ op[c].known THEN cpu_pcid_invalidate(probe[c], op[c].space)
       ELSE UNCHANGED active_pcids
    /\ Visit(c, probe[c])
    /\ probe' = [probe EXCEPT ![c] = None]
    /\ TlbGoto(c, "scan")
    /\ UNCHANGED <<hw, pte, flushed, tlb, switch, mailbox, op, targets, shootdown_lock,
                   outer, pending>>

ScanDone(c) ==
    /\ At(c, "scan") /\ todo[c] = {}
    /\ todo' = [todo EXCEPT ![c] = targets[c]]
    /\ TlbGoto(c, "post")
    /\ UNCHANGED <<hw, pte, flushed, tlb, active_pcids, switch, mailbox, op, probe, targets,
                   shootdown_lock, outer, pending>>

(* The request is written to the target's slot, then published by the ack.   *)
PostSlot(c, i) ==
    /\ At(c, "post") /\ probe[c] = None /\ i \in todo[c]
    /\ shootdown_slot' = [shootdown_slot EXCEPT ![i] = [space |-> op[c].space, known |-> op[c].known]]
    /\ probe' = [probe EXCEPT ![c] = i]
    /\ UNCHANGED <<hw, pte, flushed, tlb, active_pcids, switch, ack, ipi, handler, where, op,
                   todo, targets, shootdown_lock, outer, pending>>

PostAck(c) ==
    /\ At(c, "post") /\ probe[c] # None
    /\ ack' = [ack EXCEPT ![probe[c]] = TRUE]
    /\ Visit(c, probe[c])
    /\ probe' = [probe EXCEPT ![c] = None]
    /\ UNCHANGED <<hw, pte, flushed, tlb, active_pcids, switch, shootdown_slot, ipi, handler, where, op,
                   targets, shootdown_lock, outer, pending>>

(* The local flush, once every target has its request (or there is none).    *)
LocalFlush(c) ==
    /\ At(c, "post") /\ probe[c] = None /\ todo[c] = {}
    /\ local_flush_for(c, op[c].space, op[c].known)
    /\ todo' = [todo EXCEPT ![c] = targets[c]]
    /\ TlbGoto(c, "send")
    /\ UNCHANGED <<hw, pte, flushed, switch, mailbox, op, probe, targets,
                   shootdown_lock, outer, pending>>

SendIpi(c, i) ==
    /\ At(c, "send") /\ i \in todo[c]
    /\ ipi' = ipi \cup {i}
    /\ Visit(c, i)
    /\ UNCHANGED <<hw, pte, flushed, tlb, active_pcids, switch, shootdown_slot, ack, handler, where, op,
                   probe, targets, shootdown_lock, outer, pending>>

(* Every target has acknowledged: the caller may now rely on the flush.      *)
Acknowledged(c) == \A i \in targets[c] : ~ack[i]

do_shootdown(c) ==
    /\ At(c, "send") /\ todo[c] = {} /\ Acknowledged(c)
    /\ flushed' = [flushed EXCEPT ![op[c].space] =
                      IF @ < op[c].version THEN op[c].version ELSE @]
    /\ op' = [op EXCEPT ![c] = NoOp]
    /\ targets' = [targets EXCEPT ![c] = {}]
    /\ shootdown_lock' = None
    /\ outer' = IF outer = c THEN None ELSE outer
    /\ TlbGoto(c, "run")
    /\ UNCHANGED <<hw, pte, tlb, active_pcids, switch, mailbox, todo, probe, pending>>

-----------------------------------------------------------------------------
TlbStep(c) ==
    \/ SwitchPublish(c) \/ SwitchCached(c) \/ SwitchLoad(c)
    \/ FaultDone(c)
    \/ tlb_shootdown_isr(c) \/ tlb_shootdown_poll(c)
    \/ HandlerFlush(c) \/ HandlerAck(c)
    \/ LockShootdown(c) \/ IdleInvalidate(c) \/ ScanDone(c)
    \/ PostAck(c) \/ LocalFlush(c) \/ do_shootdown(c)
    \/ \E i \in CPUs : cpu_needs_shootdown(c, i) \/ PostSlot(c, i) \/ SendIpi(c, i)

TlbNext ==
    \E c \in CPUs :
        \/ Access(c) \/ Fault(c) \/ ChangeMasked(c) \/ tlb_flush_deferred_drain(c)
        \/ \E t \in Spaces \cup hw.others : SwitchStart(c, t)
        \/ \E s \in Spaces : Change(c, s)
        \/ TlbStep(c)

TlbSpec == TlbInit /\ [][TlbNext]_tlbVars

-----------------------------------------------------------------------------
(* Properties.                                                               *)

(* The promise of do_shootdown: when it has returned, no CPU that executes a *)
(* thread of the space still holds the old translation, so the caller may    *)
(* free or reuse the frame.                                                  *)
NoStaleTranslation ==
    TlbPresent =>
      \A c \in CPUs : InUser(c) /\ tlb[c][runs[c]] # None
          => tlb[c][runs[c]] >= flushed[runs[c]]

(* Every shootdown completes: once the IPIs are out, a target that has not   *)
(* acknowledged has the interrupt pending or is answering, whoever answered  *)
(* an earlier request by polling; and, deadlock being checked, no target     *)
(* waits masked for a lock of the initiator without polling.                 *)
RequestAnswered ==
    TlbPresent =>
      \A c \in CPUs : where[c] = "send" /\ todo[c] = {} =>
          \A i \in targets[c] : ack[i] => i \in ipi \/ handler[i] # "off"

-----------------------------------------------------------------------------
(* The strengthening of both, for the machines the algorithm is right on.    *)

(* With PCIDs the two known windows: a CPU that runs the permanent idle      *)
(* thread, whose bit is cleared without its queue_lock, and one that runs a  *)
(* kernel thread, which a caller without the tag passes over.                *)
Sound(m) ==
    m.pcid => /\ "idle" \notin m.others
              /\ "kthread" \in m.others => m.callers \cap {"foreign", "masked"} = {}

SpaceOf(t) == IF t \in Spaces THEN t ELSE None

Held == {"scan", "idle", "post", "send"}

\* Whatever CPU i has cached of s is flushed before a thread of s runs there.
Covered(i, s) ==
    IF HasPcid
    THEN /\ loaded[i] # s
         /\ s \notin active_pcids[i] \/ (where[i] = "load" /\ next[i] = s /\ ~noflush[i])
    ELSE loaded[i] # s \/ (where[i] \in {"cached", "load"} /\ next[i] # s)

\* No thread will use a translation of s older than v on CPU i.
Clean(i, s, v) == tlb[i][s] = None \/ tlb[i][s] >= v \/ Covered(i, s)

\* The switch keeps CR3, the bits and the entries in step.
SwitchInv ==
    \A i \in CPUs :
      /\ where[i] \notin {"cached", "load"} => loaded[i] = SpaceOf(runs[i])
      /\ where[i] \in {"cached", "load"} => runs[i] = next[i]
      /\ where[i] = "publish" => next[i] \in Spaces \cup hw.others
      /\ noflush[i] => where[i] = "load" /\ HasPcid /\ next[i] \in active_pcids[i]
      /\ \A s \in Spaces : ~HasPcid /\ loaded[i] # s => tlb[i][s] = None
      /\ HasPcid /\ "kthread" \notin hw.others /\ runs[i] \notin Spaces =>
             tlb[i] = [s \in Spaces |-> None]

\* The targets that have been sent their request.
Posted(c) ==
    IF where[c] = "post" THEN targets[c] \ todo[c] ELSE IF where[c] = "send" THEN targets[c] ELSE {}

\* One initiator at a time, and only its targets have a request open.
MailboxInv ==
    /\ \A c \in CPUs : where[c] \in Held <=> shootdown_lock = c
    /\ \A i \in CPUs : ack[i] => shootdown_lock # None /\ i \in Posted(shootdown_lock)
    /\ \A i \in CPUs : handler[i] # "off" => ack[i] /\ where[i] \in {"run", "spin", "fault"}
    /\ \A c \in CPUs : where[c] \in Held => c \notin targets[c] \cup todo[c]
    /\ \A c \in CPUs : where[c] \in {"post", "send"} => todo[c] \subseteq targets[c]
    /\ \A c \in CPUs : where[c] = "post" /\ probe[c] # None => probe[c] \in todo[c]
    /\ \A c \in CPUs : where[c] = "idle" => probe[c] \in todo[c]
    /\ \A c \in CPUs : where[c] \notin {"idle", "post"} => probe[c] = None
    /\ \A c \in CPUs : where[c] = "send" =>
           \A i \in targets[c] \ todo[c] : ack[i] => i \in ipi \/ handler[i] # "off"

\* The request says what changed, and is what its targets were sent.
OpInv ==
    \A c \in CPUs :
      /\ where[c] \in Held \cup {"spin"} =>
           op[c].space \in Spaces /\ op[c].version <= pte[op[c].space]
      /\ where[c] \in {"post", "send"} =>
           \A i \in (Posted(c) \cup {probe[c]}) \ {None} :
               shootdown_slot[i].space = op[c].space /\ shootdown_slot[i].known = op[c].known

\* A request without a tag comes from a machine whose CPUs run only threads
\* of a space.
TagInv ==
    \A c \in CPUs :
      /\ where[c] \in Held \cup {"spin"} /\ HasPcid /\ ~op[c].known => "kthread" \notin hw.others
      /\ pending[c] # {} => "masked" \in hw.callers

Done(c, i) == Clean(i, op[c].space, op[c].version)

\* Who is done with the request c has under way: the CPUs passed over, the
\* targets that answered or are about to and, once it has flushed, c itself.
Progress(c) ==
    /\ \A i \in CPUs \ ({c} \cup targets[c]) :
           where[c] \in {"post", "send"} \/ i \notin todo[c] => Done(c, i)
    /\ where[c] = "idle" => ~HasPcid /\ Done(c, probe[c])
    /\ \A i \in Posted(c) : ~ack[i] \/ handler[i] = "ack" => Done(c, i)
    /\ where[c] = "send" => Done(c, c)

FlushInv == \A c \in CPUs : where[c] \in Held => Progress(c)

\* On every machine, and on the sound ones.
RequestInv == TlbTypeOK /\ MailboxInv /\ OpInv

TlbInv ==
    /\ RequestInv /\ Sound(hw) /\ SwitchInv /\ TagInv /\ FlushInv
    /\ \A s \in Spaces : flushed[s] <= pte[s] /\ \A i \in CPUs : Clean(i, s, flushed[s])
=============================================================================
