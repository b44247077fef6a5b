--------------------------------- MODULE Nvme ---------------------------------
(* One I/O queue pair of drivers/storage/nvme.c: command identifiers, the    *)
(* two rings, the completion drain, the wait of a command or of a wave of    *)
(* them, time-outs, the fail-stop, and who may free a bounce page.  The      *)
(* build is the default one: without NVME_RESET_RECOVERY a controller that   *)
(* was stopped stays stopped and its generation never changes.               *)
(*                                                                           *)
(* A section under the queue's lock is one step, and so is a drain, which    *)
(* runs under cq_lock; a waiter that sleeps wakes after ten ticks at most    *)
(* and is not told from one that polls.  The device is the environment: it   *)
(* fetches in order, completes in any order, and stops late or never.  The   *)
(* phase bit of a completion is what makes the new ones a queue.             *)
EXTENDS Integers, Sequences, FiniteSets, FiniteSetsExt, Null

CONSTANTS
    Callers,
    Depth,      \* entries of either ring; also the CIDs the claim scans
    Wave,       \* most commands of one submitter in flight
    Members,    \* requests of a batch
    MaxCalls    \* calls of all threads together

Commands == [by : Callers, kind : {"bounce", "batch"}, call : Nat, member : Nat]

ASSUME NvmeConstants ==
    /\ Depth \in Nat \ {0, 1} /\ Wave \in Nat \ {0}
    /\ Members \in Nat \ {0} /\ MaxCalls \in Nat
    /\ None \notin Commands

VARIABLES
    ctrl,       \* struct nvme_controller: failed, io_ready, dma_quiesced
    reg,        \* CC.EN and CSTS.RDY
    vq,         \* struct nvme_iovq: CIDs in use, verdicts, the rings
    dev,        \* the device's ends of the rings and the commands it executes
    call,       \* the call each thread is in
    kept        \* calls whose bounce page was not given back

nvmeVars == <<ctrl, reg, vq, dev, call, kept>>

CIDs == 0..(Depth - 1)

NoEntry == [cid |-> 0, cmd |-> None]

NoVerdict == [v |-> 0, cmd |-> None]

NoCall == [pc |-> "idle", kind |-> "bounce", calls |-> 0, next |-> 1, cid |-> 0,
           wave |-> {}, rc |-> 0]

NvmeInit ==
    /\ ctrl = [failed |-> FALSE, io_ready |-> TRUE, dma_quiesced |-> FALSE]
    /\ reg = [en |-> TRUE, rdy |-> TRUE]
    /\ vq = [in_use |-> {}, result |-> [c \in CIDs |-> NoVerdict],
             sq |-> [i \in CIDs |-> NoEntry], tail |-> 0, cq |-> <<>>]
    /\ dev = [head |-> 0, running |-> {}]
    /\ call = [t \in Callers |-> NoCall]
    /\ kept = {}

\* No state: only another module of the run moves.
NvmeAbsent ==
    /\ ctrl = None /\ reg = None /\ vq = None /\ dev = None /\ call = None
    /\ kept = None

NvmePresent == ctrl # None

CallAt(t, pc) == call[t].pc = pc

SetCall(t, r) == call' = [call EXCEPT ![t] = r]

\* The command of t's next member; its buffer has the same name.
Cmd(t) == [by |-> t, kind |-> call[t].kind, call |-> call[t].calls,
           member |-> call[t].next]

Started ==
    MapThenSumSet(LAMBDA t : call[t].calls + IF CallAt(t, "idle") THEN 0 ELSE 1, Callers)

Size(kind) == IF kind = "batch" THEN Members ELSE 1

-----------------------------------------------------------------------------
(* Returning.  A bounce page is looked after first.                          *)

Over(r, rc) ==
    IF r.kind = "bounce" THEN [r EXCEPT !.pc = "free", !.rc = rc, !.wave = {}]
    ELSE [NoCall EXCEPT !.calls = r.calls + 1]

\* A command that fails before the device has it ends the call, after the
\* commands that did go out were waited for.
Refused(r, rc) ==
    IF r.wave = {} THEN Over(r, rc) ELSE [r EXCEPT !.pc = "wait", !.rc = rc]

\* Mutant of FreeBounce: an error frees the page like any other.
FreeBounceAlways(t) ==
    /\ CallAt(t, "free")
    /\ SetCall(t, [NoCall EXCEPT !.calls = call[t].calls + 1])
    /\ UNCHANGED <<ctrl, reg, vq, dev, kept>>

\* nvme_io_bounce: the page goes back unless the device may still use it.
FreeBounce(t) ==
    /\ CallAt(t, "free")
    /\ kept' = IF call[t].rc # -2 \/ ctrl.dma_quiesced THEN kept
               ELSE kept \cup {<<t, call[t].calls>>}
    /\ SetCall(t, [NoCall EXCEPT !.calls = call[t].calls + 1])
    /\ UNCHANGED <<ctrl, reg, vq, dev>>

-----------------------------------------------------------------------------
(* Command identifiers.                                                      *)

FreeCids == CIDs \ vq.in_use

nvme_cid_claim_locked(t) ==
    \E c \in FreeCids :
        /\ \A d \in FreeCids : c <= d
        /\ vq' = [vq EXCEPT !.in_use = @ \cup {c}, !.result[c] = NoVerdict]
        /\ SetCall(t, [call[t] EXCEPT !.pc = "submit", !.cid = c])

\* Mutant of Released: the verdict is consumed and the identifier stays taken.
ReleasedVerdict(cs) ==
    [vq EXCEPT !.result = [c \in CIDs |-> IF c \in cs THEN NoVerdict ELSE @[c]]]

\* nvme_take_verdict and nvme_free_cid, for a set of identifiers.
Released(cs) ==
    [vq EXCEPT !.in_use = @ \ cs,
               !.result = [c \in CIDs |-> IF c \in cs THEN NoVerdict ELSE @[c]]]

\* nvme_io, nvme_batch_submit or nvme_shutdown is called.
Call(t, kind) ==
    /\ CallAt(t, "idle") /\ Started < MaxCalls
    /\ ctrl.io_ready /\ ~ctrl.failed
    /\ SetCall(t, [call[t] EXCEPT !.kind = kind,
                                  !.pc = IF kind = "batch" THEN "claim" ELSE "alloc"])
    /\ UNCHANGED <<ctrl, reg, vq, dev, kept>>

\* The wave of a batch takes what is free and does not look at the controller.
Claim(t) ==
    /\ CallAt(t, "claim")
    /\ \/ /\ FreeCids # {}
          /\ nvme_cid_claim_locked(t)
       \/ /\ FreeCids = {}
          /\ SetCall(t, [call[t] EXCEPT !.pc = IF call[t].wave # {} THEN "wait" ELSE "alloc"])
          /\ UNCHANGED vq
    /\ UNCHANGED <<ctrl, reg, dev, kept>>

\* nvme_alloc_cid.  While none is free it drains, until the time-out.
Alloc(t) ==
    /\ CallAt(t, "alloc")
    /\ \/ /\ ctrl.failed \/ ~ctrl.io_ready
          /\ SetCall(t, Over(call[t], -2))
          /\ UNCHANGED vq
       \/ /\ ~ctrl.failed /\ ctrl.io_ready
          /\ FreeCids # {}
          /\ nvme_cid_claim_locked(t)
       \/ /\ ~ctrl.failed /\ ctrl.io_ready
          /\ FreeCids = {}
          /\ SetCall(t, [call[t] EXCEPT !.pc = "stop"])
          /\ UNCHANGED vq
    /\ UNCHANGED <<ctrl, reg, dev, kept>>

-----------------------------------------------------------------------------
(* Submission.                                                               *)

\* The member is on its way or given up: the next one, or the wait.
Onward(r) ==
    IF r.next <= Size(r.kind) /\ Cardinality(r.wave) < Wave
    THEN [r EXCEPT !.pc = "claim"]
    ELSE IF r.wave = {} THEN Over(r, r.rc) ELSE [r EXCEPT !.pc = "wait"]

\* nvme_build_prp fails: the member is given up, the batch goes on.
BuildFails(t) ==
    /\ CallAt(t, "submit")
    /\ vq' = Released({call[t].cid})
    /\ SetCall(t, IF call[t].kind = "bounce" THEN Over(call[t], -1)
                  ELSE Onward([call[t] EXCEPT !.next = @ + 1]))
    /\ UNCHANGED <<ctrl, reg, dev, kept>>

\* nvme_sq_submit.
Submit(t) ==
    LET r == call[t] IN
    /\ CallAt(t, "submit")
    /\ \/ /\ ctrl.failed \/ ~ctrl.io_ready
          /\ vq' = Released({r.cid})
          /\ SetCall(t, Refused(r, -2))
       \/ /\ ~ctrl.failed /\ ctrl.io_ready
          /\ vq' = [vq EXCEPT !.sq[vq.tail] = [cid |-> r.cid, cmd |-> Cmd(t)],
                              !.tail = (@ + 1) % Depth]
          /\ SetCall(t, Onward([r EXCEPT !.next = @ + 1,
                                         !.wave = @ \cup {[cid |-> r.cid, cmd |-> Cmd(t)]}]))
    /\ UNCHANGED <<ctrl, reg, dev, kept>>

-----------------------------------------------------------------------------
(* Completion.                                                               *)

\* The completions of an identifier.
Posted(c) == {k \in DOMAIN vq.cq : vq.cq[k].cid = c}

Verdict(e) == [v |-> IF e.ok THEN 1 ELSE -1, cmd |-> e.cmd]

\* nvme_drain_cq, from the interrupt or from a thread; a verdict is recorded
\* once.
nvme_drain_cq ==
    /\ ctrl.io_ready /\ vq.cq # <<>>
    /\ vq' = [vq EXCEPT
                !.result = [c \in CIDs |->
                    IF @[c].v = 0 /\ Posted(c) # {} THEN Verdict(vq.cq[Min(Posted(c))])
                    ELSE @[c]],
                !.cq = <<>>]
    /\ UNCHANGED <<ctrl, reg, dev, call, kept>>

Answered(w) == {m \in w : vq.result[m.cid].v # 0}

\* nvme_reap_ready: the verdicts that are there, and the worst of them.
Reaped(r) ==
    [r EXCEPT !.wave = @ \ Answered(@),
              !.rc = Min({@} \cup {-1 : m \in {x \in Answered(r.wave) :
                                                vq.result[x.cid].v = -1}})]

\* nvme_io_wait and nvme_io_wait_many: reap, drain, reap again.
nvme_io_wait_many(t) ==
    LET r == Reaped(call[t]) IN
    /\ CallAt(t, "wait")
    /\ vq' = Released({m.cid : m \in Answered(call[t].wave)})
    /\ \/ /\ r.wave = {}
          /\ SetCall(t, IF r.rc = 0 /\ r.next <= Size(r.kind)
                        THEN [r EXCEPT !.pc = "claim"]
                        ELSE Over(r, r.rc))
       \/ /\ r.wave # {}
          /\ vq.cq = <<>> \/ ~ctrl.io_ready
          /\ SetCall(t, [r EXCEPT !.pc = "check"])
    /\ UNCHANGED <<ctrl, reg, dev, kept>>

\* Mutant of TimedOut: the command is forgotten and the controller goes on.
TimedOutAlone(t) ==
    /\ vq' = Released({m.cid : m \in call[t].wave})
    /\ SetCall(t, Over(call[t], -2))

TimedOut(t) ==
    /\ SetCall(t, [call[t] EXCEPT !.pc = "stop"])
    /\ UNCHANGED vq

\* Nothing yet: the controller failed, the time is over, or once more.
Check(t) ==
    /\ CallAt(t, "check")
    /\ \/ ctrl.failed /\ SetCall(t, Over(call[t], -2)) /\ UNCHANGED vq
       \/ ~ctrl.failed /\ TimedOut(t)
       \/ ~ctrl.failed /\ SetCall(t, [call[t] EXCEPT !.pc = "wait"]) /\ UNCHANGED vq
    /\ UNCHANGED <<ctrl, reg, dev, kept>>

-----------------------------------------------------------------------------
(* Stopping the controller.                                                  *)

\* nvme_fail_stop looks whether it was called before...
FailStop(t) ==
    /\ CallAt(t, "stop")
    /\ \/ /\ ctrl.failed
          /\ ctrl' = [ctrl EXCEPT !.io_ready = FALSE]
          /\ SetCall(t, Over(call[t], -2))
       \/ /\ ~ctrl.failed
          /\ SetCall(t, [call[t] EXCEPT !.pc = "fail"])
          /\ UNCHANGED ctrl
    /\ UNCHANGED <<reg, vq, dev, kept>>

\* ... and marks the controller.
Fail(t) ==
    /\ CallAt(t, "fail")
    /\ ctrl' = [ctrl EXCEPT !.failed = TRUE, !.io_ready = FALSE]
    /\ SetCall(t, [call[t] EXCEPT !.pc = "disable"])
    /\ UNCHANGED <<reg, vq, dev, kept>>

\* nvme_controller_shutdown, which asks nicely before it disables.
Shutdown(t) ==
    /\ CallAt(t, "idle") /\ Started < MaxCalls
    /\ reg.en
    /\ ctrl' = [ctrl EXCEPT !.io_ready = FALSE]
    /\ SetCall(t, [call[t] EXCEPT !.kind = "shutdown", !.pc = "disable"])
    /\ UNCHANGED <<reg, vq, dev, kept>>

\* nvme_controller_disable reads CC ...
Disable(t) ==
    /\ CallAt(t, "disable")
    /\ \/ /\ ~reg.en
          /\ ctrl' = [ctrl EXCEPT !.dma_quiesced = TRUE]
          /\ SetCall(t, Over(call[t], -2))
       \/ /\ reg.en
          /\ SetCall(t, [call[t] EXCEPT !.pc = "clear"])
          /\ UNCHANGED ctrl
    /\ UNCHANGED <<reg, vq, dev, kept>>

\* ... clears CC.EN ...
Clear(t) ==
    /\ CallAt(t, "clear")
    /\ reg' = [reg EXCEPT !.en = FALSE]
    /\ SetCall(t, [call[t] EXCEPT !.pc = "quiet"])
    /\ UNCHANGED <<ctrl, vq, dev, kept>>

\* ... and waits for CSTS.RDY to follow, for as long as it cares to.
Quiet(t) ==
    /\ CallAt(t, "quiet")
    /\ ctrl' = [ctrl EXCEPT !.dma_quiesced = @ \/ ~reg.rdy]
    /\ SetCall(t, Over(call[t], -2))
    /\ UNCHANGED <<reg, vq, dev, kept>>

-----------------------------------------------------------------------------
(* The device.                                                               *)

Fetch ==
    /\ reg.en /\ reg.rdy
    /\ dev.head # vq.tail
    /\ dev' = [head |-> (dev.head + 1) % Depth,
               running |-> dev.running \cup {vq.sq[dev.head]}]
    /\ vq' = [vq EXCEPT !.sq[dev.head] = NoEntry]
    /\ UNCHANGED <<ctrl, reg, call, kept>>

Complete ==
    /\ reg.rdy
    /\ Len(vq.cq) < Depth - 1
    /\ \E c \in dev.running, ok \in BOOLEAN :
         /\ vq' = [vq EXCEPT !.cq = Append(@, [cid |-> c.cid, ok |-> ok, cmd |-> c.cmd])]
         /\ dev' = [dev EXCEPT !.running = @ \ {c}]
    /\ UNCHANGED <<ctrl, reg, call, kept>>

Halt ==
    /\ ~reg.en /\ reg.rdy
    /\ reg' = [reg EXCEPT !.rdy = FALSE]
    /\ dev' = [dev EXCEPT !.running = {}]
    /\ UNCHANGED <<ctrl, vq, call, kept>>

-----------------------------------------------------------------------------
(* The specification.                                                        *)

NvmeNext ==
    \/ \E t \in Callers :
         \/ \E kind \in {"bounce", "batch"} : Call(t, kind)
         \/ Claim(t)
         \/ Alloc(t)
         \/ BuildFails(t)
         \/ Submit(t)
         \/ nvme_io_wait_many(t)
         \/ Check(t)
         \/ FailStop(t)
         \/ Fail(t)
         \/ Shutdown(t)
         \/ Disable(t)
         \/ Clear(t)
         \/ Quiet(t)
         \/ FreeBounce(t)
    \/ nvme_drain_cq
    \/ Fetch
    \/ Complete
    \/ Halt

NvmeSpec == NvmeInit /\ [][NvmeNext]_nvmeVars

-----------------------------------------------------------------------------
(* Properties.                                                               *)

\* The verdict a waiting thread finds under its command identifier is the one
\* the device gave that very command, however often identifiers were reused:
\* an I/O reported done was done.
VerdictIsOwn ==
    NvmePresent =>
      \A t \in Callers : \A m \in call[t].wave :
          vq.result[m.cid].v # 0 => vq.result[m.cid].cmd = m.cmd

\* Identifiers t has claimed and not given back.
Held(t) ==
    {m.cid : m \in call[t].wave}
        \cup IF CallAt(t, "submit") THEN {call[t].cid} ELSE {}

\* Until the controller fails every identifier in use belongs to one thread
\* that will give it back: none leaks and none is in two commands.
CidsConserved ==
    NvmePresent =>
      /\ ~ctrl.failed => vq.in_use = UNION {Held(t) : t \in Callers}
      /\ \A t, u \in Callers : t # u => Held(t) \cap Held(u) = {}

\* A bounce page goes back to the allocator only when the device is done with
\* it ("bounce pages are freed only on success or when quiesced"), whoever
\* times out, disables the controller or shuts it down meanwhile.  The window
\* left out: a disable that finds CC.EN clear takes a device that has still to
\* stop for a quiet one.
FreedPagesQuiet ==
    NvmePresent =>
      \A c \in dev.running :
          c.cmd.kind = "bounce" =>
              \/ <<c.cmd.by, c.cmd.call>> \in kept
              \/ ~CallAt(c.cmd.by, "idle") /\ c.cmd.call = call[c.cmd.by].calls
              \/ ~reg.en /\ ctrl.dma_quiesced

-----------------------------------------------------------------------------
(* The strengthening of the three that every step preserves.                 *)

Entries == [cid : CIDs, cmd : Commands]

Completions == [cid : CIDs, ok : BOOLEAN, cmd : Commands]

CallPcs == {"idle", "alloc", "claim", "submit", "wait", "check", "stop", "fail",
            "disable", "clear", "quiet", "free"}

CallRecords ==
    [pc : CallPcs, kind : {"bounce", "batch", "shutdown"}, calls : Nat, next : Nat \ {0},
     cid : CIDs, wave : SUBSET Entries, rc : {0, -1, -2}]

Verdicts == [v : {0, 1, -1}, cmd : Commands \cup {None}]

Queues ==
    [in_use : SUBSET CIDs, result : [CIDs -> Verdicts], tail : CIDs,
     sq : [CIDs -> Entries \cup {NoEntry}], cq : Seq(Completions)]

NvmeTypeOK ==
    /\ ctrl \in [failed : BOOLEAN, io_ready : BOOLEAN, dma_quiesced : BOOLEAN]
    /\ reg \in [en : BOOLEAN, rdy : BOOLEAN]
    /\ vq \in Queues
    /\ dev \in [head : CIDs, running : SUBSET Entries]
    /\ call \in [Callers -> CallRecords]
    /\ kept \subseteq Callers \X Nat

\* Where a call can be with commands out, and of which kind.
CallOK(r) ==
    /\ r.pc \in {"idle", "alloc", "free"} => r.wave = {}
    /\ r.pc \in {"disable", "clear", "quiet"} => ctrl.failed \/ r.wave = {}
    /\ r.pc \in {"alloc", "claim", "submit", "wait", "check", "stop", "fail"} => r.kind # "shutdown"
    /\ r.pc = "claim" => r.kind = "batch"
    /\ r.kind = "bounce" =>
         /\ r.pc = "submit" => r.wave = {}
         /\ r.pc \in {"wait", "check"} => r.next > 1

CallsInv == \A t \in Callers : CallOK(call[t])

\* The identifiers of a call are in use and distinct, those of two calls too.
HeldOK(t) ==
    /\ Held(t) \subseteq vq.in_use
    /\ \A m, n \in call[t].wave : m.cid = n.cid => m = n
    /\ CallAt(t, "submit") =>
         /\ \A m \in call[t].wave : m.cid # call[t].cid
         /\ vq.result[call[t].cid].v = 0

HeldInv ==
    /\ \A t \in Callers : HeldOK(t)
    /\ \A t, u \in Callers : t # u => Held(t) \cap Held(u) = {}
    /\ ~ctrl.failed => \A c \in vq.in_use : \E t \in Callers : c \in Held(t)

\* A command in the submission ring, in the device or in the completion ring.
Sent(i) == vq.sq[i] # NoEntry

\* Whatever of its call is left, the command e has no verdict, its identifier
\* is not reused, and the call that has it knows e by it.
Owned(e) ==
    /\ e.cid \in vq.in_use /\ vq.result[e.cid].v = 0
    /\ \A t \in Callers :
         /\ CallAt(t, "submit") => call[t].cid # e.cid
         /\ \A m \in call[t].wave : m.cid = e.cid => m.cmd = e.cmd

OwnedInv ==
    /\ \A i \in CIDs : Sent(i) => Owned(vq.sq[i])
    /\ \A e \in dev.running : Owned(e)
    /\ \A k \in DOMAIN vq.cq : Owned(vq.cq[k])

VerdictsInv ==
    \A t \in Callers : \A m \in call[t].wave :
        vq.result[m.cid].v # 0 => vq.result[m.cid].cmd = m.cmd

\* It is in one of the three places, once.
OnceInv ==
    /\ \A i, j \in CIDs : Sent(i) /\ Sent(j) /\ vq.sq[i].cid = vq.sq[j].cid => i = j
    /\ \A d, e \in dev.running : d.cid = e.cid => d = e
    /\ \A k, l \in DOMAIN vq.cq : vq.cq[k].cid = vq.cq[l].cid => k = l
    /\ \A i \in CIDs : Sent(i) =>
         /\ \A e \in dev.running : vq.sq[i].cid # e.cid
         /\ \A k \in DOMAIN vq.cq : vq.sq[i].cid # vq.cq[k].cid
    /\ \A e \in dev.running : \A k \in DOMAIN vq.cq : e.cid # vq.cq[k].cid

\* The device finds a command in every slot from its head to the tail.
Doorbelled(i) ==
    IF dev.head <= vq.tail THEN dev.head <= i /\ i < vq.tail
    ELSE dev.head <= i \/ i < vq.tail

RingInv == \A i \in CIDs : Doorbelled(i) => Sent(i)

\* A command the device has or will fetch is of a call that still waits for
\* it, or gives it up, or is over; if over, its bounce page may be forgotten.
PageOK(e) ==
    LET r == call[e.cmd.by] IN
    /\ e.cmd.call <= r.calls
    /\ e.cmd.call = r.calls =>
         /\ r.pc # "idle" /\ e.cmd.kind = r.kind
         /\ e \in r.wave \/ (r.pc = "free" /\ r.rc = -2)

Forgotten(e) ==
    /\ e.cmd.kind = "bounce" /\ e.cmd.call < call[e.cmd.by].calls
    /\ <<e.cmd.by, e.cmd.call>> \notin kept

PagesInv ==
    /\ ~reg.rdy \/ ctrl.dma_quiesced => ~reg.en
    /\ \A i \in CIDs : Sent(i) => PageOK(vq.sq[i]) /\ (Forgotten(vq.sq[i]) => ~reg.en)
    /\ \A e \in dev.running : PageOK(e) /\ (Forgotten(e) => ~reg.en /\ ctrl.dma_quiesced)

NvmeInv ==
    /\ NvmeTypeOK /\ CallsInv /\ HeldInv /\ VerdictsInv
    /\ OwnedInv /\ OnceInv /\ RingInv /\ PagesInv
=============================================================================
