--------------------------------- MODULE Tcp ---------------------------------
(* One TCP connection of net/tcp.c, both ends running this code, over a      *)
(* network that loses, delays, reorders and repeats segments: handshake,     *)
(* sliding window, retransmission, reassembly, FIN and RST.                  *)
(*                                                                           *)
(* Every section under the TCP lock is one step, and so is every pass of     *)
(* tcp_output: a handler that is going to call it once the lock is dropped   *)
(* leaves that in todo, and the steps of other CPUs come in between.  The    *)
(* single ACK or retransmission a handler sends after the lock is sent by    *)
(* the section that decided on it; the network delays it as long as it likes.*)
(*                                                                           *)
(* Sequence numbers keep their width (SeqSpace for 2^32).  A byte is its     *)
(* place in the stream; 0 is what the transmit ring holds where nothing was  *)
(* written.  A timer is armed or not: an armed one may expire at any time.   *)
(* The congestion window is any value of at least one MSS, which is what the *)
(* code keeps it above; the checksums and the addresses are left out.  Each  *)
(* data segment of this code carries PSH, so none waits for a delayed ACK.   *)
EXTENDS Integers, Sequences, FiniteSets, SequencesExt

CONSTANTS
    SeqSpace,       \* 2^32 in the code
    Iss,            \* initial sequence number of each end, from new_iss
    MSS,
    TxCap,          \* tx_capacity
    RxCap,          \* rx_capacity
    WScale,         \* TCP_WS_SHIFT
    RETRIES,
    AckQuota,       \* duplicate ACKs sent for one gap: 8 in the code
    OooSegs,        \* TCP_MAX_OOO_SEGS
    NetCap,         \* bound: segments in flight, any further one is lost
    Faults,         \* bound: segments lost or repeated and timers expired
    Users,          \* bound: what the two users do, one of these plans
    PhantomEnd      \* the promise that is checked, see Stream

Ends == {"client", "server"}

Peer(e) == IF e = "client" THEN "server" ELSE "client"

ASSUME TcpConstants ==
    /\ SeqSpace \in Nat /\ SeqSpace % 2 = 0
    /\ Iss \in [Ends -> 0..(SeqSpace - 1)]
    /\ {MSS, TxCap, RxCap, OooSegs, NetCap} \subseteq Nat \ {0}
    /\ {WScale, RETRIES, AckQuota, Faults} \subseteq Nat
    /\ PhantomEnd \in BOOLEAN
    \* Bytes each user writes, the ends closed, the ends closed with RST, TCP_NODELAY.
    /\ Users \subseteq [bytes: [Ends -> Nat], close: SUBSET Ends, reset: SUBSET Ends,
                        nodelay: BOOLEAN]
    \* Less than half the sequence space is in use at once, and a slot of the
    \* ring stays the slot of its byte when the sequence numbers wrap.
    /\ 2 * (TxCap + RxCap + 2) <= SeqSpace /\ SeqSpace % TxCap = 0

VARIABLES
    users,      \* the plan of the two users
    tcb,        \* the control block of each end
    net,        \* segments on their way
    faults,     \* losses, repetitions and expired timers so far
    todo,       \* what each end's handlers still do after the lock
    sent,       \* bytes each end's tcp_send has taken
    got,        \* bytes each end's tcp_recv has returned
    eof         \* tcp_recv has returned 0

tcpVars == <<users, faults, tcb, net, todo, sent, got, eof>>

NoSeq == -1

-----------------------------------------------------------------------------
(* Sequence arithmetic: the sign of a 32-bit difference.                     *)

Plus(a, n) == (a + n) % SeqSpace

Minus(a, b) == (a - b) % SeqSpace

seq_lt(a, b) == Minus(a, b) >= SeqSpace \div 2

seq_ge(a, b) == ~seq_lt(a, b)

seq_gt(a, b) == seq_ge(a, b) /\ a # b

seq_le(a, b) == seq_lt(a, b) \/ a = b

-----------------------------------------------------------------------------
(* Control blocks and segments.                                              *)

tcb_init_locked ==
    [state |-> "CLOSED", una |-> 0, nxt |-> 0, head |-> 0,
     ring |-> [i \in 0..(TxCap - 1) |-> 0],
     finPending |-> FALSE, finSent |-> FALSE,
     wnd |-> 0, wl1 |-> 0, wl2 |-> 0, dup |-> 0, recover |-> NoSeq,
     rcv |-> 0, rx |-> <<>>, ooo |-> <<>>, ackCount |-> 0,
     peerClosed |-> FALSE, error |-> FALSE, retries |-> 0,
     deadline |-> FALSE, persist |-> FALSE]

\* Both handshake paths start a control block at a fresh sequence number.
Opened(t, e, state, rcv) ==
    [t EXCEPT !.state = state, !.una = Iss[e], !.nxt = Plus(Iss[e], 1),
              !.head = Plus(Iss[e], 1), !.rcv = rcv, !.deadline = TRUE]

RxSpace(t) == RxCap - Len(t.rx)

\* The window field is scaled down, except in a SYN.
emit_at(t, e, seq, flags, data) ==
    [src |-> e, flags |-> flags, seq |-> seq, ack |-> t.rcv,
     wnd |-> IF "SYN" \in flags THEN RxSpace(t) ELSE RxSpace(t) \div 2^WScale,
     data |-> data]

\* A full network loses the new segments.
Sending(left, segs) ==
    IF Cardinality(left \cup segs) <= NetCap THEN left \cup segs ELSE left

ring_copy_out(t, seq, len) ==
    [i \in 1..len |-> t.ring[Plus(seq, i - 1) % TxCap]]

AckNow(t, e) == emit_at(t, e, t.nxt, {"ACK"}, <<>>)

\* Up to one segment from seq to snd_nxt, taken from the ring.
tcp_retransmit_segment(t, e, seq) ==
    LET left == Minus(t.nxt, seq)
        len == IF left < MSS THEN left ELSE MSS
    IN IF seq_ge(seq, t.una) /\ seq_lt(seq, t.nxt)
       THEN {emit_at(t, e, seq, {"ACK", "PSH"}, ring_copy_out(t, seq, len))}
       ELSE {}

tcp_retransmit_fin(t, e) ==
    IF t.finSent /\ t.una # t.nxt
    THEN {emit_at(t, e, t.una, {"FIN", "ACK"}, <<>>)}
    ELSE {}

tcp_retransmit_syn(t, e) ==
    {emit_at(t, e, t.una, IF t.state = "SYN_SENT" THEN {"SYN"} ELSE {"SYN", "ACK"}, <<>>)}

\* The end of a section under the lock: the block, the segments in flight, the
\* ones it sends and whether tcp_output is called next.
Leave(e, t, left, segs, output) ==
    /\ tcb' = [tcb EXCEPT ![e] = t]
    /\ net' = Sending(left, segs)
    /\ todo' = [todo EXCEPT ![e] = @ \cup (IF output THEN {"output"} ELSE {})]

-----------------------------------------------------------------------------
(* The user's calls.                                                         *)

tcp_active_open ==
    /\ tcb["client"] = tcb_init_locked
    /\ LET t == Opened(tcb["client"], "client", "SYN_SENT", 0)
       IN /\ tcb' = [tcb EXCEPT !["client"] = t]
          /\ net' = Sending(net, {emit_at(t, "client", t.una, {"SYN"}, <<>>)})
    /\ UNCHANGED <<todo, sent, got, eof>>

\* One pass of the loop that found room: n bytes go into the ring.  The user
\* waits, or is told to try again, while there is none.
tcp_send(e, n) ==
    LET t == tcb[e]
        slot(j) == Plus(t.head, j - 1) % TxCap
        written == {slot(j) : j \in 1..n}
    IN /\ t.state = "ESTABLISHED" /\ ~t.error
       /\ n <= TxCap - Minus(t.head, t.una)
       /\ sent[e] + n <= users.bytes[e]
       /\ tcb' = [tcb EXCEPT
            ![e].head = Plus(@, n),
            ![e].ring = [i \in DOMAIN @ |->
                IF i \in written
                THEN sent[e] + (CHOOSE j \in 1..n : slot(j) = i)
                ELSE @[i]]]
       /\ sent' = [sent EXCEPT ![e] = @ + n]
       /\ todo' = [todo EXCEPT ![e] = @ \cup {"output"}]
       /\ UNCHANGED <<net, got, eof>>

\* Bytes first, whatever the state; the window is advertised again when it
\* opens by a whole segment.
tcp_recv(e, n) ==
    LET t == tcb[e]
        after == SubSeq(t.rx, n + 1, Len(t.rx))
        opens == /\ t.state \in {"ESTABLISHED", "CLOSE_WAIT"}
                 /\ RxSpace(t) < MSS
                 /\ RxCap - Len(after) >= MSS
    IN /\ n <= Len(t.rx)
       /\ LET u == [t EXCEPT !.rx = after]
          IN Leave(e, u, net, IF opens THEN {AckNow(u, e)} ELSE {}, FALSE)
       /\ got' = [got EXCEPT ![e] = @ \o SubSeq(t.rx, 1, n)]
       /\ UNCHANGED <<sent, eof>>

tcp_recv_end(e) ==
    /\ tcb[e].rx = <<>>
    /\ tcb[e].peerClosed \/ tcb[e].state \in {"CLOSE_WAIT", "TIME_WAIT"}
    /\ eof' = [eof EXCEPT ![e] = TRUE]
    /\ UNCHANGED <<tcb, net, todo, sent, got>>

FinSent(t) ==
    [t EXCEPT !.finPending = FALSE, !.finSent = TRUE,
              !.state = IF @ = "CLOSE_WAIT" THEN "LAST_ACK" ELSE "FIN_WAIT_1",
              !.nxt = Plus(@, 1), !.deadline = TRUE]

SendFin(e) ==
    /\ tcb' = [tcb EXCEPT ![e] = FinSent(@)]
    /\ net' = Sending(net, {emit_at(tcb[e], e, tcb[e].nxt, {"FIN", "ACK"}, <<>>)})

\* The FIN goes out at once, or waits behind the data not yet sent.
tcp_close(e) ==
    LET t == tcb[e]
    IN /\ e \in users.close
       /\ t.state \in {"ESTABLISHED", "CLOSE_WAIT"}
       /\ ~t.finSent /\ ~t.finPending
       /\ \/ /\ t.head = t.nxt
             /\ SendFin(e)
             /\ UNCHANGED todo
          \/ /\ t.head # t.nxt
             /\ tcb' = [tcb EXCEPT ![e].finPending = TRUE]
             /\ todo' = [todo EXCEPT ![e] = @ \cup {"output", "fin"}]
             /\ UNCHANGED net
       /\ UNCHANGED <<sent, got, eof>>

\* The end of tcp_close, once its own tcp_output has returned: no look at the
\* state, which a reset may have changed meanwhile.
tcp_close_fin(e) ==
    LET t == tcb[e]
    IN /\ "fin" \in todo[e] /\ "output" \notin todo[e]
       /\ todo' = [todo EXCEPT ![e] = @ \ {"fin"}]
       /\ IF t.finPending /\ ~t.finSent /\ t.head = t.nxt
          THEN SendFin(e)
          ELSE UNCHANGED <<tcb, net>>
       /\ UNCHANGED <<sent, got, eof>>

\* Close with a linger time of zero.
tcp_close_reset(e) ==
    /\ e \in users.reset
    /\ tcb[e].state \in {"ESTABLISHED", "CLOSE_WAIT"}
    /\ tcb' = [tcb EXCEPT ![e].state = "RESET", ![e].error = TRUE,
                          ![e].deadline = FALSE]
    /\ net' = Sending(net, {emit_at(tcb[e], e, tcb[e].nxt, {"RST", "ACK"}, <<>>)})
    /\ UNCHANGED <<todo, sent, got, eof>>

-----------------------------------------------------------------------------
(* The transmit loop, outside the lock between its passes.                  *)

Done(e) == todo' = [todo EXCEPT ![e] = @ \ {"output"}]

\* One pass of the loop.  cwnd is any congestion window the code can be at.
tcp_output(e, cwnd) ==
    LET t == tcb[e]
        unsent == Minus(t.head, t.nxt)
        window == IF cwnd < t.wnd THEN cwnd ELSE t.wnd
        winEnd == Plus(t.una, window)
        dataAvail == seq_lt(t.nxt, t.head)
        winOpen == dataAvail /\ seq_lt(t.nxt, winEnd)
        flight == Minus(t.nxt, t.una)
        nagle == ~users.nodelay /\ flight > 0 /\ unsent < MSS /\ flight + unsent < MSS
        len == CHOOSE n \in {MSS, Minus(winEnd, t.nxt), unsent} :
                 \A m \in {MSS, Minus(winEnd, t.nxt), unsent} : n <= m
    IN /\ "output" \in todo[e]
       /\ UNCHANGED <<sent, got, eof>>
       /\ \/ /\ t.error \/ t.state \notin {"ESTABLISHED", "CLOSE_WAIT"}
             /\ Done(e)
             /\ UNCHANGED <<tcb, net>>
          \/ /\ ~t.error /\ t.state \in {"ESTABLISHED", "CLOSE_WAIT"}
             /\ \/ /\ ~winOpen
                   /\ ~dataAvail /\ t.finPending /\ ~t.finSent /\ t.nxt = t.head
                   /\ Done(e)
                   /\ SendFin(e)
                \/ /\ ~winOpen
                   /\ dataAvail \/ ~t.finPending \/ t.finSent
                   /\ Done(e)
                   /\ tcb' = [tcb EXCEPT ![e].persist =
                                @ \/ (dataAvail /\ window = 0)]
                   /\ UNCHANGED net
                \/ /\ winOpen /\ nagle
                   /\ Done(e)
                   /\ UNCHANGED <<tcb, net>>
                \/ /\ winOpen /\ ~nagle
                   /\ tcb' = [tcb EXCEPT ![e].nxt = Plus(@, len),
                                         ![e].persist = FALSE,
                                         ![e].deadline = TRUE]
                   /\ net' = Sending(net, {emit_at(t, e, t.nxt, {"ACK", "PSH"},
                                              ring_copy_out(t, t.nxt, len))})
                   /\ UNCHANGED todo

-----------------------------------------------------------------------------
(* A segment comes in.  Each stage takes and gives the control block and the *)
(* actions asked for; "stop" is the code's early return.                     *)

Act(r, t, items) == [r EXCEPT !.t = t, !.acts = @ \cup items]

Stop(r) == [r EXCEPT !.stop = TRUE]

\* An ACK for a gap or a duplicate, AckQuota times until data comes in order.
GapAck(r) ==
    IF r.t.ackCount < AckQuota
    THEN Act(r, [r.t EXCEPT !.ackCount = @ + 1], {"ack"})
    ELSE r

\* The peer's window, taken from a segment newer than the last one that set
\* it.  grew: it has become larger.
PeerWindow(t, m) ==
    LET new == IF "SYN" \in m.flags /\ t.state = "SYN_SENT"
               THEN m.wnd ELSE m.wnd * 2^WScale
        newer == \/ seq_gt(m.seq, t.wl1)
                 \/ m.seq = t.wl1 /\ seq_ge(m.ack, t.wl2)
        grew == newer /\ new > t.wnd
    IN [t |-> IF newer
              THEN [t EXCEPT !.wnd = new, !.wl1 = m.seq, !.wl2 = m.ack]
              ELSE t,
        acts |-> IF grew THEN {"output"} ELSE {},
        grew |-> grew,
        stop |-> FALSE]

RstInput(r, m) ==
    LET acceptable ==
          IF r.t.state = "SYN_SENT"
          THEN "ACK" \in m.flags /\ m.ack = r.t.nxt
          ELSE m.seq = r.t.rcv
    IN Stop(IF acceptable
            THEN [r EXCEPT !.t.error = TRUE, !.t.state = "RESET",
                           !.t.deadline = FALSE]
            ELSE Act(r, r.t, {"ack"}))

SynSentInput(r, m) ==
    Stop(IF {"SYN", "ACK"} \subseteq m.flags /\ m.ack = r.t.nxt
         THEN Act(r, [r.t EXCEPT !.una = m.ack, !.rcv = Plus(m.seq, 1),
                                 !.state = "ESTABLISHED", !.retries = 0,
                                 !.deadline = FALSE],
                  {"ack", "output"})
         ELSE r)

\* The listener has room in its accept queue: this is its only connection.
SynReceivedInput(r, m) ==
    Stop(IF "ACK" \in m.flags /\ m.ack = r.t.nxt
         THEN [r EXCEPT !.t.una = m.ack, !.t.state = "ESTABLISHED",
                        !.t.retries = 0, !.t.deadline = FALSE]
         ELSE r)

\* Mutant of AckLeavesTimer: an ACK for part of the flight stops the timer.
AckStopsTimer(t, all) == t.state = "FIN_WAIT_1"

\* The timer runs on for what is still in flight, or for the peer's FIN.
AckLeavesTimer(t, all) == ~all \/ t.state = "FIN_WAIT_1"

NewAck(r, m) ==
    LET t == r.t
        partial == t.recover # NoSeq /\ seq_lt(m.ack, t.recover)
        all == seq_ge(m.ack, t.nxt)
    IN Act(r,
           [t EXCEPT !.una = m.ack, !.retries = 0, !.dup = 0,
                     !.recover = IF partial THEN @ ELSE NoSeq,
                     !.deadline = AckLeavesTimer(t, all),
                     !.state = CASE all /\ @ = "LAST_ACK" -> "CLOSED"
                                 [] all /\ @ = "FIN_WAIT_1" -> "FIN_WAIT_2"
                                 [] OTHER -> @],
           {"output"} \cup (IF partial THEN {"retx"} ELSE {}))

\* The third duplicate starts recovery; the count stops mattering after it.
DuplicateAck(r) ==
    LET t == r.t
    IN CASE t.dup = 2 ->
              Act(r, [t EXCEPT !.dup = 3, !.recover = t.nxt, !.deadline = TRUE],
                  {"retx", "output"})
         [] t.dup > 2 ->
              Act(r, [t EXCEPT !.dup = 4],
                  IF t.recover # NoSeq THEN {"output"} ELSE {})
         [] OTHER -> Act(r, [t EXCEPT !.dup = @ + 1], {})

ack_input_locked(r, m) ==
    CASE "ACK" \notin m.flags -> r
      [] "ACK" \in m.flags /\ seq_gt(m.ack, r.t.una) /\ seq_le(m.ack, r.t.nxt) ->
           NewAck(r, m)
      [] /\ "ACK" \in m.flags /\ m.ack = r.t.una /\ m.data = <<>>
         /\ m.flags \cap {"SYN", "FIN"} = {} /\ ~r.grew
         /\ r.t.una # r.t.nxt ->
           DuplicateAck(r)
      [] OTHER -> r

\* What ooo_drain_locked does with one queued segment.
DrainOne(acc, s) ==
    LET skip == IF seq_lt(s.seq, acc.rcv) THEN Minus(acc.rcv, s.seq) ELSE 0
        data == SubSeq(s.data, skip + 1, Len(s.data))
        kept == [seq |-> Plus(s.seq, skip), data |-> data]
    IN CASE acc.stuck -> [acc EXCEPT !.ooo = Append(@, s)]
         [] ~acc.stuck /\ skip >= Len(s.data) -> acc
         [] ~acc.stuck /\ skip < Len(s.data)
            /\ (kept.seq # acc.rcv \/ Len(data) > RxCap - Len(acc.rx)) ->
              [acc EXCEPT !.ooo = Append(@, kept), !.stuck = TRUE]
         [] OTHER ->
              [acc EXCEPT !.rx = @ \o data, !.rcv = Plus(@, Len(data))]

ooo_drain_locked(t) ==
    LET end == FoldLeft(DrainOne,
                        [rx |-> t.rx, rcv |-> t.rcv, ooo |-> <<>>, stuck |-> FALSE],
                        t.ooo)
    IN [t EXCEPT !.rx = end.rx, !.rcv = end.rcv, !.ooo = end.ooo]

\* Cutting a new segment against one that is queued.  The comparisons are
\* plain ones, also where the sequence numbers have wrapped.
TrimOne(acc, s) ==
    LET sEnd == Plus(s.seq, Len(s.data))
    IN CASE \/ acc.stop \/ acc.start >= acc.end
            \/ acc.end <= s.seq \/ acc.start >= sEnd -> acc
         [] ~acc.stop /\ acc.start < s.seq -> [acc EXCEPT !.end = s.seq, !.stop = TRUE]
         [] OTHER -> [acc EXCEPT !.start = sEnd]

ooo_insert_locked(t, seq, data) ==
    LET cut == FoldLeft(TrimOne,
                        [start |-> seq, end |-> Plus(seq, Len(data)), stop |-> FALSE],
                        t.ooo)
        from == Minus(cut.start, seq)
        new == [seq |-> cut.start,
                data |-> SubSeq(data, from + 1, from + cut.end - cut.start)]
        before(s) == seq_lt(s.seq, cut.start)
        place == CHOOSE i \in 1..(Len(t.ooo) + 1) :
                   /\ \A j \in 1..(i - 1) : before(t.ooo[j])
                   /\ i > Len(t.ooo) \/ ~before(t.ooo[i])
    IN IF Minus(seq, t.rcv) >= RxCap \/ cut.start >= cut.end
          \/ Len(t.ooo) >= OooSegs
       THEN t
       ELSE [t EXCEPT !.ooo = InsertAt(@, place, new)]

\* Text that starts at or before rcv_nxt: cut, stored or refused.
InOrder(r, data) ==
    IF Len(data) > RxSpace(r.t)
    THEN Stop(GapAck(r))
    ELSE Act(r, ooo_drain_locked([r.t EXCEPT !.rx = @ \o data,
                                             !.rcv = Plus(@, Len(data)),
                                             !.ackCount = 0]),
             {"ack", "output"})

TextInput(r, m) ==
    LET t == r.t
        old == seq_lt(m.seq, t.rcv)
        trim == IF old THEN Minus(t.rcv, m.seq) ELSE 0
        data == SubSeq(m.data, trim + 1, Len(m.data))
    IN CASE old /\ trim >= Len(m.data) -> Stop(GapAck(r))
         [] ~(old /\ trim >= Len(m.data)) /\ data # <<>>
            /\ (old \/ m.seq = t.rcv) -> InOrder(r, data)
         [] ~old /\ data # <<>> /\ m.seq # t.rcv ->
              GapAck([r EXCEPT !.t = ooo_insert_locked(t, m.seq, data)])
         [] OTHER -> r

\* Mutant of FinInOrder: a FIN that overtook text is taken at once.
FinAnywhere(t, m) == TRUE

\* A FIN counts only as the next byte of the stream.
FinInOrder(t, m) == t.rcv = Plus(m.seq, Len(m.data))

FinInput(r, m) ==
    LET t == r.t
    IN CASE ~t.peerClosed /\ FinInOrder(t, m) ->
              Act(r,
                  [t EXCEPT !.rcv = Plus(@, 1), !.peerClosed = TRUE,
                            !.deadline = t.state # "ESTABLISHED",
                            !.retries = IF t.state = "ESTABLISHED" THEN 0 ELSE @,
                            !.state = IF @ = "ESTABLISHED"
                                      THEN "CLOSE_WAIT" ELSE "TIME_WAIT"],
                  {"ack"})
         [] ~t.peerClosed /\ ~FinInOrder(t, m) -> GapAck(r)
         [] OTHER -> r

StreamInput(r, m) ==
    LET text == TextInput(ack_input_locked(r, m), m)
    IN IF text.stop \/ "FIN" \notin m.flags THEN text ELSE FinInput(text, m)

input_locked(t, m) ==
    LET r == PeerWindow(t, m)
    IN CASE "RST" \in m.flags -> RstInput(r, m)
         [] "RST" \notin m.flags /\ t.state = "SYN_SENT" -> SynSentInput(r, m)
         [] "RST" \notin m.flags /\ t.state = "SYN_RECEIVED" -> SynReceivedInput(r, m)
         [] OTHER -> StreamInput(r, m)

\* left is what stays in the network.
tcp_input(e, m, left) ==
    /\ m.src = Peer(e)
    /\ tcb[e].state # "LISTEN"
    /\ LET r == input_locked(tcb[e], m)
           segs == (IF "ack" \in r.acts THEN {AckNow(r.t, e)} ELSE {})
                   \cup (IF "retx" \in r.acts
                         THEN tcp_retransmit_segment(r.t, e, r.t.una) ELSE {})
       IN Leave(e, r.t, left, segs, "output" \in r.acts)
    /\ UNCHANGED <<sent, got, eof>>

\* No block for the connection: a SYN to the listener makes one.
tcp_input_listen(m, left) ==
    /\ m.src = "client"
    /\ tcb["server"].state = "LISTEN"
    /\ "SYN" \in m.flags
    /\ LET t == Opened(tcb_init_locked, "server", "SYN_RECEIVED", Plus(m.seq, 1))
       IN /\ tcb' = [tcb EXCEPT !["server"] = t]
          /\ net' = Sending(left, {emit_at(t, "server", t.una, {"SYN", "ACK"}, <<>>)})
    /\ UNCHANGED <<todo, sent, got, eof>>

Lose(m) ==
    /\ net' = net \ {m}
    /\ UNCHANGED <<tcb, todo, sent, got, eof>>

-----------------------------------------------------------------------------
(* tcp_timer_tick, one expired timer at a time.                              *)

GiveUp(t) == [t EXCEPT !.state = "CLOSED", !.deadline = FALSE, !.error = TRUE]

TimerExpired(e, t, segs) ==
    /\ Leave(e, t, net, segs, FALSE)
    /\ UNCHANGED <<sent, got, eof>>

tcp_timer_wait_over(e) ==
    /\ tcb[e].deadline
    /\ tcb[e].state \in {"TIME_WAIT", "FIN_WAIT_2"}
    /\ TimerExpired(e, [tcb[e] EXCEPT !.state = "CLOSED", !.deadline = FALSE], {})

tcp_timer_syn(e) ==
    LET t == tcb[e]
    IN /\ t.deadline
       /\ t.state \in {"SYN_SENT", "SYN_RECEIVED"}
       /\ IF t.retries >= RETRIES
          THEN TimerExpired(e, GiveUp(t), {})
          ELSE TimerExpired(e, [t EXCEPT !.retries = @ + 1], tcp_retransmit_syn(t, e))

tcp_timer_retransmit(e) ==
    LET t == tcb[e]
        flight == Minus(t.nxt, t.una)
    IN /\ t.deadline
       /\ t.state \in {"ESTABLISHED", "CLOSE_WAIT", "FIN_WAIT_1", "LAST_ACK"}
       /\ CASE flight = 0 -> TimerExpired(e, [t EXCEPT !.deadline = FALSE], {})
            [] flight # 0 /\ t.retries >= RETRIES -> TimerExpired(e, GiveUp(t), {})
            [] OTHER ->
                 TimerExpired(e, [t EXCEPT !.retries = @ + 1, !.recover = NoSeq,
                                           !.dup = 0],
                              IF t.finSent /\ flight = 1
                              THEN tcp_retransmit_fin(t, e)
                              ELSE tcp_retransmit_segment(t, e, t.una))

\* tcp_send_probe: a segment just below the window, which the peer answers.
\* It arms the timer again.
tcp_timer_persist(e) ==
    LET t == tcb[e]
    IN /\ t.persist
       /\ t.state = "ESTABLISHED" /\ ~t.error
       /\ seq_lt(t.nxt, t.head)
       /\ TimerExpired(e, t, {emit_at(t, e, Minus(t.una, 1), {"ACK"}, <<>>)})

-----------------------------------------------------------------------------
(* The specification.                                                        *)

TcpInit ==
    /\ users \in Users
    /\ faults = 0
    /\ tcb = [e \in Ends |-> IF e = "client" THEN tcb_init_locked
                             ELSE [tcb_init_locked EXCEPT !.state = "LISTEN"]]
    /\ net = {}
    /\ todo = [e \in Ends |-> {}]
    /\ sent = [e \in Ends |-> 0]
    /\ got = [e \in Ends |-> <<>>]
    /\ eof = [e \in Ends |-> FALSE]

User(e) ==
    \/ \E n \in 1..TxCap : tcp_send(e, n)
    \/ \E n \in 1..RxCap : tcp_recv(e, n)
    \/ tcp_recv_end(e)
    \/ tcp_close(e)
    \/ tcp_close_fin(e)
    \/ tcp_close_reset(e)

Timer(e) ==
    \/ tcp_timer_wait_over(e)
    \/ tcp_timer_syn(e)
    \/ tcp_timer_retransmit(e)
    \/ tcp_timer_persist(e)

Deliver(m, left) ==
    \/ tcp_input_listen(m, left)
    \/ \E e \in Ends : tcp_input(e, m, left)

Fault ==
    /\ faults < Faults
    /\ faults' = faults + 1
    /\ \/ \E m \in net : Lose(m) \/ Deliver(m, net)
       \/ \E e \in Ends : Timer(e)

TcpNext ==
    /\ \/ Fault
       \/ /\ UNCHANGED faults
          /\ \/ tcp_active_open
             \/ \E m \in net : Deliver(m, net \ {m})
             \/ \E e \in Ends :
                  \/ User(e)
                  \/ \E cwnd \in {MSS, 2 * MSS} : tcp_output(e, cwnd)
    /\ UNCHANGED users

TcpSpec == TcpInit /\ [][TcpNext]_tcpVars

-----------------------------------------------------------------------------
(* Properties.                                                               *)

\* The bytes the user of end e has handed to tcp_send.
Written(e) == [i \in 1..sent[e] |-> i]

ToServer ==
    INSTANCE Stream WITH
        written <- Written("client"),
        read <- got["server"],
        closed <- tcb["client"].finSent,
        ended <- eof["server"]

ToClient ==
    INSTANCE Stream WITH
        written <- Written("server"),
        read <- got["client"],
        closed <- tcb["server"].finSent,
        ended <- eof["client"]

\* Each direction of the connection is a stream: what tcp_recv returns at the
\* other end is what tcp_send took, in order and once, and 0 comes only after
\* all of it.  With PhantomEnd, a FIN that is sent again as text may end it
\* with one byte that nobody wrote.
ConnectionIsStreams == ToServer!StreamSpec /\ ToClient!StreamSpec

\* An end that waits for the peer has a timer to get it going again, so that
\* one lost segment cannot stall the connection: unacknowledged text or FIN
\* has the retransmission timer, text held back by a closed window has the
\* persist timer.  Not so after the peer's FIN: CLOSE_WAIT has stopped the one
\* and does not look at the other.
NeverStalls ==
    \A e \in Ends :
        LET t == tcb[e]
        IN /\ t.state \in {"ESTABLISHED", "FIN_WAIT_1", "LAST_ACK"} /\ t.una # t.nxt
                => t.deadline
           /\ t.state = "ESTABLISHED" /\ t.una = t.nxt /\ t.nxt # t.head
                => \/ t.persist
                   \/ "output" \in todo[e]
=============================================================================
