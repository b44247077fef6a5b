-------------------------- MODULE WaitQueueProofs --------------------------
(* Proofs about WaitQueue: no entry of a dead frame is linked, a handoff uses *)
(* live memory, no wakeup is lost and a destroyed queue is forgotten.         *)
EXTENDS WaitQueue, TLAPS

\* The leaves are first order; the ones that cite SMT need arithmetic or types.
USE ZenonT(30)

-----------------------------------------------------------------------------
(* Lists of entries *)

LEMMA EmptyList ==
    /\ <<>> \in Seq(Threads) /\ Distinct(<<>>)
    /\ \A x : ~In(<<>>, x)
BY SMT DEF Distinct, In

LEMMA AddEntry ==
    ASSUME NEW s \in Seq(Threads), Distinct(s), NEW t \in Threads, ~In(s, t), NEW r,
           r = Append(s, t) \/ r = <<t>> \o s
    PROVE  /\ r \in Seq(Threads) /\ Distinct(r)
           /\ \A x : In(r, x) <=> In(s, x) \/ x = t
<1>1. PICK n \in Nat : n = Len(s) /\ DOMAIN s = 1..n /\ \A i \in 1..n : s[i] \in Threads
  BY SMT
<1>2. \A i \in 1..n : s[i] # t
  BY <1>1 DEF In
<1>3. CASE r = Append(s, t)
  <2>1. /\ r \in Seq(Threads) /\ DOMAIN r = 1..(n + 1)
        /\ r[n + 1] = t /\ \A i \in 1..n : r[i] = s[i]
    BY SMT, <1>1, <1>3
  <2>2. Distinct(r)
    BY SMT, <1>1, <1>2, <2>1 DEF Distinct
  <2>3. \A x : In(r, x) <=> In(s, x) \/ x = t
    BY SMT, <1>1, <2>1 DEF In
  <2>4. QED
    BY <2>1, <2>2, <2>3
<1>4. CASE r = <<t>> \o s
  <2>1. /\ r \in Seq(Threads) /\ DOMAIN r = 1..(n + 1)
        /\ r[1] = t /\ \A i \in 1..n : r[i + 1] = s[i]
    BY SMT, <1>1, <1>4
  <2>2. \A i \in 2..(n + 1) : i - 1 \in 1..n /\ r[i] = s[i - 1]
    BY SMT, <1>1, <2>1
  <2>3. ASSUME NEW i \in DOMAIN r, NEW j \in DOMAIN r, r[i] = r[j] PROVE i = j
    <3>1. i = 1 \/ i \in 2..(n + 1)
      BY SMT, <2>1
    <3>2. j = 1 \/ j \in 2..(n + 1)
      BY SMT, <2>1
    <3>3. i \in 2..(n + 1) => r[i] # t
      BY <1>2, <2>2
    <3>4. j \in 2..(n + 1) => r[j] # t
      BY <1>2, <2>2
    <3>5. CASE i \in 2..(n + 1) /\ j \in 2..(n + 1)
      <4>1. i - 1 = j - 1
        BY <1>1, <2>2, <2>3, <3>5 DEF Distinct
      <4>2. QED
        BY SMT, <3>5, <4>1
    <3>6. QED
      BY <2>1, <2>3, <3>1, <3>2, <3>3, <3>4, <3>5
  <2>4. ASSUME NEW x, In(r, x) PROVE In(s, x) \/ x = t
    <3>1. PICK i \in 1..(n + 1) : r[i] = x
      BY <2>1, <2>4 DEF In
    <3>2. i = 1 \/ i \in 2..(n + 1)
      BY SMT
    <3>3. QED
      BY <1>1, <2>1, <2>2, <3>1, <3>2 DEF In
  <2>6. ASSUME NEW x, In(s, x) PROVE In(r, x)
    <3>1. PICK i \in 1..n : s[i] = x
      BY <1>1, <2>6 DEF In
    <3>2. i + 1 \in 1..(n + 1) /\ r[i + 1] = x
      BY SMT, <2>1, <3>1
    <3>3. QED
      BY <2>1, <3>2 DEF In
  <2>7. In(r, t)
    <3>1. 1 \in 1..(n + 1)
      BY SMT
    <3>2. QED
      BY <2>1, <3>1 DEF In
  <2>8. Distinct(r)
    BY <2>3 DEF Distinct
  <2>9. QED
    BY <2>1, <2>4, <2>6, <2>7, <2>8
<1>5. QED
  BY <1>3, <1>4

LEMMA UnlinkEntry ==
    ASSUME NEW s \in Seq(Threads), Distinct(s), NEW t, NEW r, r = Unlink(s, t)
    PROVE  /\ r \in Seq(Threads) /\ Distinct(r)
           /\ \A x : In(r, x) <=> In(s, x) /\ x # t
<1>1. CASE ~\E i \in DOMAIN s : s[i] = t
  BY <1>1 DEF Unlink, In
<1>2. CASE \E i \in DOMAIN s : s[i] = t
  <2>1. PICK i : i = CHOOSE k \in DOMAIN s : s[k] = t
    OBVIOUS
  <2>2. i \in DOMAIN s /\ s[i] = t
    BY <1>2, <2>1
  <2>3. PICK n \in Nat : n = Len(s) /\ DOMAIN s = 1..n /\ \A k \in 1..n : s[k] \in Threads
    BY SMT
  <2>4. i \in 1..n /\ Distinct(s)
    BY <2>2, <2>3
  <2>5. r = [j \in 1..(n - 1) |-> s[IF j < i THEN j ELSE j + 1]]
    BY <1>2, <2>1, <2>3 DEF Unlink
  <2>6. \A j \in 1..(n - 1) : r[j] = s[IF j < i THEN j ELSE j + 1]
    BY SMT, <2>5
  <2>7. DOMAIN r = 1..(n - 1) /\ \A j \in 1..(n - 1) : r[j] \in Threads
    BY SMT, <2>3, <2>4, <2>5
  <2>8. r \in Seq(Threads)
    <3>1. r = [j \in 1..(n - 1) |-> r[j]]
      BY SMT, <2>5
    <3>2. CASE n = 0
      BY SMT, <2>4, <3>2
    <3>3. CASE n > 0
      BY SMT, <2>7, <3>1, <3>3
    <3>4. QED
      BY SMT, <3>2, <3>3
  <2>9. Distinct(r)
    <3>1. ASSUME NEW j \in DOMAIN r, NEW k \in DOMAIN r, r[j] = r[k] PROVE j = k
      <4>1. PICK a \in 1..n : a = (IF j < i THEN j ELSE j + 1) /\ r[j] = s[a]
        BY SMT, <2>4, <2>6, <2>7
      <4>2. PICK b \in 1..n : b = (IF k < i THEN k ELSE k + 1) /\ r[k] = s[b]
        BY SMT, <2>4, <2>6, <2>7
      <4>3. a = b
        BY <2>3, <2>4, <3>1, <4>1, <4>2 DEF Distinct
      <4>4. QED
        BY SMT, <2>4, <2>7, <4>1, <4>2, <4>3
    <3>2. QED
      BY <3>1 DEF Distinct
  <2>10. ASSUME NEW x, In(r, x) PROVE In(s, x) /\ x # t
    BY SMT, <2>2, <2>3, <2>4, <2>6, <2>7, <2>10 DEF Distinct, In
  <2>11. ASSUME NEW x, In(s, x), x # t PROVE In(r, x)
    <3>1. PICK k \in 1..n : s[k] = x
      BY <2>3, <2>11 DEF In
    <3>2. k < i \/ k > i
      BY SMT, <2>2, <2>4, <2>11, <3>1
    <3>3. CASE k < i
      <4>1. k \in 1..(n - 1) /\ r[k] = x
        BY SMT, <2>4, <2>6, <3>1, <3>3
      <4>2. QED
        BY <2>7, <4>1 DEF In
    <3>4. CASE k > i
      <4>1. k - 1 \in 1..(n - 1) /\ r[k - 1] = x
        BY SMT, <2>4, <2>6, <3>1, <3>4
      <4>2. QED
        BY <2>7, <4>1 DEF In
    <3>5. QED
      BY <3>2, <3>3, <3>4
  <2>12. QED
    BY <2>8, <2>9, <2>10, <2>11
<1>3. QED
  BY <1>1, <1>2

LEMMA NextEntry ==
    ASSUME NEW s \in Seq(Threads), Distinct(s), s # <<>>
    PROVE  /\ Head(s) \in Threads /\ Tail(s) \in Seq(Threads) /\ Distinct(Tail(s))
           /\ \A x : In(Tail(s), x) <=> In(s, x) /\ x # Head(s)
<1>1. PICK n \in Nat \ {0} : n = Len(s) /\ DOMAIN s = 1..n /\ \A i \in 1..n : s[i] \in Threads
  BY SMT
<1>2. PICK r : r = Tail(s)
  OBVIOUS
<1>3. /\ r \in Seq(Threads) /\ DOMAIN r = 1..(n - 1)
      /\ \A i \in 1..(n - 1) : r[i] = s[i + 1]
  BY SMT, <1>1, <1>2
<1>4. Head(s) = s[1] /\ 1 \in 1..n
  BY SMT, <1>1
<1>5. Distinct(r)
  <2>1. ASSUME NEW i \in DOMAIN r, NEW j \in DOMAIN r, r[i] = r[j] PROVE i = j
    <3>1. i + 1 \in 1..n /\ j + 1 \in 1..n /\ s[i + 1] = s[j + 1]
      BY SMT, <1>1, <1>3, <2>1
    <3>2. i + 1 = j + 1
      BY <1>1, <3>1 DEF Distinct
    <3>3. QED
      BY SMT, <1>3, <3>2
  <2>2. QED
    BY <2>1 DEF Distinct
<1>6. ASSUME NEW x, In(r, x) PROVE In(s, x) /\ x # Head(s)
  BY SMT, <1>1, <1>3, <1>4, <1>6 DEF In, Distinct
<1>7. ASSUME NEW x, In(s, x), x # Head(s) PROVE In(r, x)
  <2>1. PICK k \in 1..n : s[k] = x
    BY <1>1, <1>7 DEF In
  <2>2. k - 1 \in 1..(n - 1) /\ r[k - 1] = x
    BY SMT, <1>3, <1>4, <1>7, <2>1
  <2>3. QED
    BY <1>3, <2>2 DEF In
<1>8. QED
  BY <1>1, <1>2, <1>3, <1>4, <1>5, <1>6, <1>7

-----------------------------------------------------------------------------
(* Steps of a thread that touch no list *)

OthersStay(t) ==
  \A u \in Threads \ {t} :
    /\ tpc'[u] = tpc[u] /\ state'[u] = state[u]
    /\ entry_thread'[u] = entry_thread[u] /\ listed'[u] = listed[u]
    /\ u \in parked' <=> u \in parked

QueueStays == UNCHANGED <<usage, queueVars, entry_wq, wakerVars, reapVars>>

\* A thread that will find a token, or has died.
Awake(t) == state[t] # "BLOCKED" /\ tpc[t] # "publish"

\* What thread t owes the others when it moves.
MoveOK(t) ==
  /\ ThreadOK(t)'
  /\ entry_wq[t] => tpc'[t] \in {"link", "recheck", "asleep", "remove", "unlink"}
  /\ Closing => tpc'[t] \notin {"publish", "add", "link", "recheck"}
  /\ state'[t] = "BLOCKED" /\ tpc'[t] \in {"link", "recheck", "asleep"} =>
       state[t] = "BLOCKED" /\ tpc[t] \in {"link", "recheck", "asleep"}
  /\ tokens' > 0 => /\ tokens > 0
                    /\ Sleeping(t)' => Sleeping(t)
                    /\ Awake(t) => Awake(t)'
  /\ state[t] = "BLOCKED" /\ state'[t] # "BLOCKED" => Awake(t)'

LEMMA MoveInv ==
    ASSUME WaitInv, NEW t \in Threads, TypeOK', QueueStays, OthersStay(t), MoveOK(t)
    PROVE  WaitInv'
<1>1. /\ TypeOK /\ WakersInv /\ EntriesInv /\ ThreadsInv /\ CloseInv /\ CalledInv
  BY DEF WaitInv
<1>2. /\ usage' = usage /\ head' = head /\ lock' = lock /\ closed' = closed
      /\ entry_wq' = entry_wq /\ wpc' = wpc /\ kind' = kind /\ rest' = rest /\ cur' = cur
      /\ rpc' = rpc /\ victim' = victim /\ freed' = freed
  BY DEF QueueStays, queueVars, wakerVars, reapVars
<1>3. WakersInv'
  BY <1>1, <1>2 DEF WakersInv, WakerOK
<1>4. EntriesInv'
  <2>1. ASSUME NEW u \in Threads PROVE EntryOK(u)'
    <3>1. EntryOK(u) /\ (u # t => tpc'[u] = tpc[u])
      BY <1>1 DEF EntriesInv, OthersStay
    <3>2. entry_wq'[u] => tpc'[u] \in {"link", "recheck", "asleep", "remove", "unlink"}
      BY <1>2, <3>1 DEF EntryOK, MoveOK
    <3>3. QED
      BY <1>2, <3>1, <3>2 DEF EntryOK, Linked, In, Handing
  <2>2. QED
    BY <1>1, <1>2, <2>1 DEF EntriesInv, Distinct
<1>5. ThreadsInv'
  <2>1. ASSUME NEW u \in Threads \ {t} PROVE ThreadOK(u)'
    BY <1>1, <1>2, <2>1 DEF ThreadsInv, ThreadOK, OthersStay, Reaped
  <2>2. ThreadOK(t)'
    BY DEF MoveOK
  <2>3. QED
    BY <1>1, <1>2, <2>1, <2>2 DEF ThreadsInv
<1>6. CloseInv'
  <2>1. Closing' <=> Closing
    BY <1>2 DEF Closing
  <2>2. ASSUME Closing, NEW u \in Threads PROVE tpc'[u] \notin {"publish", "add", "link", "recheck"}
    <3>1. CASE u = t
      BY <2>2, <3>1 DEF MoveOK
    <3>2. CASE u # t
      BY <1>1, <2>2, <3>2 DEF CloseInv, OthersStay
    <3>3. QED
      BY <3>1, <3>2
  <2>3. QED
    BY <1>1, <1>2, <2>1, <2>2 DEF CloseInv
<1>7. \A u \in Threads, w \in Wakers : Reaching(w, u) => Reaching(w, u)'
  BY <1>2 DEF Reaching, In
<1>8. ASSUME NEW u \in Threads PROVE Findable(u)' /\ AllCalled(u)'
  <2>1. Findable(u) /\ AllCalled(u)
    BY <1>1 DEF CalledInv
  <2>2. state'[u] = "BLOCKED" /\ tpc'[u] \in {"link", "recheck", "asleep"} =>
          state[u] = "BLOCKED" /\ tpc[u] \in {"link", "recheck", "asleep"}
    BY DEF OthersStay, MoveOK
  <2>3. Findable(u)'
    BY <1>2, <1>7, <2>1, <2>2 DEF Findable, In
  <2>4. tokens' > 0 /\ Sleeping(u)' => tokens > 0 /\ Sleeping(u)
    BY DEF OthersStay, MoveOK, Sleeping
  <2>5. AllCalled(u)'
    BY <1>2, <1>7, <2>1, <2>4 DEF AllCalled
  <2>6. QED
    BY <2>3, <2>5
<1>9. OneCalled'
  <2>1. SUFFICES ASSUME usage # "all", tokens' > 0, NEW u \in Threads, Sleeping(u)'
                 PROVE  \/ \E w \in Wakers : wpc'[w] \in {"lock", "scan"} /\ kind'[w] # "close"
                        \/ \E w \in Wakers : wpc'[w] = "wake" /\ state'[cur'[w]] = "BLOCKED"
                        \/ \E v \in Threads : Awake(v)'
    BY <1>2 DEF OneCalled, Awake
  <2>2. tokens > 0 /\ Sleeping(u)
    BY <2>1 DEF OthersStay, MoveOK, Sleeping
  <2>3. \/ \E w \in Wakers : wpc[w] \in {"lock", "scan"} /\ kind[w] # "close"
        \/ \E w \in Wakers : wpc[w] = "wake" /\ state[cur[w]] = "BLOCKED"
        \/ \E v \in Threads : Awake(v)
    BY <1>1, <2>1, <2>2 DEF CalledInv, OneCalled, Awake
  <2>4. CASE \E w \in Wakers : wpc[w] \in {"lock", "scan"} /\ kind[w] # "close"
    BY <1>2, <2>4
  <2>5. ASSUME NEW w \in Wakers, wpc[w] = "wake", state[cur[w]] = "BLOCKED"
        PROVE  \/ wpc'[w] = "wake" /\ state'[cur'[w]] = "BLOCKED"
               \/ \E v \in Threads : Awake(v)'
    <3>1. cur[w] \in Threads
      BY <1>1, <2>5 DEF WakersInv, WakerOK
    <3>2. CASE cur[w] = t
      BY <1>2, <2>5, <3>1, <3>2 DEF MoveOK
    <3>3. CASE cur[w] # t
      BY <1>2, <2>5, <3>1, <3>3 DEF OthersStay
    <3>4. QED
      BY <3>2, <3>3
  <2>6. ASSUME NEW v \in Threads, Awake(v) PROVE Awake(v)'
    BY <2>1, <2>6 DEF OthersStay, MoveOK, Awake
  <2>7. QED
    BY <2>3, <2>4, <2>5, <2>6
<1>10. QED
  BY <1>3, <1>4, <1>5, <1>6, <1>8, <1>9 DEF WaitInv, CalledInv

LEMMA LocalStep ==
    ASSUME WaitInv, NEW t \in Threads,
           \/ Test(t) \/ Publish(t) \/ AddThreadLink(t) \/ Recheck(t) \/ Resume(t)
           \/ TimeoutOrSignal(t) \/ Park(t) \/ Unpark(t) \/ wait_queue_remove(t)
           \/ RemoveThreadLink(t) \/ Kill(t)
    PROVE  WaitInv'
<1> USE DEF At, Step, queueVars, entryVars, wakerVars, reapVars
<1>1. TypeOK /\ ThreadOK(t) /\ EntryOK(t)
  BY DEF WaitInv, ThreadsInv, EntriesInv
<1>2. Closing => tpc[t] \notin {"publish", "add", "link", "recheck"}
  BY DEF WaitInv, CloseInv
<1>3. SUFFICES TypeOK' /\ QueueStays /\ OthersStay(t) /\ MoveOK(t)
  BY MoveInv
<1>4. CASE Test(t)
  <2>1. TypeOK' /\ OthersStay(t)
    <3>1. CASE tokens > 0 /\ tokens' = tokens - 1 /\ UNCHANGED tpc
      BY SMT, <1>1, <1>4, <3>1 DEF Test, TypeOK, OthersStay
    <3>2. CASE Step(t, "publish") /\ UNCHANGED tokens
      BY SMT, <1>1, <1>4, <3>2 DEF Test, TypeOK, OthersStay
    <3>3. QED
      BY <1>4, <3>1, <3>2 DEF Test
  <2>2. QueueStays
    BY <1>4 DEF Test, QueueStays
  <2>3. MoveOK(t)
    BY SMT, <1>1, <1>2, <1>4 DEF Test, TypeOK, MoveOK, ThreadOK, Reaped, EntryOK, Sleeping, Awake
  <2>4. QED
    BY <2>1, <2>2, <2>3
<1>5. CASE Publish(t)
  <2>1. TypeOK' /\ OthersStay(t)
    BY SMT, <1>1, <1>5 DEF Publish, TypeOK, OthersStay
  <2>2. QueueStays
    BY <1>5 DEF Publish, QueueStays
  <2>3. MoveOK(t)
    BY SMT, <1>1, <1>2, <1>5 DEF Publish, TypeOK, MoveOK, ThreadOK, Reaped, EntryOK, Sleeping, Awake
  <2>4. QED
    BY <2>1, <2>2, <2>3
<1>6. CASE AddThreadLink(t)
  <2>1. TypeOK' /\ OthersStay(t)
    BY SMT, <1>1, <1>6 DEF AddThreadLink, TypeOK, OthersStay
  <2>2. QueueStays
    BY <1>6 DEF AddThreadLink, QueueStays
  <2>3. MoveOK(t)
    BY SMT, <1>1, <1>2, <1>6 DEF AddThreadLink, TypeOK, MoveOK, ThreadOK, Reaped, EntryOK, Sleeping, Awake
  <2>4. QED
    BY <2>1, <2>2, <2>3
<1>7. CASE Recheck(t)
  <2>1. TypeOK' /\ OthersStay(t)
    <3>1. CASE state' = [state EXCEPT ![t] = "RUNNING"] /\ Step(t, "remove")
      BY SMT, <1>1, <1>7, <3>1 DEF Recheck, TypeOK, OthersStay
    <3>2. CASE Step(t, "asleep") /\ UNCHANGED state
      BY SMT, <1>1, <1>7, <3>2 DEF Recheck, TypeOK, OthersStay
    <3>3. QED
      BY <1>7, <3>1, <3>2 DEF Recheck
  <2>2. QueueStays
    BY <1>7 DEF Recheck, QueueStays
  <2>3. MoveOK(t)
    BY SMT, <1>1, <1>2, <1>7 DEF Recheck, TypeOK, MoveOK, ThreadOK, Reaped, EntryOK, Sleeping, Awake
  <2>4. QED
    BY <2>1, <2>2, <2>3
<1>8. CASE Resume(t)
  <2>1. TypeOK' /\ OthersStay(t)
    BY SMT, <1>1, <1>8 DEF Resume, TypeOK, OthersStay
  <2>2. QueueStays
    BY <1>8 DEF Resume, QueueStays
  <2>3. MoveOK(t)
    BY SMT, <1>1, <1>2, <1>8 DEF Resume, TypeOK, MoveOK, ThreadOK, Reaped, EntryOK, Sleeping, Awake
  <2>4. QED
    BY <2>1, <2>2, <2>3
<1>9. CASE TimeoutOrSignal(t)
  <2>1. TypeOK' /\ OthersStay(t)
    BY SMT, <1>1, <1>9 DEF TimeoutOrSignal, TypeOK, OthersStay
  <2>2. QueueStays
    BY <1>9 DEF TimeoutOrSignal, QueueStays
  <2>3. MoveOK(t)
    BY SMT, <1>1, <1>2, <1>9 DEF TimeoutOrSignal, TypeOK, MoveOK, ThreadOK, Reaped, EntryOK, Sleeping, Awake
  <2>4. QED
    BY <2>1, <2>2, <2>3
<1>10. CASE Park(t)
  <2>1. TypeOK' /\ OthersStay(t)
    BY SMT, <1>1, <1>10 DEF Park, TypeOK, OthersStay
  <2>2. QueueStays
    BY <1>10 DEF Park, QueueStays
  <2>3. MoveOK(t)
    BY SMT, <1>1, <1>2, <1>10 DEF Park, TypeOK, MoveOK, ThreadOK, Reaped, EntryOK, Sleeping, Awake
  <2>4. QED
    BY <2>1, <2>2, <2>3
<1>11. CASE Unpark(t)
  <2>1. TypeOK' /\ OthersStay(t)
    BY SMT, <1>1, <1>11 DEF Unpark, TypeOK, OthersStay
  <2>2. QueueStays
    BY <1>11 DEF Unpark, QueueStays
  <2>3. MoveOK(t)
    BY SMT, <1>1, <1>2, <1>11 DEF Unpark, TypeOK, MoveOK, ThreadOK, Reaped, EntryOK, Sleeping, Awake
  <2>4. QED
    BY <2>1, <2>2, <2>3
<1>12. CASE wait_queue_remove(t)
  <2>1. TypeOK' /\ OthersStay(t)
    BY SMT, <1>1, <1>12 DEF wait_queue_remove, TypeOK, OthersStay
  <2>2. QueueStays
    BY <1>12 DEF wait_queue_remove, QueueStays
  <2>3. MoveOK(t)
    BY SMT, <1>1, <1>2, <1>12 DEF wait_queue_remove, TypeOK, MoveOK, ThreadOK, Reaped, EntryOK, Sleeping, Awake
  <2>4. QED
    BY <2>1, <2>2, <2>3
<1>13. CASE RemoveThreadLink(t)
  <2>1. TypeOK' /\ OthersStay(t)
    BY SMT, <1>1, <1>13 DEF RemoveThreadLink, TypeOK, OthersStay
  <2>2. QueueStays
    BY <1>13 DEF RemoveThreadLink, QueueStays
  <2>3. MoveOK(t)
    BY SMT, <1>1, <1>2, <1>13 DEF RemoveThreadLink, TypeOK, MoveOK, ThreadOK, Reaped, EntryOK, Sleeping, Awake
  <2>4. QED
    BY <2>1, <2>2, <2>3
<1>14. CASE Kill(t)
  <2>1. TypeOK' /\ OthersStay(t)
    BY SMT, <1>1, <1>14 DEF Kill, TypeOK, OthersStay
  <2>2. QueueStays
    BY <1>14 DEF Kill, QueueStays
  <2>3. MoveOK(t)
    BY SMT, <1>1, <1>2, <1>14 DEF Kill, TypeOK, MoveOK, ThreadOK, Reaped, EntryOK, Sleeping, Awake
  <2>4. QED
    BY <2>1, <2>2, <2>3
<1>15. QED
  BY <1>4, <1>5, <1>6, <1>7, <1>8, <1>9, <1>10, <1>11, <1>12, <1>13, <1>14

-----------------------------------------------------------------------------
(* Steps under the queue's lock, taken and released at once *)

\* While nobody holds the lock no waker has an entry in hand.
LEMMA LockFree ==
    ASSUME TypeOK, WakersInv, lock = None, NEW w \in Wakers
    PROVE  /\ wpc[w] \in {"idle", "lock"} /\ rest[w] = <<>>
           /\ \A x : ~In(rest[w], x) /\ ~Handing(w, x) /\ ~Reaching(w, x)
<1>1. WakerOK(w) /\ w # None
  BY WaitConstants DEF WakersInv
<1>2. wpc[w] \notin Holding
  BY <1>1 DEF WakerOK
<1>3. wpc[w] \in {"idle", "lock"}
  BY <1>2 DEF TypeOK, Holding
<1>4. rest[w] = <<>>
  BY <1>1, <1>3 DEF WakerOK
<1>5. QED
  BY <1>3, <1>4, EmptyList DEF Handing, Reaching

\* The wakers do not move, and with them what they say of themselves.
WakersStay == UNCHANGED <<usage, lock, closed, wakerVars>>

\* An entry goes, or comes: of the thread x alone.
Relink(x) ==
  /\ head' \in Seq(Threads) /\ Distinct(head')
  /\ \A u \in Threads \ {x} : /\ In(head', u) <=> In(head, u)
                              /\ entry_wq'[u] = entry_wq[u] /\ tpc'[u] = tpc[u]
  /\ entry_wq'[x] <=> In(head', x)

LEMMA RelinkInv ==
    ASSUME WaitInv, lock = None, NEW x \in Threads, TypeOK', ThreadsInv',
           WakersStay, Relink(x), UNCHANGED <<state, tokens>>,
           In(head', x) => tpc'[x] \in {"link", "recheck", "asleep", "remove", "unlink"},
           closed => head' = <<>>,
           Closing => tpc'[x] \notin {"publish", "add", "link", "recheck"},
           state[x] = "BLOCKED" => tpc'[x] # "asleep" /\ In(head', x),
           tpc'[x] # "publish"
    PROVE  WaitInv'
<1>1. /\ TypeOK /\ WakersInv /\ EntriesInv /\ ThreadsInv /\ CloseInv /\ CalledInv
  BY DEF WaitInv
<1>2. /\ usage' = usage /\ lock' = lock /\ closed' = closed
      /\ wpc' = wpc /\ kind' = kind /\ rest' = rest /\ cur' = cur
  BY DEF WakersStay, wakerVars
<1>3. ASSUME NEW w \in Wakers
      PROVE  /\ wpc[w] \in {"idle", "lock"} /\ rest[w] = <<>>
             /\ \A u : ~In(rest[w], u) /\ ~Handing(w, u) /\ ~Reaching(w, u)
  BY <1>1, LockFree
<1>4. WakersInv'
  <2>1. ASSUME NEW w \in Wakers PROVE WakerOK(w)'
    <3>1. wpc[w] \notin Holding /\ WakerOK(w)
      BY <1>1, <1>3 DEF Holding, WakersInv
    <3>2. QED
      BY <1>2, <3>1 DEF WakerOK, Holding
  <2>2. QED
    BY <2>1 DEF WakersInv
<1>5. EntriesInv'
  <2>1. \A w \in Wakers, u \in Threads : ~In(rest'[w], u) /\ ~Handing(w, u)'
    BY <1>2, <1>3 DEF Handing
  <2>2. ASSUME NEW u \in Threads PROVE EntryOK(u)'
    <3>1. Linked(u)' <=> In(head', u)
      BY <2>1 DEF Linked
    <3>2. CASE u = x
      BY <2>1, <3>1, <3>2 DEF EntryOK, Relink
    <3>3. CASE u # x
      <4>1. EntryOK(u) /\ (Linked(u) <=> In(head, u)) /\ \A w \in Wakers : ~Handing(w, u)
        BY <1>1, <1>3 DEF EntriesInv, Linked
      <4>2. QED
        BY <2>1, <3>1, <3>3, <4>1 DEF EntryOK, Relink
    <3>4. QED
      BY <3>2, <3>3
  <2>3. QED
    BY <1>1, <1>2, <2>2 DEF EntriesInv, Relink, Distinct
<1>6. CloseInv'
  <2>1. Closing' <=> Closing
    BY <1>2 DEF Closing
  <2>2. ASSUME Closing, NEW u \in Threads PROVE tpc'[u] \notin {"publish", "add", "link", "recheck"}
    BY <1>1, <2>2 DEF CloseInv, Relink
  <2>3. QED
    BY <1>1, <1>2, <2>1, <2>2 DEF CloseInv
<1>7. ASSUME NEW u \in Threads PROVE Findable(u)' /\ AllCalled(u)'
  <2>1. Findable(u) /\ AllCalled(u)
    BY <1>1 DEF CalledInv
  <2>2. CASE u = x
    <3>1. Findable(u)'
      BY <2>2 DEF Findable
    <3>2. ~Sleeping(u)'
      BY <2>2 DEF Sleeping
    <3>3. QED
      BY <3>1, <3>2 DEF AllCalled
  <2>3. CASE u # x
    <3>1. (In(head', u) <=> In(head, u)) /\ tpc'[u] = tpc[u]
      BY <2>3 DEF Relink
    <3>2. Findable(u)'
      BY <1>3, <2>1, <3>1 DEF Findable
    <3>3. AllCalled(u)'
      BY <1>2, <1>3, <2>1, <3>1 DEF AllCalled, Sleeping
    <3>4. QED
      BY <3>2, <3>3
  <2>4. QED
    BY <2>2, <2>3
<1>8. OneCalled'
  <2>1. SUFFICES ASSUME usage # "all", tokens > 0, NEW u \in Threads, Sleeping(u)'
                 PROVE  \/ \E w \in Wakers : wpc'[w] \in {"lock", "scan"} /\ kind'[w] # "close"
                        \/ \E v \in Threads : Awake(v)'
    BY <1>2 DEF OneCalled, Awake
  <2>2. u # x /\ Sleeping(u)
    BY <2>1 DEF Sleeping, Relink
  <2>3. \/ \E w \in Wakers : wpc[w] \in {"lock", "scan"} /\ kind[w] # "close"
        \/ \E v \in Threads : Awake(v)
    BY <1>1, <1>3, <2>1, <2>2 DEF CalledInv, OneCalled, Awake
  <2>4. ASSUME NEW v \in Threads, Awake(v) PROVE Awake(v)'
    BY <2>4 DEF Relink, Awake
  <2>5. QED
    BY <1>2, <2>3, <2>4
<1>9. QED
  BY <1>4, <1>5, <1>6, <1>7, <1>8 DEF WaitInv, CalledInv

LEMMA AddStep ==
    ASSUME WaitInv, NEW t \in Threads, wait_queue_add(t)
    PROVE  WaitInv'
<1> USE DEF At, Step, entryVars, wakerVars, reapVars
<1>1. TypeOK /\ WakersInv /\ EntryOK(t) /\ ThreadsInv /\ Distinct(head)
  BY DEF WaitInv, EntriesInv
<1>2. tpc[t] = "add" /\ lock = None /\ state[t] # "DEAD" /\ ~Closing
  BY DEF wait_queue_add, WaitInv, CloseInv
<1>3. ~In(head, t)
  BY <1>1, <1>2 DEF EntryOK, Linked
<1>4. head \in Seq(Threads) /\ (head' = Append(head, t) \/ head' = <<t>> \o head)
  BY <1>1 DEF TypeOK, wait_queue_add
<1>5. /\ head' \in Seq(Threads) /\ Distinct(head')
      /\ \A x : In(head', x) <=> In(head, x) \/ x = t
  BY <1>1, <1>3, <1>4, AddEntry
<1>6. /\ entry_wq' = [entry_wq EXCEPT ![t] = TRUE] /\ tpc' = [tpc EXCEPT ![t] = "link"]
      /\ UNCHANGED <<usage, state, lock, closed, entry_thread, listed, tokens, events,
                     wakerVars, reapVars, parked>>
  BY DEF wait_queue_add
<1>7. TypeOK'
  BY SMT, <1>1, <1>5, <1>6 DEF TypeOK
<1>8. /\ entry_wq'[t] = TRUE /\ tpc'[t] = "link"
      /\ \A u \in Threads \ {t} : entry_wq'[u] = entry_wq[u] /\ tpc'[u] = tpc[u]
  BY SMT, <1>1, <1>6 DEF TypeOK
<1>9. ThreadsInv'
  <2>1. ASSUME NEW u \in Threads \ {t} PROVE ThreadOK(u)'
    BY <1>1, <1>6, <1>8, <2>1 DEF ThreadsInv, ThreadOK, Reaped
  <2>2. ThreadOK(t)'
    BY <1>1, <1>2, <1>6, <1>8 DEF ThreadsInv, ThreadOK, Reaped
  <2>3. QED
    BY <1>1, <1>6, <2>1, <2>2 DEF ThreadsInv
<1>10. WakersStay /\ Relink(t) /\ ~closed
  BY <1>2, <1>5, <1>6, <1>8 DEF WakersStay, Relink, Closing
<1>11. QED
  BY <1>2, <1>5, <1>6, <1>7, <1>8, <1>9, <1>10, RelinkInv

\* The thread, or the reaper for it, unlinks the entry of x.
LEMMA UnlinkInv ==
    ASSUME WaitInv, NEW x \in Threads, lock = None, state[x] # "BLOCKED",
           tpc'[x] = tpc[x] \/ tpc'[x] = "unlist", tpc[x] # "publish",
           \A u \in Threads \ {x} : tpc'[u] = tpc[u],
           head' = Unlink(head, x), entry_wq' = [entry_wq EXCEPT ![x] = FALSE],
           UNCHANGED <<usage, state, lock, closed, tokens, events, wakerVars>>,
           head' \in Seq(Threads) => TypeOK', ThreadsInv'
    PROVE  WaitInv'
<1>1. TypeOK /\ WakersInv /\ CloseInv /\ Distinct(head)
  BY DEF WaitInv, EntriesInv
<1>2. head \in Seq(Threads)
  BY <1>1 DEF TypeOK
<1>3. /\ head' \in Seq(Threads) /\ Distinct(head')
      /\ \A u : In(head', u) <=> In(head, u) /\ u # x
  BY <1>1, <1>2, UnlinkEntry
<1>4. entry_wq'[x] = FALSE /\ \A u \in Threads \ {x} : entry_wq'[u] = entry_wq[u]
  BY <1>1 DEF TypeOK
<1>5. Relink(x) /\ WakersStay
  BY <1>3, <1>4 DEF Relink, WakersStay, wakerVars
<1>6. closed => head' = <<>>
  <2>1. closed => head = <<>>
    BY <1>1 DEF CloseInv
  <2>2. head = <<>> => Unlink(head, x) = <<>>
    BY EmptyList DEF Unlink, In
  <2>3. QED
    BY <2>1, <2>2
<1>7. Closing => tpc'[x] \notin {"publish", "add", "link", "recheck"}
  BY <1>1 DEF CloseInv
<1>8. ~In(head', x) /\ tpc'[x] # "publish"
  BY <1>3
<1>9. QED
  BY <1>3, <1>5, <1>6, <1>7, <1>8, RelinkInv

LEMMA RemoveStep ==
    ASSUME WaitInv, NEW t \in Threads, RemoveUnlink(t)
    PROVE  WaitInv'
<1> USE DEF At, Step, entryVars, wakerVars, reapVars
<1>1. TypeOK /\ ThreadsInv
  BY DEF WaitInv
<1>2. tpc[t] = "unlink" /\ lock = None /\ state[t] # "DEAD"
  BY DEF RemoveUnlink
<1>3. /\ head' = Unlink(head, t) /\ entry_wq' = [entry_wq EXCEPT ![t] = FALSE]
      /\ tpc' = [tpc EXCEPT ![t] = "unlist"]
      /\ UNCHANGED <<usage, state, lock, closed, entry_thread, listed, tokens, events,
                     wakerVars, reapVars, parked>>
  BY DEF RemoveUnlink
<1>4. head' \in Seq(Threads) => TypeOK'
  BY SMT, <1>1, <1>3 DEF TypeOK
<1>5. /\ entry_wq'[t] = FALSE /\ tpc'[t] = "unlist"
      /\ \A u \in Threads \ {t} : entry_wq'[u] = entry_wq[u] /\ tpc'[u] = tpc[u]
  BY SMT, <1>1, <1>3 DEF TypeOK
<1>6. ThreadsInv'
  <2>1. ASSUME NEW u \in Threads \ {t} PROVE ThreadOK(u)'
    BY <1>1, <1>3, <1>5, <2>1 DEF ThreadsInv, ThreadOK, Reaped
  <2>2. ThreadOK(t)'
    BY <1>1, <1>2, <1>3, <1>5 DEF ThreadsInv, ThreadOK, Reaped
  <2>3. QED
    BY <1>1, <1>3, <2>1, <2>2 DEF ThreadsInv
<1>7. state[t] # "BLOCKED"
  BY <1>1, <1>2 DEF ThreadsInv, ThreadOK
<1>8. QED
  BY <1>2, <1>3, <1>4, <1>5, <1>6, <1>7, UnlinkInv

LEMMA CleanupStep ==
    ASSUME WaitInv, CleanupUnlink
    PROVE  WaitInv'
<1> USE DEF wakerVars, reapVars
<1>1. TypeOK /\ ThreadsInv
  BY DEF WaitInv
<1>2. rpc = "unlink" /\ lock = None
  BY DEF CleanupUnlink
<1>3. PICK x \in Threads \ freed : x = victim
  BY <1>1, <1>2 DEF ThreadsInv
<1>4. ThreadOK(x) /\ state[x] = "DEAD"
  BY <1>1, <1>2, <1>3 DEF ThreadsInv, ThreadOK, Reaped
<1>5. /\ head' = Unlink(head, x) /\ entry_wq' = [entry_wq EXCEPT ![x] = FALSE]
      /\ entry_thread' = [entry_thread EXCEPT ![x] = FALSE] /\ rpc' = "free"
      /\ UNCHANGED <<usage, state, lock, closed, listed, tokens, events, tpc,
                     wakerVars, victim, freed, parked>>
  BY <1>3 DEF CleanupUnlink
<1>6. head' \in Seq(Threads) => TypeOK'
  BY SMT, <1>1, <1>5 DEF TypeOK
<1>7. /\ entry_wq'[x] = FALSE /\ entry_thread'[x] = FALSE
      /\ \A u \in Threads \ {x} : entry_wq'[u] = entry_wq[u] /\ entry_thread'[u] = entry_thread[u]
  BY SMT, <1>1, <1>5 DEF TypeOK
<1>8. ThreadsInv'
  <2>1. ASSUME NEW u \in Threads \ {x} PROVE ThreadOK(u)'
    BY <1>1, <1>2, <1>3, <1>5, <1>7, <2>1 DEF ThreadsInv, ThreadOK, Reaped
  <2>2. ThreadOK(x)'
    BY <1>2, <1>3, <1>4, <1>5, <1>7 DEF ThreadOK, Reaped
  <2>3. QED
    BY <1>1, <1>2, <1>3, <1>5, <2>1, <2>2 DEF ThreadsInv
<1>9. tpc[x] # "publish"
  BY <1>4 DEF ThreadOK
<1>10. QED
  BY <1>2, <1>4, <1>5, <1>6, <1>8, <1>9, UnlinkInv

-----------------------------------------------------------------------------
(* The reaper's other steps *)

LEMMA ReaperInv ==
    ASSUME WaitInv, TypeOK', ThreadsInv',
           UNCHANGED <<usage, state, queueVars, entry_wq, tokens, tpc, wakerVars>>
    PROVE  WaitInv'
<1> USE DEF queueVars, wakerVars
<1>1. WakersInv'
  BY DEF WaitInv, WakersInv, WakerOK
<1>2. EntriesInv'
  <2>1. ASSUME NEW u \in Threads, EntryOK(u) PROVE EntryOK(u)'
    BY <2>1 DEF EntryOK, Linked, In, Handing
  <2>2. QED
    BY <2>1 DEF WaitInv, EntriesInv, Distinct
<1>3. CloseInv'
  BY DEF WaitInv, CloseInv, Closing
<1>4. ASSUME NEW u \in Threads, Findable(u) PROVE Findable(u)'
  BY <1>4 DEF Findable, Reaching, In
<1>5. ASSUME NEW u \in Threads, AllCalled(u) PROVE AllCalled(u)'
  BY <1>5 DEF AllCalled, Sleeping, Reaching, In
<1>6. OneCalled => OneCalled'
  BY DEF OneCalled, Sleeping
<1>7. QED
  BY <1>1, <1>2, <1>3, <1>4, <1>5, <1>6 DEF WaitInv, CalledInv

LEMMA ReaperStep ==
    ASSUME WaitInv, Reaper
    PROVE  WaitInv'
<1> USE DEF queueVars, entryVars, wakerVars
<1>1. TypeOK /\ ThreadsInv /\ EntriesInv
  BY DEF WaitInv
<1>2. ASSUME NEW t \in Threads, ReapTakeList(t) PROVE WaitInv'
  <2>1. TypeOK'
    BY SMT, <1>1, <1>2 DEF TypeOK, ReapTakeList
  <2>2. /\ rpc = "idle" /\ state[t] = "DEAD" /\ t \notin freed /\ victim' = t
        /\ rpc' = IF listed[t] THEN "entry" ELSE "free"
        /\ UNCHANGED <<usage, state, queueVars, entry_wq, entry_thread, tokens, tpc,
                       wakerVars, freed, parked>>
    BY <1>2 DEF ReapTakeList
  <2>3. \A u \in Threads \ {t} : listed'[u] = listed[u]
    BY SMT, <1>1, <1>2 DEF TypeOK, ReapTakeList
  <2>4. ASSUME NEW u \in Threads \ {t} PROVE ThreadOK(u)'
    BY <1>1, <2>2, <2>3, <2>4 DEF ThreadsInv, ThreadOK, Reaped
  <2>5. ThreadOK(t)'
    <3>1. ThreadOK(t) /\ EntryOK(t) /\ ~Reaped(t)
      BY <1>1, <2>2 DEF ThreadsInv, EntriesInv, Reaped
    <3>2. ~listed[t] => ~entry_wq[t] \/ tpc[t] = "link"
      BY <3>1 DEF ThreadOK, EntryOK
    <3>3. QED
      BY <2>2, <3>1, <3>2 DEF ThreadOK, Reaped
  <2>6. ThreadsInv'
    BY <2>2, <2>4, <2>5 DEF ThreadsInv
  <2>7. QED
    BY <2>1, <2>2, <2>6, ReaperInv
<1>3. CASE wait_queue_cleanup_thread
  <2>1. TypeOK'
    BY SMT, <1>1, <1>3 DEF TypeOK, wait_queue_cleanup_thread
  <2>2. /\ rpc = "entry" /\ rpc' = IF entry_wq[victim] THEN "unlink" ELSE "free"
        /\ UNCHANGED <<usage, state, queueVars, entryVars, tokens, tpc, wakerVars, victim,
                       freed, parked>>
    BY <1>3 DEF wait_queue_cleanup_thread
  <2>3. ASSUME NEW u \in Threads PROVE ThreadOK(u)'
    BY <1>1, <2>2, <2>3 DEF ThreadsInv, ThreadOK, Reaped
  <2>4. ThreadsInv'
    BY <1>1, <2>2, <2>3 DEF ThreadsInv
  <2>5. QED
    BY <2>1, <2>2, <2>4, ReaperInv
<1>4. CASE CleanupUnlink
  BY <1>4, CleanupStep
<1>5. CASE ReapFree
  <2>1. victim \in Threads \ freed
    BY <1>1, <1>5 DEF ReapFree, ThreadsInv
  <2>2. TypeOK'
    BY SMT, <1>1, <1>5, <2>1 DEF TypeOK, ReapFree
  <2>3. /\ rpc = "free" /\ freed' = freed \cup {victim} /\ rpc' = "idle"
        /\ UNCHANGED <<usage, state, queueVars, entryVars, tokens, tpc, wakerVars, parked>>
    BY <1>5 DEF ReapFree
  <2>4. ASSUME NEW u \in Threads PROVE ThreadOK(u)'
    BY <1>1, <2>3, <2>4 DEF ThreadsInv, ThreadOK, Reaped
  <2>5. ThreadsInv'
    BY <2>3, <2>4 DEF ThreadsInv
  <2>6. QED
    BY <2>2, <2>3, <2>5, ReaperInv
<1>6. QED
  BY <1>2, <1>3, <1>4, <1>5 DEF Reaper

-----------------------------------------------------------------------------
(* Steps of the waker that holds the lock *)

\* The other wakers have nothing in hand.
LEMMA Alone ==
    ASSUME TypeOK, WakersInv, NEW w \in Wakers, lock \in {None, w}, NEW u \in Wakers \ {w}
    PROVE  /\ wpc[u] \in {"idle", "lock"} /\ rest[u] = <<>>
           /\ \A x : ~In(rest[u], x) /\ ~Handing(u, x) /\ ~Reaching(u, x)
<1>1. WakerOK(u) /\ lock # u
  BY WaitConstants DEF WakersInv
<1>2. wpc[u] \notin Holding
  BY <1>1 DEF WakerOK
<1>3. wpc[u] \in {"idle", "lock"}
  BY <1>2 DEF TypeOK, Holding
<1>4. rest[u] = <<>>
  BY <1>1, <1>3 DEF WakerOK
<1>5. QED
  BY <1>3, <1>4, EmptyList DEF Handing, Reaching

OtherWakersStay(w) ==
  \A u \in Wakers \ {w} :
    wpc'[u] = wpc[u] /\ kind'[u] = kind[u] /\ rest'[u] = rest[u] /\ cur'[u] = cur[u]

\* The invariants, where only w can have an entry in hand.
EntryBy(w, t) ==
  /\ In(head, t) \/ In(rest[w], t) => entry_wq[t]
  /\ Handing(w, t) => entry_wq[t] /\ ~In(head, t) /\ ~In(rest[w], t)
  /\ entry_wq[t] => In(head, t) \/ In(rest[w], t) \/ Handing(w, t)
  /\ entry_wq[t] => tpc[t] \in {"link", "recheck", "asleep", "remove", "unlink"}

FindableBy(w, t) ==
  state[t] = "BLOCKED" /\ tpc[t] \in {"link", "recheck", "asleep"} => In(head, t) \/ Reaching(w, t)

\* Somebody else waits for the lock, to wake.
Coming(w) == \E u \in Wakers \ {w} : wpc[u] = "lock" /\ kind[u] # "close"

AllCalledBy(w, t) ==
  usage = "all" /\ tokens > 0 /\ Sleeping(t)
    => wpc[w] = "lock" \/ (\E u \in Wakers \ {w} : wpc[u] = "lock") \/ Reaching(w, t)

OneCalledBy(w) ==
  usage # "all" /\ tokens > 0 /\ (\E t \in Threads : Sleeping(t))
    => \/ wpc[w] \in {"lock", "scan"} /\ kind[w] # "close"
       \/ Coming(w)
       \/ wpc[w] = "wake" /\ state[cur[w]] = "BLOCKED"
       \/ \E t \in Threads : Awake(t)

LEMMA ByHolder ==
    ASSUME WaitInv, NEW w \in Wakers, lock \in {None, w}
    PROVE  /\ \A t \in Threads : EntryBy(w, t) /\ FindableBy(w, t) /\ AllCalledBy(w, t)
           /\ OneCalledBy(w)
<1>1. TypeOK /\ WakersInv /\ EntriesInv /\ CalledInv
  BY DEF WaitInv
<1>2. \A u \in Wakers \ {w} :
        /\ wpc[u] \in {"idle", "lock"}
        /\ \A x : ~In(rest[u], x) /\ ~Handing(u, x) /\ ~Reaching(u, x)
  BY <1>1, Alone
<1>3. ASSUME NEW t \in Threads PROVE EntryBy(w, t)
  <2>1. EntryOK(t)
    BY <1>1 DEF EntriesInv
  <2>2. Linked(t) <=> In(head, t) \/ In(rest[w], t)
    BY <1>2 DEF Linked
  <2>3. QED
    BY <1>2, <2>1, <2>2 DEF EntryOK, EntryBy
<1>4. ASSUME NEW t \in Threads PROVE FindableBy(w, t) /\ AllCalledBy(w, t)
  <2>1. Findable(t) /\ AllCalled(t)
    BY <1>1 DEF CalledInv
  <2>2. FindableBy(w, t)
    BY <1>2, <2>1 DEF Findable, FindableBy
  <2>3. AllCalledBy(w, t)
    BY <1>2, <2>1 DEF AllCalled, AllCalledBy
  <2>4. QED
    BY <2>2, <2>3
<1>5. OneCalledBy(w)
  BY <1>1, <1>2 DEF CalledInv, OneCalled, OneCalledBy, Coming, Awake
<1>6. QED
  BY <1>3, <1>4, <1>5

\* A thread is woken at most, and an entry's back-pointer cleared.
LEMMA WakerThreads ==
    ASSUME ThreadsInv, UNCHANGED <<tpc, parked, listed, entry_thread, reapVars>>,
           \A t \in Threads : /\ entry_wq'[t] => entry_wq[t]
                              /\ \/ state'[t] = state[t]
                                 \/ state[t] = "BLOCKED" /\ state'[t] = "RUNNING"
    PROVE  ThreadsInv'
<1>1. ASSUME NEW t \in Threads PROVE ThreadOK(t)'
  <2>1. ThreadOK(t) /\ (state'[t] = "BLOCKED" => state[t] = "BLOCKED")
                    /\ (state'[t] = "DEAD" <=> state[t] = "DEAD")
    BY DEF ThreadsInv
  <2>2. QED
    BY <2>1 DEF ThreadOK, Reaped, reapVars
<1>2. QED
  BY <1>1 DEF ThreadsInv, reapVars

\* A step of w that ends with w holding the lock.
HolderStep(w) ==
  /\ lock \in {None, w} /\ lock' = w
  /\ wpc[w] # "idle" /\ wpc'[w] \in Holding /\ kind'[w] = kind[w]
  /\ OtherWakersStay(w)
  /\ UNCHANGED <<usage, closed, tpc, parked, listed, entry_thread, reapVars>>
  /\ \A t \in Threads : /\ entry_wq'[t] => entry_wq[t]
                        /\ \/ state'[t] = state[t]
                           \/ state[t] = "BLOCKED" /\ state'[t] = "RUNNING"

LEMMA HolderInv ==
    ASSUME WaitInv, NEW w \in Wakers, TypeOK', HolderStep(w), WakerOK(w)',
           Distinct(head'), Distinct(rest'[w]),
           \A t \in Threads : EntryBy(w, t)' /\ FindableBy(w, t)' /\ AllCalledBy(w, t)',
           OneCalledBy(w)'
    PROVE  WaitInv'
<1>1. /\ TypeOK /\ WakersInv /\ EntriesInv /\ ThreadsInv /\ CloseInv /\ CalledInv
  BY DEF WaitInv
<1>2. /\ lock \in {None, w} /\ lock' = w /\ usage' = usage /\ closed' = closed /\ tpc' = tpc
      /\ wpc[w] # "idle" /\ wpc'[w] # "idle" /\ kind'[w] = kind[w] /\ OtherWakersStay(w)
  BY DEF HolderStep, Holding
<1>3. WakersInv'
  <2>1. ASSUME NEW u \in Wakers \ {w} PROVE WakerOK(u)'
    <3>1. WakerOK(u) /\ wpc[u] \in {"idle", "lock"} /\ lock' # u
      BY <1>1, <1>2, Alone DEF WakersInv
    <3>2. wpc'[u] = wpc[u] /\ kind'[u] = kind[u] /\ rest'[u] = rest[u] /\ cur'[u] = cur[u]
      BY <1>2 DEF OtherWakersStay
    <3>3. wpc'[u] \notin Holding
      BY <3>1, <3>2 DEF Holding
    <3>4. QED
      BY <1>2, <3>1, <3>2, <3>3 DEF WakerOK
  <2>2. QED
    BY <2>1 DEF WakersInv
<1>4. \A u \in Wakers \ {w} :
        /\ wpc'[u] \in {"idle", "lock"}
        /\ \A x : ~In(rest'[u], x) /\ ~Handing(u, x)' /\ ~Reaching(u, x)'
  <2>1. \A u \in Wakers \ {w} :
          /\ wpc[u] \in {"idle", "lock"} /\ rest[u] = <<>>
          /\ wpc'[u] = wpc[u] /\ rest'[u] = rest[u]
    BY <1>1, <1>2, Alone DEF OtherWakersStay
  <2>2. QED
    BY <2>1, EmptyList DEF Handing, Reaching
<1>5. EntriesInv'
  <2>1. ASSUME NEW t \in Threads PROVE EntryOK(t)'
    <3>1. Linked(t)' <=> In(head', t) \/ In(rest'[w], t)
      BY <1>4 DEF Linked
    <3>2. EntryBy(w, t)'
      OBVIOUS
    <3>3. QED
      BY <1>4, <3>1, <3>2 DEF EntryOK, EntryBy
  <2>2. ASSUME NEW u \in Wakers PROVE Distinct(rest'[u])
    <3>1. CASE u = w
      BY <3>1
    <3>2. CASE u # w
      BY <1>1, <1>2, <3>2 DEF EntriesInv, OtherWakersStay
    <3>3. QED
      BY <3>1, <3>2
  <2>3. QED
    BY <2>1, <2>2 DEF EntriesInv, Distinct
<1>6. ThreadsInv'
  BY <1>1, WakerThreads DEF HolderStep
<1>7. CloseInv'
  <2>1. ~closed /\ (Closing' => Closing)
    BY <1>1, <1>2 DEF CloseInv, Closing, OtherWakersStay
  <2>2. ASSUME NEW a \in Wakers, NEW b \in Wakers, kind'[a] = "close", b # a PROVE wpc'[b] = "idle"
    <3>1. a = w
      BY <1>1, <1>2, <2>2 DEF CloseInv, OtherWakersStay
    <3>2. QED
      BY <1>1, <1>2, <2>2, <3>1 DEF CloseInv, OtherWakersStay
  <2>3. QED
    BY <1>1, <1>2, <2>1, <2>2 DEF CloseInv
<1>8. ASSUME NEW t \in Threads PROVE Findable(t)' /\ AllCalled(t)'
  <2>1. FindableBy(w, t)' /\ AllCalledBy(w, t)'
    OBVIOUS
  <2>2. Findable(t)'
    BY <2>1 DEF Findable, FindableBy
  <2>3. AllCalled(t)'
    BY <2>1 DEF AllCalled, AllCalledBy
  <2>4. QED
    BY <2>2, <2>3
<1>9. OneCalled'
  BY DEF OneCalled, OneCalledBy, Coming, Awake
<1>10. QED
  BY <1>3, <1>5, <1>6, <1>7, <1>8, <1>9 DEF WaitInv, CalledInv

\* What the lemmas about the steps of the holder start from.
LEMMA HolderFacts ==
    ASSUME WaitInv, NEW w \in Wakers, wpc[w] \in Holding
    PROVE  /\ TypeOK /\ WakerOK(w) /\ lock = w /\ Distinct(head) /\ Distinct(rest[w])
           /\ \A t \in Threads : EntryBy(w, t) /\ FindableBy(w, t) /\ AllCalledBy(w, t)
           /\ \A t \in Threads : ThreadOK(t)
           /\ OneCalledBy(w)
<1>1. TypeOK /\ WakerOK(w) /\ Distinct(head) /\ Distinct(rest[w]) /\ \A t \in Threads : ThreadOK(t)
  BY DEF WaitInv, WakersInv, EntriesInv, ThreadsInv
<1>2. lock = w
  BY <1>1 DEF WakerOK
<1>3. QED
  BY <1>1, <1>2, ByHolder

LEMMA WakeLockStep ==
    ASSUME WaitInv, NEW w \in Wakers, WakeLock(w)
    PROVE  WaitInv'
<1>1. TypeOK /\ WakersInv /\ WakerOK(w) /\ Distinct(head)
  BY DEF WaitInv, WakersInv, EntriesInv
<1>2. lock = None /\ wpc[w] = "lock" /\ lock' = w
  BY DEF WakeLock
<1>3. /\ \A t \in Threads : EntryBy(w, t) /\ FindableBy(w, t) /\ AllCalledBy(w, t)
      /\ OneCalledBy(w)
  BY <1>2, ByHolder
<1>4. rest[w] = <<>> /\ \A t : ~In(rest[w], t) /\ ~Handing(w, t) /\ ~Reaching(w, t)
  BY <1>1, <1>2, LockFree
<1>5. UNCHANGED <<usage, state, closed, entry_wq, entry_thread, listed, tokens, events, tpc, kind,
                  cur, reapVars, parked>>
  BY DEF WakeLock, entryVars
<1>6. kind[w] \in {"all", "close", "one", "handoff"}
  BY <1>1 DEF TypeOK
<1>7. CASE kind[w] \in {"all", "close"}
  <2>1. /\ rest' = [rest EXCEPT ![w] = head] /\ head' = <<>>
        /\ wpc' = [wpc EXCEPT ![w] = "next"]
    BY <1>7 DEF WakeLock
  <2>2. TypeOK'
    <3>1. head' \in Seq(Threads) /\ rest' \in [Wakers -> Seq(Threads)] /\ lock' \in Wakers
      BY SMT, <1>1, <1>2, <2>1, EmptyList DEF TypeOK
    <3>2. wpc' \in [Wakers -> {"idle", "lock", "next", "load", "scan", "wake", "clear", "unlock"}]
      BY SMT, <1>1, <2>1 DEF TypeOK
    <3>3. QED
      BY <1>1, <1>5, <3>1, <3>2 DEF TypeOK, reapVars
  <2>3. /\ rest'[w] = head /\ wpc'[w] = "next"
        /\ \A u \in Wakers \ {w} : rest'[u] = rest[u] /\ wpc'[u] = wpc[u]
    BY <1>1, <2>1 DEF TypeOK
  <2>4. HolderStep(w)
    BY <1>2, <1>5, <2>3 DEF HolderStep, Holding, OtherWakersStay
  <2>5. WakerOK(w)'
    BY <1>1, <1>2, <1>5, <1>7, <2>1, <2>3 DEF WakerOK, Holding
  <2>6. Distinct(head') /\ Distinct(rest'[w]) /\ \A t : ~In(head', t)
    BY <1>1, <2>1, <2>3, EmptyList
  <2>7. ASSUME NEW t \in Threads PROVE EntryBy(w, t)' /\ FindableBy(w, t)' /\ AllCalledBy(w, t)'
    <3>1. EntryBy(w, t)'
      BY <1>3, <1>4, <1>5, <2>3, <2>6 DEF EntryBy, Handing
    <3>2. In(head, t) => Reaching(w, t)'
      BY <2>3 DEF Reaching
    <3>3. FindableBy(w, t) /\ ~Reaching(w, t)
      BY <1>3, <1>4
    <3>4. QED
      BY <1>5, <3>1, <3>2, <3>3 DEF FindableBy, AllCalledBy, Sleeping
  <2>8. OneCalledBy(w)'
    <3>1. usage # "all" => kind[w] = "close"
      BY <1>1, <1>7 DEF WakerOK
    <3>2. Coming(w) => Coming(w)'
      BY <1>5, <2>3 DEF Coming
    <3>3. QED
      BY <1>2, <1>3, <1>5, <3>1, <3>2 DEF OneCalledBy, Sleeping, Awake
  <2>9. QED
    BY <2>2, <2>4, <2>5, <2>6, <2>7, <2>8, HolderInv
<1>8. CASE kind[w] \notin {"all", "close"}
  <2>1. /\ rest' = [rest EXCEPT ![w] = <<>>] /\ head' = head
        /\ wpc' = [wpc EXCEPT ![w] = "scan"]
    BY <1>8 DEF WakeLock
  <2>2. TypeOK'
    <3>1. head' \in Seq(Threads) /\ rest' \in [Wakers -> Seq(Threads)] /\ lock' \in Wakers
      BY SMT, <1>1, <1>2, <2>1, EmptyList DEF TypeOK
    <3>2. wpc' \in [Wakers -> {"idle", "lock", "next", "load", "scan", "wake", "clear", "unlock"}]
      BY SMT, <1>1, <2>1 DEF TypeOK
    <3>3. QED
      BY <1>1, <1>5, <3>1, <3>2 DEF TypeOK, reapVars
  <2>3. /\ rest'[w] = rest[w] /\ wpc'[w] = "scan"
        /\ \A u \in Wakers \ {w} : rest'[u] = rest[u] /\ wpc'[u] = wpc[u]
    BY <1>1, <1>4, <2>1 DEF TypeOK
  <2>4. HolderStep(w)
    BY <1>2, <1>5, <2>3 DEF HolderStep, Holding, OtherWakersStay
  <2>5. WakerOK(w)'
    BY <1>1, <1>2, <1>4, <1>5, <1>6, <1>8, <2>1, <2>3 DEF WakerOK, Holding
  <2>6. Distinct(head') /\ Distinct(rest'[w])
    BY <1>1, <1>4, <2>1, <2>3, EmptyList
  <2>7. usage # "all" /\ kind'[w] # "close"
    BY <1>1, <1>5, <1>8 DEF WakerOK
  <2>8. ASSUME NEW t \in Threads PROVE EntryBy(w, t)' /\ FindableBy(w, t)' /\ AllCalledBy(w, t)'
    <3>1. EntryBy(w, t)'
      BY <1>3, <1>4, <1>5, <2>1, <2>3 DEF EntryBy, Handing
    <3>2. FindableBy(w, t)'
      BY <1>3, <1>4, <1>5, <2>1 DEF FindableBy
    <3>3. QED
      BY <1>5, <2>7, <3>1, <3>2 DEF AllCalledBy
  <2>9. OneCalledBy(w)'
    BY <2>3, <2>7 DEF OneCalledBy
  <2>10. QED
    BY <2>2, <2>4, <2>5, <2>6, <2>8, <2>9, HolderInv
<1>9. QED
  BY <1>7, <1>8

LEMMA WakeAllStep ==
    ASSUME WaitInv, NEW w \in Wakers, wait_queue_wake_all(w)
    PROVE  WaitInv'
<1>1. wpc[w] = "next" /\ wpc[w] \in Holding
  BY DEF wait_queue_wake_all, Holding
<1>2. /\ TypeOK /\ WakerOK(w) /\ lock = w /\ Distinct(head) /\ Distinct(rest[w])
      /\ \A t \in Threads : EntryBy(w, t) /\ FindableBy(w, t) /\ AllCalledBy(w, t)
      /\ OneCalledBy(w)
  BY <1>1, HolderFacts
<1>3. UNCHANGED <<usage, state, queueVars, entry_thread, listed, tokens, events, tpc, kind,
                  reapVars, parked>>
  BY DEF wait_queue_wake_all
<1>4. kind[w] \in {"all", "close"} /\ head = <<>> /\ \A t : ~In(head, t)
  BY <1>1, <1>2, EmptyList DEF WakerOK
<1>5. \A t : ~Handing(w, t) /\ (Reaching(w, t) <=> In(rest[w], t))
  BY <1>1 DEF Handing, Reaching
<1>6. CASE rest[w] = <<>>
  <2>1. wpc' = [wpc EXCEPT ![w] = "unlock"] /\ UNCHANGED <<entry_wq, rest, cur>>
    BY <1>6 DEF wait_queue_wake_all
  <2>2. TypeOK'
    BY SMT, <1>2, <1>3, <2>1 DEF TypeOK, reapVars, queueVars
  <2>3. wpc'[w] = "unlock" /\ \A u \in Wakers \ {w} : wpc'[u] = wpc[u]
    BY <1>2, <2>1 DEF TypeOK
  <2>4. HolderStep(w)
    BY <1>1, <1>2, <1>3, <2>1, <2>3 DEF HolderStep, Holding, OtherWakersStay, queueVars
  <2>5. WakerOK(w)'
    BY <1>1, <1>2, <1>3, <1>4, <1>6, <2>1, <2>3 DEF WakerOK, Holding, queueVars
  <2>6. Distinct(head') /\ Distinct(rest'[w]) /\ \A t : ~In(rest[w], t)
    BY <1>2, <1>3, <1>6, <2>1, EmptyList DEF queueVars
  <2>7. ASSUME NEW t \in Threads PROVE EntryBy(w, t)' /\ FindableBy(w, t)' /\ AllCalledBy(w, t)'
    <3>1. EntryBy(w, t)'
      BY <1>2, <1>3, <1>5, <2>1, <2>3 DEF EntryBy, Handing, queueVars
    <3>2. FindableBy(w, t)'
      BY <1>2, <1>3, <1>5, <2>6 DEF FindableBy, queueVars
    <3>3. AllCalledBy(w, t)'
      BY <1>1, <1>2, <1>3, <1>5, <2>3, <2>6 DEF AllCalledBy, Sleeping
    <3>4. QED
      BY <3>1, <3>2, <3>3
  <2>8. OneCalledBy(w)'
    <3>1. Coming(w) => Coming(w)'
      BY <1>3, <2>3 DEF Coming
    <3>2. QED
      BY <1>1, <1>2, <1>3, <3>1 DEF OneCalledBy, Sleeping, Awake
  <2>9. QED
    BY <2>2, <2>4, <2>5, <2>6, <2>7, <2>8, HolderInv
<1>7. CASE rest[w] # <<>>
  <2>1. /\ cur' = [cur EXCEPT ![w] = Head(rest[w])] /\ rest' = [rest EXCEPT ![w] = Tail(rest[w])]
        /\ entry_wq' = [entry_wq EXCEPT ![Head(rest[w])] = FALSE]
        /\ wpc' = [wpc EXCEPT ![w] = "load"]
    BY <1>7 DEF wait_queue_wake_all
  <2>2. PICK s \in Seq(Threads) : s = rest[w] /\ s # <<>> /\ Distinct(s)
    BY <1>2, <1>7 DEF TypeOK
  <2>3. PICK x \in Threads, r \in Seq(Threads) :
          /\ x = Head(s) /\ r = Tail(s) /\ Distinct(r)
          /\ \A t : In(r, t) <=> In(s, t) /\ t # x
    BY <2>2, NextEntry
  <2>4. /\ cur' = [cur EXCEPT ![w] = x] /\ rest' = [rest EXCEPT ![w] = r]
        /\ entry_wq' = [entry_wq EXCEPT ![x] = FALSE]
    BY <2>1, <2>2, <2>3
  <2>5. TypeOK'
    <3>1. /\ cur' \in [Wakers -> Threads \cup {None}] /\ rest' \in [Wakers -> Seq(Threads)]
          /\ entry_wq' \in [Threads -> BOOLEAN]
      BY SMT, <1>2, <2>3, <2>4 DEF TypeOK
    <3>2. wpc' \in [Wakers -> {"idle", "lock", "next", "load", "scan", "wake", "clear", "unlock"}]
      BY SMT, <1>2, <2>1 DEF TypeOK
    <3>3. QED
      BY <1>2, <1>3, <3>1, <3>2 DEF TypeOK, reapVars, queueVars
  <2>6. /\ wpc'[w] = "load" /\ cur'[w] = x /\ rest'[w] = r
        /\ \A u \in Wakers \ {w} : wpc'[u] = wpc[u] /\ cur'[u] = cur[u] /\ rest'[u] = rest[u]
    BY SMT, <1>2, <2>1, <2>4 DEF TypeOK
  <2>7. ~entry_wq'[x] /\ \A t \in Threads \ {x} : entry_wq'[t] = entry_wq[t]
    BY <1>2, <2>4 DEF TypeOK
  <2>8. HolderStep(w)
    BY <1>1, <1>2, <1>3, <2>6, <2>7 DEF HolderStep, Holding, OtherWakersStay, queueVars
  <2>9. WakerOK(w)'
    BY <1>1, <1>2, <1>3, <1>4, <2>6 DEF WakerOK, Holding, queueVars
  <2>10. Distinct(head') /\ Distinct(rest'[w])
    BY <1>2, <1>3, <2>3, <2>6 DEF queueVars
  <2>11. ASSUME NEW t \in Threads PROVE EntryBy(w, t)' /\ FindableBy(w, t)' /\ AllCalledBy(w, t)'
    <3>1. In(rest'[w], t) <=> In(rest[w], t) /\ t # x
      BY <2>2, <2>3, <2>6
    <3>2. ~Handing(w, t)'
      BY <2>6 DEF Handing
    <3>3. EntryBy(w, t)'
      BY <1>2, <1>3, <1>4, <1>5, <2>7, <3>1, <3>2 DEF EntryBy, queueVars
    <3>4. Reaching(w, t) => Reaching(w, t)'
      BY <1>5, <2>6, <3>1 DEF Reaching
    <3>5. FindableBy(w, t)'
      BY <1>2, <1>3, <3>4 DEF FindableBy, queueVars
    <3>6. AllCalledBy(w, t)'
      BY <1>1, <1>2, <1>3, <2>6, <3>4 DEF AllCalledBy, Sleeping
    <3>7. QED
      BY <3>3, <3>5, <3>6
  <2>12. OneCalledBy(w)'
    <3>1. Coming(w) => Coming(w)'
      BY <1>3, <2>6 DEF Coming
    <3>2. QED
      BY <1>1, <1>2, <1>3, <3>1 DEF OneCalledBy, Sleeping, Awake
  <2>13. QED
    BY <2>5, <2>8, <2>9, <2>10, <2>11, <2>12, HolderInv
<1>8. QED
  BY <1>6, <1>7

LEMMA WakeLoadStep ==
    ASSUME WaitInv, NEW w \in Wakers, WakeLoad(w)
    PROVE  WaitInv'
<1>1. wpc[w] = "load" /\ wpc[w] \in Holding
  BY DEF WakeLoad, Holding
<1>2. /\ TypeOK /\ WakerOK(w) /\ lock = w /\ Distinct(head) /\ Distinct(rest[w])
      /\ \A t \in Threads : EntryBy(w, t) /\ FindableBy(w, t) /\ AllCalledBy(w, t)
      /\ \A t \in Threads : ThreadOK(t)
      /\ OneCalledBy(w)
  BY <1>1, HolderFacts
<1>3. UNCHANGED <<usage, state, queueVars, entryVars, tokens, events, tpc, kind, rest, cur,
                  reapVars, parked>>
  BY DEF WakeLoad
<1>4. PICK x \in Threads : x = cur[w] /\ kind[w] \in {"all", "close"}
  BY <1>1, <1>2 DEF WakerOK
<1>5. PICK l \in {"wake", "next"} :
        /\ wpc' = [wpc EXCEPT ![w] = l]
        /\ l = "next" => ~entry_thread[x] \/ state[x] = "DEAD"
  BY <1>4 DEF WakeLoad
<1>6. wpc'[w] = l /\ \A u \in Wakers \ {w} : wpc'[u] = wpc[u]
  BY <1>2, <1>5 DEF TypeOK
<1>7. TypeOK'
  <2>1. wpc' \in [Wakers -> {"idle", "lock", "next", "load", "scan", "wake", "clear", "unlock"}]
    BY SMT, <1>2, <1>5 DEF TypeOK
  <2>2. QED
    BY <1>2, <1>3, <2>1 DEF TypeOK, reapVars, queueVars, entryVars
<1>8. HolderStep(w)
  BY <1>1, <1>2, <1>3, <1>5, <1>6 DEF HolderStep, Holding, OtherWakersStay, queueVars, entryVars
<1>9. WakerOK(w)'
  BY <1>1, <1>2, <1>3, <1>4, <1>5, <1>6 DEF WakerOK, Holding, queueVars
<1>10. ASSUME NEW t \in Threads PROVE EntryBy(w, t)' /\ FindableBy(w, t)' /\ AllCalledBy(w, t)'
  <2>1. ~Handing(w, t) /\ ~Handing(w, t)'
    BY <1>3, <1>4 DEF Handing
  <2>2. EntryBy(w, t)'
    BY <1>2, <1>3, <2>1 DEF EntryBy, queueVars, entryVars
  <2>3. Reaching(w, t) /\ state[t] = "BLOCKED" /\ tpc[t] \in {"link", "recheck", "asleep"}
          => Reaching(w, t)'
    <3>1. SUFFICES ASSUME Reaching(w, t), state[t] = "BLOCKED", tpc[t] \in {"link", "recheck", "asleep"}
                   PROVE  Reaching(w, t)'
      OBVIOUS
    <3>2. entry_thread[t]
      BY <1>2, <3>1 DEF ThreadOK
    <3>3. t = x => l = "wake"
      BY <1>5, <3>1, <3>2
    <3>4. t = x \/ In(rest[w], t)
      BY <1>1, <1>4, <3>1 DEF Reaching
    <3>5. QED
      BY <1>3, <1>4, <1>6, <3>3, <3>4 DEF Reaching
  <2>4. FindableBy(w, t)'
    BY <1>2, <1>3, <2>3 DEF FindableBy, queueVars
  <2>5. AllCalledBy(w, t)'
    BY <1>1, <1>2, <1>3, <1>6, <2>3 DEF AllCalledBy, Sleeping
  <2>6. QED
    BY <2>2, <2>4, <2>5
<1>11. OneCalledBy(w)'
  <2>1. Coming(w) => Coming(w)'
    BY <1>3, <1>6 DEF Coming
  <2>2. QED
    BY <1>1, <1>2, <1>3, <2>1 DEF OneCalledBy, Sleeping, Awake
<1>12. QED
  BY <1>2, <1>3, <1>7, <1>8, <1>9, <1>10, <1>11, HolderInv DEF queueVars

LEMMA WakeOneStep ==
    ASSUME WaitInv, NEW w \in Wakers, wait_queue_wake_one(w)
    PROVE  WaitInv'
<1>1. wpc[w] = "scan" /\ wpc[w] \in Holding
  BY DEF wait_queue_wake_one, Holding
<1>2. /\ TypeOK /\ WakerOK(w) /\ lock = w /\ Distinct(head) /\ Distinct(rest[w])
      /\ \A t \in Threads : EntryBy(w, t) /\ FindableBy(w, t) /\ AllCalledBy(w, t)
      /\ \A t \in Threads : ThreadOK(t)
      /\ OneCalledBy(w)
  BY <1>1, HolderFacts
<1>3. UNCHANGED <<usage, state, lock, closed, entry_thread, listed, events, tpc, kind, rest,
                  reapVars, parked>>
  BY DEF wait_queue_wake_one
<1>4. kind[w] \in {"one", "handoff"} /\ usage # "all" /\ rest[w] = <<>> /\ \A t : ~In(rest[w], t)
  BY <1>1, <1>2, EmptyList DEF WakerOK
<1>5. \A t : ~Handing(w, t) /\ ~Reaching(w, t)
  BY <1>1, <1>4 DEF Handing, Reaching
<1>6. tokens' \in Nat
  BY SMT, <1>2 DEF TypeOK, wait_queue_wake_one
<1>7. ASSUME NEW t \in Threads, Sleeping(t) PROVE In(head, t) /\ Wakeable(t)
  BY <1>2, <1>5, <1>7 DEF FindableBy, Sleeping, ThreadOK, Wakeable
<1>8. ASSUME NEW l \in {"wake", "unlock"}, wpc' = [wpc EXCEPT ![w] = l]
      PROVE  /\ wpc'[w] = l /\ \A u \in Wakers \ {w} : wpc'[u] = wpc[u]
             /\ wpc' \in [Wakers -> {"idle", "lock", "next", "load", "scan", "wake", "clear", "unlock"}]
  BY SMT, <1>2, <1>8 DEF TypeOK
<1>9. CASE \E i \in DOMAIN head : Wakeable(head[i])
  <2>1. PICK i \in DOMAIN head :
          /\ Wakeable(head[i]) /\ cur' = [cur EXCEPT ![w] = head[i]]
          /\ head' = Unlink(head, head[i])
          /\ entry_wq' = [entry_wq EXCEPT ![head[i]] = BackPointerAfterWake(kind[w])]
          /\ wpc' = [wpc EXCEPT ![w] = "wake"]
    BY <1>9 DEF wait_queue_wake_one
  <2>2. head \in Seq(Threads)
    BY <1>2 DEF TypeOK
  <2>3. head[i] \in Threads
    BY SMT, <2>2
  <2>4. PICK x \in Threads :
          /\ x = head[i] /\ In(head, x) /\ Wakeable(x) /\ head' = Unlink(head, x)
          /\ cur' = [cur EXCEPT ![w] = x]
          /\ entry_wq' = [entry_wq EXCEPT ![x] = (kind[w] = "handoff")]
    BY <2>1, <2>3 DEF In, BackPointerAfterWake
  <2>5. /\ head' \in Seq(Threads) /\ Distinct(head')
        /\ \A t : In(head', t) <=> In(head, t) /\ t # x
    BY <1>2, <2>2, <2>4, UnlinkEntry
  <2>6. /\ wpc'[w] = "wake" /\ \A u \in Wakers \ {w} : wpc'[u] = wpc[u]
        /\ wpc' \in [Wakers -> {"idle", "lock", "next", "load", "scan", "wake", "clear", "unlock"}]
    BY <1>8, <2>1
  <2>7. cur'[w] = x /\ \A u \in Wakers \ {w} : cur'[u] = cur[u]
    BY <1>2, <2>4 DEF TypeOK
  <2>8. /\ entry_wq'[x] = (kind[w] = "handoff")
        /\ \A t \in Threads \ {x} : entry_wq'[t] = entry_wq[t]
    BY <1>2, <2>4 DEF TypeOK
  <2>9. TypeOK'
    <3>1. cur' \in [Wakers -> Threads \cup {None}] /\ entry_wq' \in [Threads -> BOOLEAN]
      BY SMT, <1>2, <2>4 DEF TypeOK
    <3>2. QED
      BY <1>2, <1>3, <1>6, <2>5, <2>6, <3>1 DEF TypeOK, reapVars
  <2>10. entry_wq[x] /\ tpc[x] \in {"link", "recheck", "asleep", "remove", "unlink"}
    BY <1>2, <2>4 DEF EntryBy
  <2>11. HolderStep(w)
    BY <1>1, <1>2, <1>3, <2>6, <2>7, <2>8, <2>10 DEF HolderStep, Holding, OtherWakersStay
  <2>12. WakerOK(w)'
    BY <1>2, <1>3, <1>4, <2>6, <2>7 DEF WakerOK, Holding
  <2>13. ASSUME NEW t \in Threads PROVE EntryBy(w, t)' /\ FindableBy(w, t)' /\ AllCalledBy(w, t)'
    <3>1. EntryBy(w, t)
      BY <1>2
    <3>2. Handing(w, t)' <=> kind[w] = "handoff" /\ t = x
      BY <1>3, <2>6, <2>7 DEF Handing
    <3>3. EntryBy(w, t)'
      <4>1. CASE t = x
        BY <1>3, <1>4, <2>5, <2>8, <2>10, <3>2, <4>1 DEF EntryBy
      <4>2. CASE t # x
        BY <1>3, <1>4, <1>5, <2>5, <2>8, <3>1, <3>2, <4>2 DEF EntryBy
      <4>3. QED
        BY <4>1, <4>2
    <3>4. Reaching(w, x)'
      BY <2>6, <2>7 DEF Reaching
    <3>5. FindableBy(w, t)'
      BY <1>2, <1>3, <1>5, <2>5, <3>4 DEF FindableBy
    <3>6. QED
      BY <1>3, <1>4, <3>3, <3>5 DEF AllCalledBy
  <2>14. OneCalledBy(w)'
    <3>1. state[x] # "BLOCKED" => Awake(x)'
      BY <1>3, <2>10 DEF Awake
    <3>2. QED
      BY <1>3, <2>6, <2>7, <3>1 DEF OneCalledBy
  <2>15. QED
    BY <1>2, <1>3, <2>5, <2>9, <2>11, <2>12, <2>13, <2>14, HolderInv
<1>10. CASE ~\E i \in DOMAIN head : Wakeable(head[i])
  <2>1. wpc' = [wpc EXCEPT ![w] = "unlock"] /\ UNCHANGED <<cur, head, entry_wq>>
    BY <1>10 DEF wait_queue_wake_one
  <2>2. /\ wpc'[w] = "unlock" /\ \A u \in Wakers \ {w} : wpc'[u] = wpc[u]
        /\ wpc' \in [Wakers -> {"idle", "lock", "next", "load", "scan", "wake", "clear", "unlock"}]
    BY <1>8, <2>1
  <2>3. TypeOK'
    BY <1>2, <1>3, <1>6, <2>1, <2>2 DEF TypeOK, reapVars
  <2>4. HolderStep(w)
    BY <1>1, <1>2, <1>3, <2>1, <2>2 DEF HolderStep, Holding, OtherWakersStay
  <2>5. WakerOK(w)'
    BY <1>2, <1>3, <1>4, <2>2 DEF WakerOK, Holding
  <2>6. \A t \in Threads : ~Sleeping(t)
    BY <1>7, <1>10 DEF In
  <2>7. ASSUME NEW t \in Threads PROVE EntryBy(w, t)' /\ FindableBy(w, t)' /\ AllCalledBy(w, t)'
    <3>1. EntryBy(w, t)'
      BY <1>2, <1>3, <1>5, <2>1, <2>2 DEF EntryBy, Handing
    <3>2. FindableBy(w, t)'
      BY <1>2, <1>3, <1>5, <2>1 DEF FindableBy
    <3>3. QED
      BY <1>3, <1>4, <3>1, <3>2 DEF AllCalledBy
  <2>8. OneCalledBy(w)'
    BY <1>3, <2>6 DEF OneCalledBy, Sleeping
  <2>9. QED
    BY <1>2, <1>3, <2>1, <2>3, <2>4, <2>5, <2>7, <2>8, HolderInv
<1>11. QED
  BY <1>9, <1>10

LEMMA WakeStep ==
    ASSUME WaitInv, NEW w \in Wakers, Wake(w)
    PROVE  WaitInv'
<1>1. wpc[w] = "wake" /\ wpc[w] \in Holding
  BY DEF Wake, Holding
<1>2. /\ TypeOK /\ WakerOK(w) /\ lock = w /\ Distinct(head) /\ Distinct(rest[w])
      /\ \A t \in Threads : EntryBy(w, t) /\ FindableBy(w, t) /\ AllCalledBy(w, t)
      /\ \A t \in Threads : ThreadOK(t)
      /\ OneCalledBy(w)
  BY <1>1, HolderFacts
<1>3. UNCHANGED <<usage, queueVars, entryVars, tokens, events, tpc, kind, rest, cur, reapVars, parked>>
  BY DEF Wake
<1>4. PICK x \in Threads : x = cur[w]
  BY <1>1, <1>2 DEF WakerOK
<1>5. kind[w] \in {"all", "close", "one", "handoff"}
  BY <1>2 DEF TypeOK
<1>6. PICK l \in {"unlock", "clear", "next"} :
        /\ wpc' = [wpc EXCEPT ![w] = l]
        /\ kind[w] = "handoff" <=> l = "clear"
        /\ kind[w] \in {"all", "close"} <=> l = "next"
  BY <1>5 DEF Wake
<1>7. /\ wpc'[w] = l /\ \A u \in Wakers \ {w} : wpc'[u] = wpc[u]
      /\ wpc' \in [Wakers -> {"idle", "lock", "next", "load", "scan", "wake", "clear", "unlock"}]
  BY SMT, <1>2, <1>6 DEF TypeOK
<1>8. state' = [state EXCEPT ![x] = IF @ = "BLOCKED" THEN "RUNNING" ELSE @]
  BY <1>4 DEF Wake
<1>9. /\ state'[x] = IF state[x] = "BLOCKED" THEN "RUNNING" ELSE state[x]
      /\ \A t \in Threads \ {x} : state'[t] = state[t]
      /\ state' \in [Threads -> {"RUNNING", "BLOCKED", "DEAD"}]
  BY SMT, <1>2, <1>8 DEF TypeOK
<1>10. TypeOK'
  BY <1>2, <1>3, <1>7, <1>9 DEF TypeOK, reapVars, queueVars, entryVars
<1>11. state'[x] # "BLOCKED" /\ (state[x] # "BLOCKED" => state'[x] = state[x])
  BY <1>9
<1>12. HolderStep(w)
  <2>1. \A t \in Threads : \/ state'[t] = state[t]
                           \/ state[t] = "BLOCKED" /\ state'[t] = "RUNNING"
    BY <1>9
  <2>2. QED
    BY <1>1, <1>2, <1>3, <1>6, <1>7, <2>1 DEF HolderStep, Holding, OtherWakersStay, queueVars, entryVars
<1>13. WakerOK(w)'
  BY <1>1, <1>2, <1>3, <1>6, <1>7 DEF WakerOK, Holding, queueVars
<1>14. ASSUME NEW t \in Threads PROVE EntryBy(w, t)' /\ FindableBy(w, t)' /\ AllCalledBy(w, t)'
  <2>1. Handing(w, t)' <=> Handing(w, t)
    BY <1>1, <1>3, <1>6, <1>7 DEF Handing
  <2>2. EntryBy(w, t)'
    BY <1>2, <1>3, <2>1 DEF EntryBy, queueVars, entryVars
  <2>3. state'[t] = "BLOCKED" => state[t] = "BLOCKED" /\ t # x
    BY <1>9, <1>11
  <2>4. Reaching(w, t) /\ t # x => Reaching(w, t)'
    <3>1. SUFFICES ASSUME Reaching(w, t), t # x PROVE Reaching(w, t)'
      OBVIOUS
    <3>2. In(rest[w], t)
      BY <1>4, <3>1 DEF Reaching
    <3>3. rest[w] # <<>>
      BY <3>2, EmptyList
    <3>4. l = "next"
      BY <1>2, <1>6, <3>3 DEF WakerOK
    <3>5. QED
      BY <1>3, <1>7, <3>2, <3>4 DEF Reaching
  <2>5. FindableBy(w, t)'
    BY <1>2, <1>3, <2>3, <2>4 DEF FindableBy, queueVars
  <2>6. AllCalledBy(w, t)'
    BY <1>1, <1>2, <1>3, <1>7, <2>3, <2>4 DEF AllCalledBy, Sleeping
  <2>7. QED
    BY <2>2, <2>5, <2>6
<1>15. OneCalledBy(w)'
  <2>1. Coming(w) => Coming(w)'
    BY <1>3, <1>7 DEF Coming
  <2>2. \A t \in Threads : /\ Sleeping(t)' => Sleeping(t)
                           /\ Awake(t) => Awake(t)'
    BY <1>3, <1>9, <1>11 DEF Sleeping, Awake
  <2>3. state[x] = "BLOCKED" => Awake(x)'
    BY <1>2, <1>3, <1>11 DEF ThreadOK, Awake
  <2>4. QED
    BY <1>1, <1>2, <1>3, <1>4, <2>1, <2>2, <2>3 DEF OneCalledBy
<1>16. QED
  BY <1>2, <1>3, <1>10, <1>12, <1>13, <1>14, <1>15, HolderInv DEF queueVars

LEMMA HandoffStep ==
    ASSUME WaitInv, NEW w \in Wakers, wait_queue_handoff(w)
    PROVE  WaitInv'
<1>1. wpc[w] = "clear" /\ wpc[w] \in Holding
  BY DEF wait_queue_handoff, Holding
<1>2. /\ TypeOK /\ WakerOK(w) /\ lock = w /\ Distinct(head) /\ Distinct(rest[w])
      /\ \A t \in Threads : EntryBy(w, t) /\ FindableBy(w, t) /\ AllCalledBy(w, t)
      /\ OneCalledBy(w)
  BY <1>1, HolderFacts
<1>3. UNCHANGED <<usage, state, queueVars, entry_thread, listed, tokens, events, tpc, kind, rest,
                  cur, reapVars, parked>>
  BY DEF wait_queue_handoff
<1>4. PICK x \in Threads : x = cur[w] /\ kind[w] = "handoff" /\ usage # "all"
  BY <1>1, <1>2 DEF WakerOK
<1>5. /\ entry_wq' = [entry_wq EXCEPT ![x] = FALSE]
      /\ wpc' = [wpc EXCEPT ![w] = "unlock"]
  BY <1>4 DEF wait_queue_handoff
<1>6. /\ wpc'[w] = "unlock" /\ \A u \in Wakers \ {w} : wpc'[u] = wpc[u]
      /\ wpc' \in [Wakers -> {"idle", "lock", "next", "load", "scan", "wake", "clear", "unlock"}]
      /\ ~entry_wq'[x] /\ \A t \in Threads \ {x} : entry_wq'[t] = entry_wq[t]
      /\ entry_wq' \in [Threads -> BOOLEAN]
  BY SMT, <1>2, <1>5 DEF TypeOK
<1>7. TypeOK'
  BY <1>2, <1>3, <1>6 DEF TypeOK, reapVars, queueVars
<1>8. HolderStep(w)
  BY <1>1, <1>2, <1>3, <1>6 DEF HolderStep, Holding, OtherWakersStay, queueVars
<1>9. WakerOK(w)'
  BY <1>1, <1>2, <1>3, <1>4, <1>6 DEF WakerOK, Holding, queueVars
<1>10. ASSUME NEW t \in Threads PROVE EntryBy(w, t)' /\ FindableBy(w, t)' /\ AllCalledBy(w, t)'
  <2>1. (Handing(w, t) <=> t = x) /\ ~Handing(w, t)' /\ ~Reaching(w, t)
    BY <1>1, <1>4, <1>6 DEF Handing, Reaching
  <2>2. EntryBy(w, t)'
    <3>1. EntryBy(w, t)
      BY <1>2
    <3>2. CASE t = x
      BY <1>3, <1>6, <2>1, <3>1, <3>2 DEF EntryBy, queueVars
    <3>3. CASE t # x
      BY <1>3, <1>6, <2>1, <3>1, <3>3 DEF EntryBy, queueVars
    <3>4. QED
      BY <3>2, <3>3
  <2>3. FindableBy(w, t)'
    BY <1>2, <1>3, <2>1 DEF FindableBy, queueVars
  <2>4. QED
    BY <1>3, <1>4, <2>2, <2>3 DEF AllCalledBy
<1>11. OneCalledBy(w)'
  <2>1. Coming(w) => Coming(w)'
    BY <1>3, <1>6 DEF Coming
  <2>2. QED
    BY <1>1, <1>2, <1>3, <2>1 DEF OneCalledBy, Sleeping, Awake
<1>12. QED
  BY <1>2, <1>3, <1>7, <1>8, <1>9, <1>10, <1>11, HolderInv DEF queueVars

-----------------------------------------------------------------------------
(* The first and the last step of a waker *)

LEMMA UnlockStep ==
    ASSUME WaitInv, NEW w \in Wakers, WakeUnlock(w)
    PROVE  WaitInv'
<1>1. wpc[w] = "unlock" /\ wpc[w] \in Holding
  BY DEF WakeUnlock, Holding
<1>2. /\ TypeOK /\ WakerOK(w) /\ lock = w
      /\ \A t \in Threads : EntryBy(w, t) /\ FindableBy(w, t) /\ AllCalledBy(w, t)
      /\ OneCalledBy(w)
  BY <1>1, HolderFacts
<1>3. WakersInv /\ EntriesInv /\ ThreadsInv /\ CloseInv
  BY DEF WaitInv
<1>4. /\ lock' = None /\ closed' = (closed \/ kind[w] = "close")
      /\ UNCHANGED <<usage, state, head, entryVars, tokens, events, tpc, rest, reapVars, parked>>
  BY DEF WakeUnlock
<1>5. /\ wpc' = [wpc EXCEPT ![w] = "idle"] /\ kind' = [kind EXCEPT ![w] = usage]
      /\ cur' = [cur EXCEPT ![w] = None]
  BY DEF WakeUnlock
<1>6. usage \in {"all", "one", "handoff"}
  BY <1>2, WaitConstants DEF TypeOK
<1>7. /\ wpc'[w] = "idle" /\ kind'[w] = usage
      /\ \A u \in Wakers \ {w} : wpc'[u] = wpc[u] /\ kind'[u] = kind[u] /\ cur'[u] = cur[u]
  BY SMT, <1>2, <1>5 DEF TypeOK
<1>8. TypeOK'
  <2>1. wpc' \in [Wakers -> {"idle", "lock", "next", "load", "scan", "wake", "clear", "unlock"}]
    BY SMT, <1>2, <1>5 DEF TypeOK
  <2>2. /\ kind' \in [Wakers -> {"all", "one", "handoff", "close"}]
        /\ cur' \in [Wakers -> Threads \cup {None}]
    BY SMT, <1>2, <1>5, <1>6 DEF TypeOK
  <2>3. closed' \in BOOLEAN
    BY <1>2, <1>4 DEF TypeOK
  <2>4. QED
    BY <1>2, <1>4, <2>1, <2>2, <2>3 DEF TypeOK, reapVars, entryVars
<1>9. \A u \in Wakers \ {w} :
        /\ wpc[u] \in {"idle", "lock"} /\ rest[u] = <<>>
        /\ \A x : ~In(rest[u], x) /\ ~Handing(u, x) /\ ~Reaching(u, x)
  BY <1>2, <1>3, Alone
<1>10. rest[w] = <<>> /\ \A x : ~In(rest[w], x) /\ ~Handing(w, x) /\ ~Reaching(w, x)
  BY <1>1, <1>2, EmptyList DEF WakerOK, Handing, Reaching
<1>11. ASSUME NEW u \in Wakers
       PROVE  /\ wpc'[u] \in {"idle", "lock"} /\ rest'[u] = <<>>
              /\ \A x : ~In(rest'[u], x) /\ ~Handing(u, x)' /\ ~Reaching(u, x)'
  BY <1>4, <1>7, <1>9, <1>10, EmptyList DEF Handing, Reaching
<1>12. WakersInv'
  <2>1. ASSUME NEW u \in Wakers PROVE WakerOK(u)'
    <3>1. wpc'[u] \notin Holding /\ lock' # u /\ rest'[u] = <<>>
      BY <1>4, <1>11, WaitConstants DEF Holding
    <3>2. /\ kind'[u] \in {usage', "close"} /\ (wpc'[u] = "idle" => kind'[u] = usage')
          /\ wpc'[u] \in {"idle", "lock"}
      BY <1>3, <1>4, <1>7, <1>11 DEF WakersInv, WakerOK
    <3>3. QED
      BY <3>1, <3>2 DEF WakerOK
  <2>2. QED
    BY <2>1 DEF WakersInv
<1>13. EntriesInv'
  <2>1. ASSUME NEW t \in Threads PROVE EntryOK(t)'
    <3>1. EntryBy(w, t) /\ ~In(rest[w], t) /\ ~Handing(w, t)
      BY <1>2, <1>10
    <3>2. Linked(t)' <=> In(head, t)
      BY <1>4, <1>11 DEF Linked
    <3>3. QED
      BY <1>4, <1>11, <3>1, <3>2 DEF EntryBy, EntryOK, entryVars
  <2>2. QED
    BY <1>3, <1>4, <2>1 DEF EntriesInv, Distinct
<1>14. ThreadsInv'
  BY <1>3, <1>4, WakerThreads DEF entryVars
<1>15. CloseInv'
  <2>1. kind[w] = "close" => head = <<>> /\ \A u \in Wakers \ {w} : wpc[u] = "idle"
    BY <1>1, <1>2, <1>3 DEF CloseInv, WakerOK, Holding
  <2>2. ~closed
    BY <1>1, <1>3 DEF CloseInv
  <2>3. Closing' => Closing
    BY <1>1, <1>4, <1>7 DEF Closing
  <2>4. ASSUME NEW a \in Wakers, NEW b \in Wakers, kind'[a] = "close", b # a PROVE wpc'[b] = "idle"
    <3>1. a # w /\ kind[a] = "close"
      BY <1>6, <1>7, <2>4
    <3>2. wpc[w] = "idle"
      BY <1>3, <3>1 DEF CloseInv
    <3>3. QED
      BY <1>1, <3>2
  <2>5. closed' => head' = <<>> /\ \A u \in Wakers : wpc'[u] = "idle"
    BY <1>4, <1>7, <2>1, <2>2
  <2>6. QED
    BY <1>3, <1>4, <2>3, <2>4, <2>5 DEF CloseInv
<1>16. ASSUME NEW t \in Threads PROVE Findable(t)' /\ AllCalled(t)'
  <2>1. FindableBy(w, t) /\ AllCalledBy(w, t) /\ ~Reaching(w, t)
    BY <1>2, <1>10
  <2>2. Findable(t)'
    BY <1>4, <2>1 DEF Findable, FindableBy
  <2>3. AllCalled(t)'
    BY <1>1, <1>4, <1>7, <2>1 DEF AllCalled, AllCalledBy, Sleeping
  <2>4. QED
    BY <2>2, <2>3
<1>17. OneCalled'
  <2>1. Coming(w) => \E u \in Wakers : wpc'[u] \in {"lock", "scan"} /\ kind'[u] # "close"
    BY <1>7 DEF Coming
  <2>2. QED
    BY <1>1, <1>2, <1>4, <2>1 DEF OneCalled, OneCalledBy, Sleeping, Awake
<1>18. QED
  BY <1>8, <1>12, <1>13, <1>14, <1>15, <1>16, <1>17 DEF WaitInv, CalledInv

LEMMA SignalStep ==
    ASSUME WaitInv, NEW w \in Wakers, Signal(w)
    PROVE  WaitInv'
<1>1. TypeOK /\ WakersInv /\ EntriesInv /\ ThreadsInv /\ CloseInv /\ CalledInv /\ WakerOK(w)
  BY DEF WaitInv, WakersInv
<1>2. /\ wpc[w] = "idle" /\ ~Closing /\ events < MaxEvents /\ events' = events + 1
      /\ wpc' = [wpc EXCEPT ![w] = "lock"]
      /\ UNCHANGED <<usage, state, queueVars, entryVars, tpc, rest, cur, reapVars, parked>>
  BY DEF Signal
<1>3. PICK k \in {usage, "close"} :
        /\ k = "close" => /\ \A u \in Wakers : wpc[u] = "idle"
                          /\ \A t \in Threads : tpc[t] \in {"test", "asleep", "remove"}
        /\ kind' = [kind EXCEPT ![w] = k]
        /\ tokens' = IF k \in {"all", "one"} THEN tokens + 1 ELSE tokens
  BY DEF Signal
<1>4. usage \in {"all", "one", "handoff"}
  BY <1>1, WaitConstants DEF TypeOK
<1>5. /\ wpc'[w] = "lock" /\ kind'[w] = k
      /\ \A u \in Wakers \ {w} : wpc'[u] = wpc[u] /\ kind'[u] = kind[u]
  BY SMT, <1>1, <1>2, <1>3 DEF TypeOK
<1>6. TypeOK'
  <2>1. wpc' \in [Wakers -> {"idle", "lock", "next", "load", "scan", "wake", "clear", "unlock"}]
    BY SMT, <1>1, <1>2 DEF TypeOK
  <2>2. kind' \in [Wakers -> {"all", "one", "handoff", "close"}]
    BY SMT, <1>1, <1>3, <1>4 DEF TypeOK
  <2>3. tokens' \in Nat /\ events' \in 0..MaxEvents
    BY SMT, <1>1, <1>2, <1>3, WaitConstants DEF TypeOK
  <2>4. QED
    BY <1>1, <1>2, <2>1, <2>2, <2>3 DEF TypeOK, reapVars, entryVars, queueVars
<1>7. rest[w] = <<>> /\ lock # w /\ \A x : ~In(rest[w], x)
  BY <1>1, <1>2, EmptyList DEF WakerOK, Holding
<1>8. WakersInv'
  <2>1. ASSUME NEW u \in Wakers PROVE WakerOK(u)'
    <3>1. CASE u = w
      BY <1>2, <1>5, <1>7, <3>1 DEF WakerOK, Holding, queueVars
    <3>2. CASE u # w
      <4>1. WakerOK(u) /\ wpc'[u] = wpc[u] /\ kind'[u] = kind[u]
        BY <1>1, <1>5, <3>2 DEF WakersInv
      <4>2. QED
        BY <1>2, <4>1 DEF WakerOK, queueVars
    <3>3. QED
      BY <3>1, <3>2
  <2>2. QED
    BY <2>1 DEF WakersInv
<1>9. EntriesInv'
  <2>1. ASSUME NEW t \in Threads PROVE EntryOK(t)'
    <3>1. EntryOK(t) /\ (Linked(t)' <=> Linked(t))
      BY <1>1, <1>2 DEF EntriesInv, Linked, queueVars
    <3>2. \A u \in Wakers : Handing(u, t)' <=> Handing(u, t)
      BY <1>2, <1>5 DEF Handing
    <3>3. QED
      BY <1>2, <3>1, <3>2 DEF EntryOK, entryVars
  <2>2. QED
    BY <1>1, <1>2, <2>1 DEF EntriesInv, Distinct, queueVars
<1>10. ThreadsInv'
  BY <1>1, <1>2, WakerThreads DEF entryVars
<1>11. CloseInv'
  <2>1. ~closed /\ \A u \in Wakers : kind[u] # "close"
    <3>1. ~closed /\ \A u \in Wakers : kind[u] = "close" => wpc[u] = "idle"
      BY <1>2 DEF Closing
    <3>2. QED
      BY <1>1, <1>4, <3>1 DEF WakersInv, WakerOK
  <2>2. Closing' => k = "close"
    BY <1>2, <1>5, <2>1 DEF Closing, queueVars
  <2>3. ASSUME NEW a \in Wakers, NEW b \in Wakers, kind'[a] = "close", b # a PROVE wpc'[b] = "idle"
    BY <1>3, <1>5, <2>1, <2>3
  <2>4. QED
    BY <1>2, <1>3, <2>1, <2>2, <2>3 DEF CloseInv, queueVars
<1>12. ASSUME NEW t \in Threads, NEW u \in Wakers, Reaching(u, t) PROVE Reaching(u, t)'
  <2>1. u # w
    BY <1>2, <1>12 DEF Reaching
  <2>2. QED
    BY <1>2, <1>5, <1>12, <2>1 DEF Reaching
<1>13. ASSUME NEW t \in Threads PROVE Findable(t)' /\ AllCalled(t)'
  <2>1. Findable(t)'
    BY <1>1, <1>2, <1>12 DEF CalledInv, Findable, queueVars
  <2>2. AllCalled(t)'
    BY <1>5 DEF AllCalled
  <2>3. QED
    BY <2>1, <2>2
<1>14. OneCalled'
  <2>1. CASE k # "close"
    BY <1>5, <2>1 DEF OneCalled
  <2>2. CASE k = "close"
    <3>1. tokens' = tokens /\ \A u \in Wakers : wpc[u] = "idle"
      BY <1>3, <2>2
    <3>2. usage # "all" /\ tokens > 0 /\ (\E t \in Threads : Sleeping(t)) =>
            \E t \in Threads : Awake(t)
      BY <1>1, <3>1 DEF CalledInv, OneCalled, Awake
    <3>3. QED
      BY <1>2, <3>1, <3>2 DEF OneCalled, Sleeping, Awake
  <2>3. QED
    BY <2>1, <2>2
<1>15. QED
  BY <1>6, <1>8, <1>9, <1>10, <1>11, <1>13, <1>14 DEF WaitInv, CalledInv

-----------------------------------------------------------------------------
(* The theorems *)

LEMMA InitInv == Init => WaitInv
<1> SUFFICES ASSUME Init PROVE WaitInv
  OBVIOUS
<1>1. TypeOK
  <2>1. usage \in Usages /\ usage \in {"all", "one", "handoff"}
    BY WaitConstants DEF Init
  <2>2. /\ state \in [Threads -> {"RUNNING", "BLOCKED", "DEAD"}]
        /\ entry_wq \in [Threads -> BOOLEAN] /\ entry_thread \in [Threads -> BOOLEAN]
        /\ listed \in [Threads -> BOOLEAN]
        /\ tpc \in [Threads -> {"test", "publish", "add", "link", "recheck", "asleep",
                                "remove", "unlink", "unlist"}]
    BY SMT DEF Init
  <2>3. /\ wpc \in [Wakers -> {"idle", "lock", "next", "load", "scan", "wake", "clear", "unlock"}]
        /\ kind \in [Wakers -> {"all", "one", "handoff", "close"}]
        /\ cur \in [Wakers -> Threads \cup {None}]
    BY SMT, <2>1 DEF Init
  <2>4. <<>> \in Seq(Threads)
    BY SMT
  <2>5. head \in Seq(Threads) /\ rest \in [Wakers -> Seq(Threads)]
    BY <2>4 DEF Init
  <2>6. tokens \in Nat /\ events \in 0..MaxEvents
    BY SMT, WaitConstants DEF Init
  <2>7. /\ lock \in Wakers \cup {None} /\ closed \in BOOLEAN /\ freed \subseteq Threads
        /\ parked \subseteq Threads /\ rpc \in {"idle", "entry", "unlink", "free"}
        /\ victim \in Threads \cup {None}
    BY DEF Init
  <2>8. QED
    BY <2>1, <2>2, <2>3, <2>5, <2>6, <2>7 DEF TypeOK
<1>2. /\ usage # "close" /\ head = <<>> /\ lock = None /\ closed = FALSE /\ freed = {} /\ tokens = 0
      /\ parked = {} /\ rpc = "idle"
      /\ \A t \in Threads : state[t] = "RUNNING" /\ tpc[t] = "test" /\ ~entry_wq[t]
      /\ \A w \in Wakers : wpc[w] = "idle" /\ kind[w] = usage /\ rest[w] = <<>>
  BY WaitConstants DEF Init
<1>3. WakersInv
  BY <1>2, WaitConstants DEF WakersInv, WakerOK, Holding
<1>4. EntriesInv
  BY <1>2, EmptyList DEF EntriesInv, EntryOK, Linked, Handing
<1>5. ThreadsInv
  BY <1>2 DEF ThreadsInv, ThreadOK, Reaped
<1>6. CloseInv
  BY <1>2 DEF CloseInv, Closing
<1>7. CalledInv
  <2>1. ~(tokens > 0)
    BY SMT, <1>2
  <2>2. QED
    BY <1>2, <2>1 DEF CalledInv, Findable, AllCalled, OneCalled
<1>8. QED
  BY <1>1, <1>3, <1>4, <1>5, <1>6, <1>7 DEF WaitInv

LEMMA NextInv == WaitInv /\ [Next]_vars => WaitInv'
<1> SUFFICES ASSUME WaitInv, [Next]_vars PROVE WaitInv'
  OBVIOUS
<1>1. ASSUME NEW t \in Threads, Waiter(t) \/ Park(t) \/ TimeoutOrSignal(t) \/ Kill(t) PROVE WaitInv'
  <2>1. CASE wait_queue_add(t)
    BY <2>1, AddStep
  <2>2. CASE RemoveUnlink(t)
    BY <2>2, RemoveStep
  <2>3. QED
    BY <1>1, <2>1, <2>2, LocalStep DEF Waiter
<1>2. ASSUME NEW w \in Wakers, Signal(w) \/ Waking(w) PROVE WaitInv'
  BY <1>2, SignalStep, WakeLockStep, WakeAllStep, WakeLoadStep, WakeOneStep, WakeStep,
     HandoffStep, UnlockStep DEF Waking
<1>3. CASE Reaper
  BY <1>3, ReaperStep
<1>4. CASE UNCHANGED vars
  <2>1. TypeOK' /\ ThreadsInv'
    BY <1>4 DEF vars, queueVars, entryVars, wakerVars, reapVars, WaitInv, TypeOK, ThreadsInv,
                ThreadOK, Reaped
  <2>2. QED
    BY <1>4, <2>1, ReaperInv DEF vars, queueVars, entryVars, wakerVars
<1>5. QED
  BY <1>1, <1>2, <1>3, <1>4 DEF Next

LEMMA WaitInvariant == Spec => []WaitInv
BY InitInv, NextInv, PTL DEF Spec

(* An entry that is linked is one its thread, or the reaper for it, has not    *)
(* unlinked: the frame it is in is still there.                              *)
THEOREM WaitNoDanglingEntry == Spec => []NoDanglingEntry
<1>1. ASSUME WaitInv, NEW t \in Threads, Linked(t) PROVE InScope(t) \/ Unfindable(t)
  <2>1. EntryOK(t) /\ ThreadOK(t)
    BY <1>1 DEF WaitInv, EntriesInv, ThreadsInv
  <2>2. entry_wq[t] /\ tpc[t] \notin {"test", "publish"}
    BY <1>1, <2>1 DEF EntryOK
  <2>3. t \in freed => state[t] = "DEAD" /\ tpc[t] = "link"
    BY <2>1, <2>2 DEF ThreadOK, Reaped
  <2>4. QED
    BY <2>2, <2>3 DEF InScope, Unfindable
<1>2. WaitInv => NoDanglingEntry
  <2>1. SUFFICES ASSUME WaitInv PROVE NoDanglingEntry
    OBVIOUS
  <2>2. ASSUME NEW i \in DOMAIN head PROVE head[i] \in Threads /\ Linked(head[i])
    <3>1. head[i] \in Threads
      BY SMT, <2>1 DEF WaitInv, TypeOK
    <3>2. QED
      BY <3>1 DEF Linked, In
  <2>3. ASSUME NEW w \in Wakers, NEW i \in DOMAIN rest[w]
        PROVE  rest[w][i] \in Threads /\ Linked(rest[w][i])
    <3>1. rest[w] \in Seq(Threads)
      BY <2>1 DEF WaitInv, TypeOK
    <3>2. rest[w][i] \in Threads
      BY SMT, <3>1
    <3>3. QED
      BY <3>2 DEF Linked, In
  <2>4. QED
    BY <1>1, <2>1, <2>2, <2>3 DEF NoDanglingEntry
<1>3. QED
  BY <1>2, WaitInvariant, PTL

(* The thread wait_queue_handoff() wakes, and its entry, are there until the   *)
(* back-pointer is cleared: thread and reaper wait for the lock till then.     *)
THEOREM WaitHandoffUsesLiveMemory == Spec => []HandoffUsesLiveMemory
<1>1. ASSUME WaitInv, NEW w \in Wakers, wpc[w] \in {"wake", "clear"}, kind[w] = "handoff",
             ~Unfindable(cur[w])
      PROVE  InScope(cur[w])
  <2>1. PICK t \in Threads : t = cur[w]
    BY <1>1 DEF WaitInv, WakersInv, WakerOK
  <2>2. EntryOK(t) /\ ThreadOK(t) /\ Handing(w, t)
    BY <1>1, <2>1 DEF WaitInv, EntriesInv, ThreadsInv, Handing
  <2>3. entry_wq[t] /\ tpc[t] \notin {"test", "publish"}
    BY <2>2 DEF EntryOK
  <2>4. t \in freed => state[t] = "DEAD" /\ tpc[t] = "link"
    BY <2>2, <2>3 DEF ThreadOK, Reaped
  <2>5. QED
    BY <1>1, <2>1, <2>3, <2>4 DEF InScope, Unfindable
<1>2. WaitInv => HandoffUsesLiveMemory
  BY <1>1 DEF HandoffUsesLiveMemory
<1>3. QED
  BY <1>2, WaitInvariant, PTL

(* No wakeup falls between the re-check and the sleep, with any number of      *)
(* waiters, wakers and events.                                               *)
THEOREM WaitNoLostWakeup == Spec => []NoLostWakeup
<1>1. ASSUME WaitInv, tokens > 0, \A w \in Wakers : wpc[w] = "idle",
             NEW t \in Threads, Sleeping(t)
      PROVE  usage # "all" /\ \E u \in Threads : ~Sleeping(u) /\ ~Preempted(u)
  <2>1. AllCalled(t) /\ OneCalled
    BY <1>1 DEF WaitInv, CalledInv
  <2>2. \A w \in Wakers : wpc[w] # "lock" /\ ~Reaching(w, t)
    BY <1>1 DEF Reaching
  <2>3. usage # "all"
    BY <1>1, <2>1, <2>2 DEF AllCalled
  <2>4. \E u \in Threads : state[u] # "BLOCKED"
    BY <1>1, <2>1, <2>3 DEF OneCalled
  <2>5. QED
    BY <2>3, <2>4 DEF Sleeping, Preempted
<1>2. WaitInv => NoLostWakeup
  BY <1>1 DEF NoLostWakeup
<1>3. QED
  BY <1>2, WaitInvariant, PTL

(* After a destroy path has let go of the lock no entry names the queue.       *)
THEOREM WaitClosedQueueForgotten == Spec => []ClosedQueueForgotten
<1>1. ASSUME WaitInv, closed PROVE head = <<>> /\ \A t \in Threads : ~entry_wq[t]
  <2>1. head = <<>> /\ \A w \in Wakers : wpc[w] = "idle"
    BY <1>1 DEF WaitInv, CloseInv
  <2>2. \A w \in Wakers : rest[w] = <<>>
    BY <1>1, <2>1 DEF WaitInv, WakersInv, WakerOK
  <2>3. \A t \in Threads : ~Linked(t) /\ \A w \in Wakers : ~Handing(w, t)
    BY <2>1, <2>2, EmptyList DEF Linked, Handing
  <2>4. QED
    BY <1>1, <2>1, <2>3 DEF WaitInv, EntriesInv, EntryOK
<1>2. WaitInv => ClosedQueueForgotten
  BY <1>1 DEF ClosedQueueForgotten
<1>3. QED
  BY <1>2, WaitInvariant, PTL

=============================================================================
