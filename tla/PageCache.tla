------------------------------ MODULE PageCache ------------------------------
(***************************************************************************)
(* The page cache of one file (fs/page_cache.c): demand fill, readahead,   *)
(* write-through of vfs_write, shared mappings, writeback and reclaim.     *)
(*                                                                         *)
(* Every section under node->pages_lock is one step, and so is every call  *)
(* of the file system (node->read, node->write); between them the other    *)
(* threads move.  What a page holds is a version: each write and each      *)
(* store through a mapping makes a new one.  The lockless lookup and the   *)
(* grace period that delays the free are RadixLookup and VfsRcu; here a    *)
(* lookup takes its reference at once and a released page is free.         *)
(***************************************************************************)
EXTENDS Integers, Sequences, FiniteSets, Null

CONSTANTS
    Threads,
    NKeys,      \* pages of the file
    NPages,     \* bound: vfs_page_t objects
    MaxClock,   \* bound: writes and stores
    Workloads  \* sets of what the threads may do

Keys == 1..NKeys
Pages == 1..NPages

Activities ==
    {"read", "map", "readahead", "write", "sync", "reclaim", "munmap",
     "readerror", "writeerror", "timeout", "writers"}

ASSUME PageCacheConstants ==
    /\ NKeys \in Nat \ {0} /\ NPages \in Nat /\ MaxClock \in Nat
    /\ Workloads \subseteq SUBSET Activities
    /\ None \notin Pages

VARIABLES
    ops,        \* the workload
    disk,       \* the version the file system holds of each page
    tree,       \* node->pages
    page,       \* the vfs_page_t and their frames
    map,        \* the PTE of each thread
    thread,
    clock,      \* the newest version
    completed,  \* the newest version a returned vfs_write made
    stored      \* the newest version a mapping made, 0 when none did or it is unmapped

cacheVars == <<ops, disk, tree, page, map, thread, clock, completed, stored>>

Blank ==
    [key |-> 0, val |-> -1, dirty |-> FALSE, loading |-> FALSE, uptodate |-> FALSE,
     writeback |-> FALSE, dirty_seq |-> 0, refs |-> 0, evicted |-> FALSE]

NoMap == [page |-> None, key |-> 0, dirty |-> FALSE]

(* held is the page a fill or a wait has a reference of; run the pages of a  *)
(* readahead or of a writeback batch, seqs their dirty_seq, buf the staging  *)
(* block and done how many pages the file system took.                       *)
Idle ==
    [pc |-> "idle", op |-> "none", key |-> 0, held |-> None, since |-> 0, val |-> 0,
     ok |-> TRUE, run |-> <<>>, seqs |-> <<>>, buf |-> <<>>, at |-> 1, done |-> 0]

CacheInit ==
    /\ ops \in Workloads
    /\ disk = [k \in Keys |-> 0]
    /\ tree = [k \in Keys |-> None]
    /\ page = [p \in Pages |-> Blank]
    /\ map = [t \in Threads |-> NoMap]
    /\ thread = [t \in Threads |-> Idle]
    /\ clock = 0
    /\ completed = [k \in Keys |-> 0]
    /\ stored = [k \in Keys |-> 0]

\* No state: only another module of the run moves.
CacheAbsent ==
    /\ ops = None /\ disk = None /\ tree = None /\ page = None /\ map = None
    /\ thread = None /\ clock = None /\ completed = None /\ stored = None

CachePresent == ops # None

At(t, pc) == thread[t].pc = pc

Set(t, r) == thread' = [thread EXCEPT ![t] = r]

To(t, pc) == Set(t, [thread[t] EXCEPT !.pc = pc])

Mapped(p) == \E t \in Threads : map[t].page = p

-----------------------------------------------------------------------------
(* References.  The tree owns a page without one; an evicted page is released *)
(* with the last of them, and its frame lives on in the PTEs that map it.     *)

Free(p) == page[p].key = 0 /\ ~Mapped(p)

Freed(p, r) == [Blank EXCEPT !.val = IF Mapped(p) THEN r.val ELSE -1]

vfs_page_get(r) == [r EXCEPT !.refs = @ + 1]

vfs_cache_put(p, r) ==
    IF r.refs = 1 /\ r.evicted THEN Freed(p, r) ELSE [r EXCEPT !.refs = @ - 1]

vfs_page_evict(p, r) == IF r.refs = 0 THEN Freed(p, r) ELSE [r EXCEPT !.evicted = TRUE]

Holding(p) == [page EXCEPT ![p] = vfs_page_get(@)]

Putting(p) == [page EXCEPT ![p] = vfs_cache_put(p, @)]

(* The tree without the pages of ks, and those pages evicted. *)
Deleted(ks) == [k \in Keys |-> IF k \in ks THEN None ELSE tree[k]]

Evicting(ks) ==
    [p \in Pages |-> IF \E k \in ks : tree[k] = p THEN vfs_page_evict(p, page[p])
                                                   ELSE page[p]]

-----------------------------------------------------------------------------
(* vfs_cache_read and the page fault: look, read ahead, get or create. *)

Ready(p) == ~page[p].loading /\ page[p].uptodate

(* The lookup both make first.  A page that is not ready is put again. *)
Enter(t, k, op) ==
    /\ At(t, "idle") /\ op \in ops
    /\ op = "map" => map[t] = NoMap
    /\ LET r == [Idle EXCEPT !.op = op, !.key = k, !.since = completed[k]] IN
       \/ /\ tree[k] # None /\ Ready(tree[k])
          /\ page' = Holding(tree[k])
          /\ Set(t, [r EXCEPT !.pc = "got", !.held = tree[k]])
       \/ /\ tree[k] # None => ~Ready(tree[k])
          /\ Set(t, [r EXCEPT !.pc = "lookup"])
          /\ UNCHANGED page
       \/ /\ tree[k] = None /\ "readahead" \in ops
          /\ Set(t, [r EXCEPT !.pc = "scan"])
          /\ UNCHANGED page
    /\ UNCHANGED <<ops, disk, tree, map, clock, completed, stored>>

(* vfs_cache_get_or_create: the lookup, and again under the lock when the    *)
(* candidate has been allocated.  Without memory it returns NULL.            *)
Lookup(t) ==
    /\ At(t, "lookup") \/ At(t, "create")
    /\ LET k == thread[t].key IN
       \/ /\ tree[k] # None
          /\ page' = Holding(tree[k])
          /\ Set(t, [thread[t] EXCEPT !.pc = "wait", !.held = tree[k]])
          /\ UNCHANGED tree
       \/ /\ tree[k] = None /\ At(t, "lookup")
          /\ To(t, "create")
          /\ UNCHANGED <<tree, page>>
       \/ /\ tree[k] = None /\ At(t, "create")
          /\ \A p \in Pages : ~Free(p)
          /\ Set(t, Idle)
          /\ UNCHANGED <<tree, page>>
       \/ /\ tree[k] = None /\ At(t, "create")
          /\ \E p \in Pages :
               /\ Free(p) /\ \A q \in Pages : Free(q) => p <= q
               /\ tree' = [tree EXCEPT ![k] = p]
               /\ page' = [page EXCEPT ![p] = [Blank EXCEPT !.key = k,
                                                 !.loading = TRUE, !.refs = 1]]
               /\ Set(t, [thread[t] EXCEPT !.pc = "fill", !.held = p])
    /\ UNCHANGED <<ops, disk, map, clock, completed, stored>>

(* The wait for another filler.  A page whose fill failed, or took too long, *)
(* is put, then whatever page the tree has there is invalidated.             *)
Wait(t) ==
    /\ At(t, "wait")
    /\ LET p == thread[t].held IN
       \/ /\ Ready(p)
          /\ To(t, "got")
          /\ UNCHANGED page
       \/ /\ ~page[p].loading /\ ~page[p].uptodate
          /\ page' = Putting(p)
          /\ Set(t, [thread[t] EXCEPT !.pc = "drop", !.held = None])
       \/ /\ page[p].loading /\ "timeout" \in ops
          /\ page' = Putting(p)
          /\ \E pc \in {"drop", "abandon"} :
               Set(t, [thread[t] EXCEPT !.pc = pc, !.held = None])
    /\ UNCHANGED <<ops, disk, tree, map, clock, completed, stored>>

(* Then the fill is tried again, until the request itself takes too long. *)
vfs_cache_invalidate(t) ==
    /\ At(t, "drop") \/ At(t, "abandon")
    /\ tree' = Deleted({thread[t].key})
    /\ page' = Evicting({thread[t].key})
    /\ \/ At(t, "drop") /\ To(t, "lookup")
       \/ At(t, "drop") /\ "timeout" \in ops /\ To(t, "abandon")
       \/ At(t, "abandon") /\ Set(t, Idle)
    /\ UNCHANGED <<ops, disk, map, clock, completed, stored>>

(* node->read: what the file system finds, and later its way to the frame. *)
Fill(t) ==
    /\ At(t, "fill")
    /\ \/ Set(t, [thread[t] EXCEPT !.pc = "land", !.val = disk[thread[t].key]])
       \/ /\ "readerror" \in ops
          /\ Set(t, [thread[t] EXCEPT !.pc = "publish", !.ok = FALSE])
    /\ UNCHANGED <<ops, disk, tree, page, map, clock, completed, stored>>

Land(t) ==
    /\ At(t, "land")
    /\ page' = [page EXCEPT ![thread[t].held].val = thread[t].val]
    /\ Set(t, [thread[t] EXCEPT !.pc = "publish", !.val = 0])
    /\ UNCHANGED <<ops, disk, tree, map, clock, completed, stored>>

Publish(t) ==
    /\ At(t, "publish")
    /\ LET p == thread[t].held
           good == thread[t].ok /\ ~page[p].evicted
       IN /\ page' = [page EXCEPT ![p].uptodate = good, ![p].loading = FALSE]
          /\ To(t, IF good THEN "got" ELSE "failed")
    /\ UNCHANGED <<ops, disk, tree, map, clock, completed, stored>>

(* The failed fill invalidates its offset, puts its page and returns NULL. *)
FillFailed(t) ==
    /\ At(t, "failed")
    /\ tree' = Deleted({thread[t].key})
    /\ page' = Evicting({thread[t].key})
    /\ To(t, "put")
    /\ UNCHANGED <<ops, disk, map, clock, completed, stored>>

(* The caller copies the page, or maps its frame, and then puts it. *)
Use(t) ==
    /\ At(t, "got")
    /\ map' = IF thread[t].op = "map"
              THEN [map EXCEPT ![t] = [page |-> thread[t].held, key |-> thread[t].key,
                                       dirty |-> FALSE]]
              ELSE map
    /\ To(t, "put")
    /\ UNCHANGED <<ops, disk, tree, page, clock, completed, stored>>

Put(t) ==
    /\ At(t, "put")
    /\ page' = Putting(thread[t].held)
    /\ Set(t, Idle)
    /\ UNCHANGED <<ops, disk, tree, map, clock, completed, stored>>

-----------------------------------------------------------------------------
(* vfs_cache_readahead, here before the lookup of a fault or a read. *)

(* The first run of missing pages from the key on. *)
Scan(t) ==
    /\ At(t, "scan")
    /\ LET Missing(k) == k \in Keys /\ tree[k] = None
           starts == {k \in Keys : k >= thread[t].key /\ Missing(k)}
           first == CHOOSE k \in starts : \A j \in starts : k <= j
           last == CHOOSE k \in starts :
                     (\A j \in first..k : Missing(j)) /\ ~Missing(k + 1)
       IN IF starts = {} THEN To(t, "lookup")
          ELSE Set(t, [thread[t] EXCEPT !.pc = "insert", !.at = first, !.done = last])
    /\ UNCHANGED <<ops, disk, tree, page, map, clock, completed, stored>>

(* Candidates are inserted until one of the pages exists, or memory is out. *)
Insert(t) ==
    /\ At(t, "insert")
    /\ LET first == thread[t].at
           free == {p \in Pages : Free(p)}
           fits == {n \in 0..Cardinality(free) :
                      /\ first + n - 1 <= thread[t].done
                      /\ \A k \in first..(first + n - 1) : tree[k] = None}
           n == CHOOSE n \in fits : \A m \in fits : m <= n
           Nth(i) == CHOOSE p \in free : Cardinality({q \in free : q < p}) = i - 1
       IN IF n = 0 THEN /\ To(t, "lookup")
                        /\ UNCHANGED <<tree, page>>
          ELSE /\ tree' = [k \in Keys |-> IF k \in first..(first + n - 1)
                                          THEN Nth(k - first + 1) ELSE tree[k]]
               /\ page' = [p \in Pages |->
                            IF \E i \in 1..n : p = Nth(i)
                            THEN [Blank EXCEPT !.loading = TRUE, !.refs = 1,
                                    !.key = CHOOSE k \in Keys : tree'[k] = p]
                            ELSE page[p]]
               /\ Set(t, [thread[t] EXCEPT !.pc = "bulk", !.at = 1, !.done = n,
                                           !.run = [i \in 1..n |-> Nth(i)]])
    /\ UNCHANGED <<ops, disk, map, clock, completed, stored>>

(* The transfer, and when it fails the pages one by one until one fails. *)
BulkRead(t) ==
    /\ At(t, "bulk")
    /\ \E n \in 0..Len(thread[t].run) :
         /\ n < Len(thread[t].run) => "readerror" \in ops
         /\ Set(t, [thread[t] EXCEPT !.pc = "bulk_land",
                       !.buf = [i \in 1..n |-> disk[page[thread[t].run[i]].key]]])
    /\ UNCHANGED <<ops, disk, tree, page, map, clock, completed, stored>>

BulkLand(t) ==
    /\ At(t, "bulk_land")
    /\ LET s == thread[t] IN
       /\ page' = [p \in Pages |->
                    IF \E i \in DOMAIN s.buf : s.run[i] = p
                    THEN [page[p] EXCEPT
                            !.val = s.buf[CHOOSE i \in DOMAIN s.buf : s.run[i] = p]]
                    ELSE page[p]]
       /\ Set(t, [s EXCEPT !.pc = "bulk_publish", !.done = Len(s.buf), !.buf = <<>>])
    /\ UNCHANGED <<ops, disk, tree, map, clock, completed, stored>>

(* Unlike a single fill this does not ask whether the page was evicted. *)
BulkPublish(t) ==
    /\ At(t, "bulk_publish")
    /\ page' = [p \in Pages |->
                 IF \E i \in DOMAIN thread[t].run : thread[t].run[i] = p
                 THEN [page[p] EXCEPT
                         !.uptodate = \E i \in 1..thread[t].done : thread[t].run[i] = p,
                         !.loading = FALSE]
                 ELSE page[p]]
    /\ To(t, "bulk_end")
    /\ UNCHANGED <<ops, disk, tree, map, clock, completed, stored>>

(* Each offset that could not be read is invalidated; then the pages are put. *)
BulkDrop(t) ==
    /\ At(t, "bulk_end") /\ thread[t].done < Len(thread[t].run)
    /\ LET k == page[thread[t].run[thread[t].done + 1]].key IN
       /\ tree' = Deleted({k})
       /\ page' = Evicting({k})
    /\ Set(t, [thread[t] EXCEPT !.done = @ + 1])
    /\ UNCHANGED <<ops, disk, map, clock, completed, stored>>

InRun(t, p) == \E i \in DOMAIN thread[t].run : thread[t].run[i] = p

BulkEnd(t) ==
    /\ At(t, "bulk_end") /\ thread[t].done = Len(thread[t].run)
    /\ page' = [p \in Pages |-> IF InRun(t, p) THEN vfs_cache_put(p, page[p]) ELSE page[p]]
    /\ Set(t, [Idle EXCEPT !.pc = "lookup", !.op = thread[t].op,
                           !.key = thread[t].key, !.since = thread[t].since])
    /\ UNCHANGED <<ops, disk, tree, map, clock, completed, stored>>

-----------------------------------------------------------------------------
(* vfs_write: the file system first, then the cache (a write that fails      *)
(* touches neither).  Nothing keeps two writers apart; a workload without    *)
(* "writers" has one at a time.                                              *)

Write(t, k) ==
    /\ At(t, "idle") /\ "write" \in ops /\ clock < MaxClock
    /\ "writers" \notin ops => \A u \in Threads : ~At(u, "update")
    /\ clock' = clock + 1
    /\ disk' = [disk EXCEPT ![k] = clock + 1]
    /\ Set(t, [Idle EXCEPT !.pc = "update", !.key = k, !.val = clock + 1])
    /\ UNCHANGED <<ops, tree, page, map, completed, stored>>

(* Variant: a page being loaded is written like one that is up to date. *)
RetiredUnlessLoading(p) == ~page[p].loading /\ ~page[p].uptodate

(* A page being loaded may hold what was there before: it is retired. *)
Retired(p) == page[p].loading \/ ~page[p].uptodate

(* A page whose new bytes cannot be staged from the user is dropped as well. *)
vfs_cache_update_or_invalidate(t) ==
    /\ At(t, "update")
    /\ LET k == thread[t].key
           p == tree[k]
       IN /\ \/ /\ tree' = Deleted({k})
                /\ page' = Evicting({k})
             \/ /\ p # None /\ ~Retired(p)
                /\ page' = [page EXCEPT ![p].val = thread[t].val]
                /\ UNCHANGED tree
          /\ completed' = [completed EXCEPT ![k] = thread[t].val]
    /\ Set(t, Idle)
    /\ UNCHANGED <<ops, disk, map, clock, stored>>

-----------------------------------------------------------------------------
(* Shared mappings: a store sets the dirty bit of the PTE, and only the      *)
(* teardown of the address space passes it on.                               *)

Store(t) ==
    /\ map[t] # NoMap /\ At(t, "idle") /\ clock < MaxClock
    /\ clock' = clock + 1
    /\ page' = [page EXCEPT ![map[t].page].val = clock + 1]
    /\ map' = [map EXCEPT ![t].dirty = TRUE]
    /\ stored' = [stored EXCEPT ![map[t].key] = clock + 1]
    /\ UNCHANGED <<ops, disk, tree, thread, completed>>

(* vfs_cache_mark_dirty marks the page the tree has there now. *)
Exit(t) ==
    /\ map[t] # NoMap /\ At(t, "idle")
    /\ LET p == tree[map[t].key] IN
       page' = IF map[t].dirty /\ p # None /\ page[p].uptodate
               THEN [page EXCEPT ![p].dirty = TRUE, ![p].dirty_seq = @ + 1]
               ELSE page
    /\ map' = [map EXCEPT ![t] = NoMap]
    /\ UNCHANGED <<ops, disk, tree, thread, clock, completed, stored>>

(* munmap drops the dirty bit with the PTE: nothing more is promised of what  *)
(* was stored through it.                                                    *)
Munmap(t) ==
    /\ map[t] # NoMap /\ At(t, "idle") /\ "munmap" \in ops
    /\ map' = [map EXCEPT ![t] = NoMap]
    /\ stored' = IF map[t].dirty THEN [stored EXCEPT ![map[t].key] = 0] ELSE stored
    /\ UNCHANGED <<ops, disk, tree, page, thread, clock, completed>>

-----------------------------------------------------------------------------
(* vfs_cache_sync. *)

(* The dirty pages no other sync is writing, in file order. *)
Collected == {p \in Pages : /\ \E k \in Keys : tree[k] = p
                            /\ page[p].dirty /\ ~page[p].loading /\ ~page[p].writeback}

Collect(t) ==
    /\ (At(t, "idle") /\ "sync" \in ops) \/ At(t, "collect")
    /\ LET n == Cardinality(Collected)
           Nth(i) == CHOOSE p \in Collected :
                       Cardinality({q \in Collected : page[q].key < page[p].key}) = i - 1
           batch == [i \in 1..n |-> Nth(i)]
       IN IF n = 0 THEN At(t, "collect") /\ Set(t, Idle) /\ UNCHANGED page
          ELSE /\ page' = [p \in Pages |->
                            IF p \in Collected
                            THEN vfs_page_get([page[p] EXCEPT !.writeback = TRUE])
                            ELSE page[p]]
               /\ Set(t, [Idle EXCEPT !.pc = "flush", !.run = batch,
                             !.seqs = [i \in 1..n |-> page[Nth(i)].dirty_seq]])
    /\ UNCHANGED <<ops, disk, tree, map, clock, completed, stored>>

(* The adjacent pages of the batch from at on go to one call when a staging  *)
(* block can be had, and one by one from their frames otherwise.             *)
RunEnd(t) ==
    LET s == thread[t]
        Adjacent(j) == \A i \in s.at..(j - 1) :
                          page[s.run[i + 1]].key = page[s.run[i]].key + 1
    IN CHOOSE j \in s.at..Len(s.run) :
         Adjacent(j) /\ (j < Len(s.run) => ~Adjacent(j + 1))

Stage(t) ==
    /\ At(t, "flush")
    /\ LET s == thread[t] IN
       \/ /\ RunEnd(t) > s.at
          /\ Set(t, [s EXCEPT !.pc = "staged", !.done = s.at - 1,
                               !.buf = [i \in DOMAIN s.run |-> page[s.run[i]].val]])
       \/ Set(t, [s EXCEPT !.pc = "single", !.done = s.at - 1])
    /\ UNCHANGED <<ops, disk, tree, page, map, clock, completed, stored>>

WriteStaged(t) ==
    /\ At(t, "staged")
    /\ \E n \in thread[t].done..RunEnd(t) :
         /\ n < RunEnd(t) => "writeerror" \in ops
         /\ disk' = [k \in Keys |->
                      IF \E i \in thread[t].at..n : page[thread[t].run[i]].key = k
                      THEN thread[t].buf[CHOOSE i \in thread[t].at..n :
                                           page[thread[t].run[i]].key = k]
                      ELSE disk[k]]
         /\ Set(t, [thread[t] EXCEPT !.pc = "finish", !.done = n])
    /\ UNCHANGED <<ops, tree, page, map, clock, completed, stored>>

WriteSingle(t) ==
    /\ At(t, "single")
    /\ LET i == thread[t].done + 1
           p == thread[t].run[i]
       IN \/ /\ disk' = [disk EXCEPT ![page[p].key] = page[p].val]
             /\ Set(t, [thread[t] EXCEPT !.done = i,
                           !.pc = IF i = RunEnd(t) THEN "finish" ELSE "single"])
          \/ /\ "writeerror" \in ops
             /\ To(t, "finish")
             /\ UNCHANGED disk
    /\ UNCHANGED <<ops, tree, page, map, clock, completed, stored>>

(* Variant: whatever was written is clean. *)
AnyChange(p, seq) == TRUE

(* A page marked again since it was collected stays dirty. *)
Unchanged(p, seq) == page[p].dirty_seq = seq

(* cache_sync_run_finish. *)
Finish(t) ==
    /\ At(t, "finish")
    /\ LET s == thread[t]
           end == RunEnd(t)
           ok == s.done = end
           Written(i) ==
             [page[s.run[i]] EXCEPT !.writeback = FALSE,
                !.dirty = @ /\ ~(i <= s.done /\ Unchanged(s.run[i], s.seqs[i]))]
       IN /\ page' = [p \in Pages |->
                       IF \E i \in s.at..end : s.run[i] = p
                       THEN Written(CHOOSE i \in s.at..end : s.run[i] = p)
                       ELSE page[p]]
          /\ Set(t, [s EXCEPT !.at = end + 1, !.buf = <<>>, !.ok = ok,
                        !.pc = IF ok /\ end < Len(s.run) THEN "flush" ELSE "release"])
    /\ UNCHANGED <<ops, disk, tree, map, clock, completed, stored>>

(* The pages after a failed run leave writeback still dirty; all are put.  A *)
(* batch that went through is followed by another collection.                *)
Release(t) ==
    /\ At(t, "release")
    /\ LET s == thread[t]
           Left(p) == IF \E i \in s.at..Len(s.run) : s.run[i] = p
                      THEN [page[p] EXCEPT !.writeback = FALSE] ELSE page[p]
       IN /\ page' = [p \in Pages |-> IF InRun(t, p) THEN vfs_cache_put(p, Left(p))
                                                      ELSE page[p]]
          /\ Set(t, IF s.ok THEN [Idle EXCEPT !.pc = "collect"] ELSE Idle)
    /\ UNCHANGED <<ops, disk, tree, map, clock, completed, stored>>

-----------------------------------------------------------------------------
(* vfs_cache_reclaim and vfs_cache_clear_unused. *)

Reclaimable(p) ==
    /\ page[p].refs = 0 /\ ~page[p].dirty /\ ~page[p].loading /\ ~page[p].writeback
    /\ ~Mapped(p)

Reclaim(k) ==
    /\ "reclaim" \in ops
    /\ tree[k] # None /\ Reclaimable(tree[k])
    /\ tree' = Deleted({k})
    /\ page' = Evicting({k})
    /\ UNCHANGED <<ops, disk, map, thread, clock, completed, stored>>

CacheNext ==
    \/ \E t \in Threads :
         \/ \E k \in Keys : Write(t, k) \/ \E op \in {"read", "map"} : Enter(t, k, op)
         \/ Lookup(t) \/ Wait(t) \/ vfs_cache_invalidate(t) \/ Fill(t) \/ Land(t)
         \/ Publish(t) \/ FillFailed(t) \/ Use(t) \/ Put(t)
         \/ Scan(t) \/ Insert(t) \/ BulkRead(t) \/ BulkLand(t) \/ BulkPublish(t)
         \/ BulkDrop(t) \/ BulkEnd(t)
         \/ vfs_cache_update_or_invalidate(t)
         \/ Store(t) \/ Exit(t) \/ Munmap(t)
         \/ Collect(t) \/ Stage(t) \/ WriteStaged(t) \/ WriteSingle(t) \/ Finish(t)
         \/ Release(t)
    \/ \E k \in Keys : Reclaim(k)

CacheSpec == CacheInit /\ [][CacheNext]_cacheVars

-----------------------------------------------------------------------------
(* A read returns nothing older than the last write that had returned when   *)
(* it began: a fill that read the file system before the write is never      *)
(* handed to a reader that came after it, whether the fill or the write gets *)
(* to the cache first (the retired fill of vfs_cache_update_or_invalidate).  *)
ReadsAreCurrent ==
    CachePresent =>
      \A t \in Threads :
          At(t, "got") => page[thread[t].held].val >= thread[t].since

(* What the last store through a mapping left (unless munmap dropped it, see *)
(* CleanOnDisk) is on the disk, or newer is, or it is in the page            *)
(* the tree has with something that will still write it: the page's dirty    *)
(* flag or the dirty bit of a PTE.  Stores that land while vfs_cache_sync    *)
(* writes the page, and writes that fail half way, do not lose it.           *)
StoresKept ==
    CachePresent =>
      \A k \in Keys :
          \/ disk[k] >= stored[k]
          \/ /\ tree[k] # None /\ page[tree[k]].val = stored[k]
             /\ \/ page[tree[k]].dirty
                \/ \E t \in Threads : map[t].page = tree[k] /\ map[t].dirty

(* What vfs_cache_reclaim may drop is on the disk, unless a write is about   *)
(* to reach the cache ("reclaim only needs clean unmapped pages, and their   *)
(* content is on disk").                                                     *)
CleanOnDisk ==
    \A k \in Keys :
        (/\ tree[k] # None /\ Reclaimable(tree[k]) /\ page[tree[k]].uptodate
         /\ \A t \in Threads : ~(At(t, "update") /\ thread[t].key = k))
        => page[tree[k]].val = disk[k]
=============================================================================
