------------------------------ MODULE RadixLookup ------------------------------
(***************************************************************************)
(* The page cache's index (kernel/src/lib/radix_tree.c): mutations bracket *)
(* themselves with a sequence counter under the tree lock, lockless        *)
(* lookups validate it, and every lookup of a file shares one remembered   *)
(* leaf, three plain words of the node: chunk, leaf and sequence.          *)
(*                                                                         *)
(* A leaf is a level-1 node; one slot per leaf is enough to tell leaves    *)
(* apart, so a chunk stands for an index and inner levels are the function *)
(* root.  A leaf that leaves the tree is freed after a grace period, the   *)
(* promise VfsRcu is about: when the lookups that were under way are over. *)
(***************************************************************************)
EXTENDS Naturals, FiniteSets, Null

CONSTANTS Readers, Chunks, Leaves, Pages,
          CacheUsers, \* the lookups that go through the remembered leaf
          MaxSeq      \* bound on the mutation counter

ASSUME RadixConstants ==
    /\ None \notin Readers \cup Chunks \cup Leaves \cup Pages
    /\ CacheUsers \subseteq Readers
    /\ MaxSeq \in Nat

VARIABLES
    seq,       \* tree->seq
    root,      \* the leaf each chunk leads to
    slot,      \* the page each leaf holds
    free,      \* leaves in the allocator
    waiting,   \* for a retired leaf, the lookups its grace period waits for
    cached,    \* [chunk, leaf, seq]: pc_cache_chunk, pc_cache_leaf, pc_cache_seq
    mutating,  \* what the holder of tree->lock has done: "no" when it is free
    at, want, s1, leaf, value   \* each lookup's position, argument and locals

treeVars == <<seq, root, slot, free, waiting, mutating>>
locals == <<at, want, s1, leaf, value>>
radixVars == <<treeVars, cached, locals>>

RadixInit ==
    /\ seq = 0
    /\ root = [k \in Chunks |-> None]
    /\ slot = [l \in Leaves |-> None]
    /\ free = Leaves
    /\ waiting = [l \in Leaves |-> {}]
    /\ cached = [chunk |-> None, leaf |-> None, seq |-> 0]
    /\ mutating = "no"
    /\ at = [r \in Readers |-> "idle"]
    /\ want = [r \in Readers |-> None]
    /\ s1 = [r \in Readers |-> 0]
    /\ leaf = [r \in Readers |-> None]
    /\ value = [r \in Readers |-> None]

\* No state: only another module of the run moves.
RadixAbsent ==
    /\ seq = None /\ root = None /\ slot = None /\ free = None
    /\ waiting = None /\ cached = None /\ mutating = None /\ at = None
    /\ want = None /\ s1 = None /\ leaf = None /\ value = None

RadixPresent == seq # None

-----------------------------------------------------------------------------
(* Mutations, under tree->lock *)

radix_mut_lock ==
    /\ mutating = "no" /\ seq < MaxSeq
    /\ mutating' = "begun"
    /\ seq' = seq + 1
    /\ UNCHANGED <<root, slot, free, waiting, cached, locals>>

\* Insert: the fresh leaf is published before its slot is filled.
AttachLeaf(k, l) ==
    /\ mutating = "begun" /\ root[k] = None /\ l \in free
    /\ mutating' = "attached"
    /\ free' = free \ {l}
    /\ slot' = [slot EXCEPT ![l] = None]
    /\ root' = [root EXCEPT ![k] = l]
    /\ UNCHANGED <<seq, waiting, cached, locals>>

asc_radix_tree_insert(k, p) ==
    /\ mutating = "attached" /\ root[k] # None /\ slot[root[k]] = None
    /\ \A l \in Leaves : slot[l] # p
    /\ mutating' = "done"
    /\ slot' = [slot EXCEPT ![root[k]] = p]
    /\ UNCHANGED <<seq, root, free, waiting, cached, locals>>

\* Delete: the slot is cleared and the empty leaf unlinked and retired.
asc_radix_tree_delete(k) ==
    /\ mutating = "begun" /\ root[k] # None
    /\ mutating' = "done"
    /\ slot' = [slot EXCEPT ![root[k]] = None]
    /\ root' = [root EXCEPT ![k] = None]
    /\ waiting' = [waiting EXCEPT ![root[k]] = {r \in Readers : at[r] # "idle"}]
    /\ UNCHANGED <<seq, free, cached, locals>>

\* "begun": nothing to delete, a page already there, or no memory.
radix_mut_unlock ==
    /\ mutating \in {"begun", "done"}
    /\ mutating' = "no"
    /\ seq' = seq + 1
    /\ UNCHANGED <<root, slot, free, waiting, cached, locals>>

\* The drainer, after the grace period.
FreeLeaf(l) ==
    /\ l \notin free /\ waiting[l] = {} /\ \A k \in Chunks : root[k] # l
    /\ free' = free \cup {l}
    /\ UNCHANGED <<seq, root, slot, waiting, mutating, cached, locals>>

-----------------------------------------------------------------------------
(* asc_radix_tree_lookup_lockless_cached(), interrupts off *)

RadixStep(r, from, to) == at[r] = from /\ at' = [at EXCEPT ![r] = to]

\* A lookup returns: its section and its locals are over.
Leave(r, from, v) ==
    /\ RadixStep(r, from, "idle")
    /\ value' = [value EXCEPT ![r] = v]
    /\ want' = [want EXCEPT ![r] = None]
    /\ s1' = [s1 EXCEPT ![r] = 0]
    /\ leaf' = [leaf EXCEPT ![r] = None]
    /\ waiting' = [l \in Leaves |-> waiting[l] \ {r}]
    /\ UNCHANGED <<seq, root, slot, free, mutating, cached>>

LookupBegin(r, k) ==
    /\ RadixStep(r, "idle", IF seq % 2 = 1 THEN "unstable" ELSE IF r \in CacheUsers THEN "chunk" ELSE "walk")
    /\ want' = [want EXCEPT ![r] = k]
    /\ s1' = [s1 EXCEPT ![r] = seq]
    /\ UNCHANGED <<treeVars, cached, leaf, value>>

\* A mutation is in flight, or crossed the walk: nothing is returned.
LookupUnstable(r) == Leave(r, "unstable", None)

\* The three words are compared one after the other.
TestChunk(r) ==
    /\ RadixStep(r, "chunk", IF cached.chunk = want[r] THEN "leaf" ELSE "walk")
    /\ UNCHANGED <<treeVars, cached, want, s1, leaf, value>>

TestLeaf(r) ==
    /\ RadixStep(r, "leaf", IF cached.leaf # None THEN "seq" ELSE "walk")
    /\ leaf' = [leaf EXCEPT ![r] = cached.leaf]
    /\ UNCHANGED <<treeVars, cached, want, s1, value>>

\* mutant: a remembered leaf is used whatever the tree did since
SeqIgnored(r) == TRUE
SeqMatches(r) == cached.seq = s1[r]

TestSeq(r) ==
    /\ RadixStep(r, "seq", IF SeqMatches(r) THEN "load" ELSE "walk")
    /\ UNCHANGED <<treeVars, cached, want, s1, leaf, value>>

\* The walk from the root to the level-1 node.
Walk(r) ==
    /\ at[r] = "walk"
    /\ RadixStep(r, "walk", IF root[want[r]] = None THEN "check" ELSE "walkload")
    /\ leaf' = [leaf EXCEPT ![r] = root[want[r]]]
    /\ value' = [value EXCEPT ![r] = None]
    /\ UNCHANGED <<treeVars, cached, want, s1>>

WalkLoad(r) ==
    /\ RadixStep(r, "walkload", IF r \in CacheUsers THEN "putchunk" ELSE "check")
    /\ value' = [value EXCEPT ![r] = slot[leaf[r]]]
    /\ UNCHANGED <<treeVars, cached, want, s1, leaf>>

\* The remembered leaf is replaced by three plain stores.
PutChunk(r) ==
    /\ RadixStep(r, "putchunk", "putleaf")
    /\ cached' = [cached EXCEPT !.chunk = want[r]]
    /\ UNCHANGED <<treeVars, want, s1, leaf, value>>

PutLeaf(r) ==
    /\ RadixStep(r, "putleaf", "putseq")
    /\ cached' = [cached EXCEPT !.leaf = leaf[r]]
    /\ UNCHANGED <<treeVars, want, s1, leaf, value>>

PutSeq(r) ==
    /\ RadixStep(r, "putseq", "check")
    /\ cached' = [cached EXCEPT !.seq = s1[r]]
    /\ UNCHANGED <<treeVars, want, s1, leaf, value>>

LoadSlot(r) ==
    /\ RadixStep(r, "load", "check")
    /\ value' = [value EXCEPT ![r] = slot[leaf[r]]]
    /\ UNCHANGED <<treeVars, cached, want, s1, leaf>>

\* mutant: the lookup is not validated
NoValidation(r) == TRUE
Stable(r) == seq = s1[r]

LookupReturn(r) == Leave(r, "check", IF Stable(r) THEN value[r] ELSE None)

Lookup(r) ==
    \/ \E k \in Chunks : LookupBegin(r, k)
    \/ LookupUnstable(r) \/ TestChunk(r) \/ TestLeaf(r) \/ TestSeq(r) \/ Walk(r)
    \/ PutChunk(r) \/ PutLeaf(r) \/ PutSeq(r) \/ LoadSlot(r)
    \/ WalkLoad(r) \/ LookupReturn(r)

RadixNext ==
    \/ radix_mut_lock \/ radix_mut_unlock
    \/ \E k \in Chunks : \/ asc_radix_tree_delete(k)
                         \/ \E l \in Leaves : AttachLeaf(k, l)
                         \/ \E p \in Pages : asc_radix_tree_insert(k, p)
    \/ \E l \in Leaves : FreeLeaf(l)
    \/ \E r \in Readers : Lookup(r)

RadixSpec == RadixInit /\ [][RadixNext]_radixVars

-----------------------------------------------------------------------------
\* The state's types; the counter is even exactly when no mutation is open.
RadixTypeOK ==
    /\ (seq % 2 = 0) <=> (mutating = "no")
    /\ seq \in Nat /\ mutating \in {"no", "begun", "attached", "done"}
    /\ root \in [Chunks -> Leaves \cup {None}]
    /\ slot \in [Leaves -> Pages \cup {None}]
    /\ free \subseteq Leaves
    /\ waiting \in [Leaves -> SUBSET Readers]
    /\ cached \in [chunk : Chunks \cup {None}, leaf : Leaves \cup {None}, seq : Nat]
    /\ at \in [Readers -> {"idle", "unstable", "chunk", "leaf", "seq", "walk", "putchunk",
                           "putleaf", "putseq", "load", "walkload", "check"}]
    /\ want \in [Readers -> Chunks \cup {None}]
    /\ s1 \in [Readers -> Nat]
    /\ leaf \in [Readers -> Leaves \cup {None}]
    /\ value \in [Readers -> Pages \cup {None}]

(***************************************************************************)
(* "On a stable return the value is the same one asc_radix_tree_lookup()   *)
(* would return" (radix_tree.h): what a lookup is about to return as       *)
(* stable, the counter being unchanged, is what the tree holds for that    *)
(* index.                                                                  *)
(***************************************************************************)
LookupAgrees ==
    RadixPresent =>
      \A r \in Readers : at[r] = "check" /\ Stable(r) =>
          value[r] = IF root[want[r]] = None THEN None ELSE slot[root[want[r]]]

(***************************************************************************)
(* A lookup never reads a leaf that went back to the allocator, however    *)
(* long ago that leaf was remembered.                                      *)
(***************************************************************************)
LeafAlive ==
    RadixPresent =>
      \A r \in Readers : at[r] \in {"load", "walkload"} => leaf[r] \notin free

-----------------------------------------------------------------------------
(* The strengthening of both for a remembered leaf with one user.  Nothing   *)
(* outside the tree and its counter is needed for the lookups without it.    *)

\* The leaf is not given back before r is done: it is in the tree, or its
\* grace period waits for r.
Protected(r, l) ==
    /\ l \in Leaves \ free
    /\ (\E k \in Chunks : root[k] = l) \/ r \in waiting[l]

\* Leaves of the tree are allocated, and one chunk's each.
TreeInv ==
    \A k \in Chunks : root[k] # None =>
        root[k] \notin free /\ \A j \in Chunks : root[j] = root[k] => j = k

\* The mutations since the lookup began, or the leaf was remembered, are
\* visible in the counter.
SeenMutation(s) == s <= seq /\ (mutating # "no" => s < seq)

Unfinished == \E r \in CacheUsers : at[r] \in {"putleaf", "putseq"}

CacheInv ==
    /\ SeenMutation(cached.seq)
    /\ cached.leaf # None => cached.chunk # None
    /\ cached.leaf # None /\ cached.seq = seq /\ ~Unfinished => root[cached.chunk] = cached.leaf

Puts == {"putchunk", "putleaf", "putseq"}

\* What the lookup r knows where it is.
LookupInv(r) ==
    /\ at[r] # "idle" => want[r] # None
    /\ at[r] \notin {"idle", "unstable"} => SeenMutation(s1[r])
    /\ at[r] \in {"chunk", "leaf", "seq"} \cup Puts => r \in CacheUsers
    /\ at[r] \in {"chunk", "leaf", "seq"} /\ cached.leaf # None /\ cached.seq = s1[r] =>
         /\ Protected(r, cached.leaf)
         /\ s1[r] = seq => root[cached.chunk] = cached.leaf
    /\ at[r] \in {"leaf", "seq"} => cached.chunk = want[r]
    /\ at[r] = "seq" => leaf[r] = cached.leaf /\ leaf[r] # None
    /\ at[r] \in {"load", "walkload"} => Protected(r, leaf[r])
    /\ at[r] \in {"load", "walkload"} \cup Puts =>
         leaf[r] # None /\ (s1[r] = seq => root[want[r]] = leaf[r])
    /\ at[r] \in Puts /\ s1[r] = seq => value[r] = slot[leaf[r]]
    /\ at[r] = "putleaf" => cached.chunk = want[r]
    /\ at[r] = "putseq" => cached.chunk = want[r] /\ cached.leaf = leaf[r]
    /\ at[r] = "check" /\ Stable(r) =>
         value[r] = IF root[want[r]] = None THEN None ELSE slot[root[want[r]]]

RadixInv == RadixTypeOK /\ TreeInv /\ CacheInv /\ \A r \in Readers : LookupInv(r)
=============================================================================
