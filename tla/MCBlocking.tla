------------------------------ MODULE MCBlocking ------------------------------
(* Threads that wait for one another's steps: for a page to be filled        *)
(* (PageCache), for a command to complete (Nvme), for a futex word to change *)
(* (Futex).  In a behaviour one of them moves and the others are absent.     *)
EXTENDS MCPageCache, Nvme, Futex

VARIABLE subject    \* the module that moves

MCHashes == {[k \in Words |-> IF k = "a" THEN 0 ELSE 1], [k \in Words |-> 0]}

On(k, n) == [key |-> k, n |-> n]

MCCalls ==
    {[store |-> "a", cond |-> FALSE, move |-> 0, wakes |-> <<On("a", 1)>>],
     [store |-> "a", cond |-> FALSE, move |-> 0, wakes |-> <<On("a", 2)>>],
     [store |-> "b", cond |-> TRUE, move |-> 0, wakes |-> <<On("a", 1), On("b", 2)>>],
     [store |-> "a", cond |-> FALSE, move |-> 1, wakes |-> <<On("a", 1), On("b", 2)>>]}

BlockingInit ==
    \/ subject = "cache" /\ CacheInit /\ NvmeAbsent /\ FutexAbsent
    \/ subject = "nvme" /\ NvmeInit /\ CacheAbsent /\ FutexAbsent
    \/ subject = "futex" /\ FutexInit /\ CacheAbsent /\ NvmeAbsent

BlockingNext ==
    \/ subject = "cache" /\ CacheNext /\ UNCHANGED <<subject, nvmeVars, futexVars>>
    \/ subject = "nvme" /\ NvmeNext /\ UNCHANGED <<subject, cacheVars, futexVars>>
    \/ subject = "futex" /\ FutexNext /\ UNCHANGED <<subject, cacheVars, nvmeVars>>

BlockingSpec ==
    /\ BlockingInit
    /\ [][BlockingNext]_<<subject, cacheVars, nvmeVars, futexVars>>

(* Sets of different modules may have the same elements: only one is there.  *)
Symmetry == Permutations(Threads) \cup Permutations(Wakers)
==============================================================================
