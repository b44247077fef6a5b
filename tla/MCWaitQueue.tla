---------------------------- MODULE MCWaitQueue ----------------------------
(* TLC instances of WaitQueue: waiters and wakers are interchangeable. *)
EXTENDS WaitQueue, TLC

Symmetry == Permutations(Threads) \cup Permutations(Wakers)

=============================================================================
