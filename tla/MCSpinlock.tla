---------------------------- MODULE MCSpinlock ----------------------------
(* Instance of Spinlock for TLC: two CPUs, two nested locks. *)
EXTENDS Spinlock
=============================================================================
