----------------------------- MODULE MCSpinlock -----------------------------
(* An instance of Spinlock for TLC: two processors and two nested locks. *)
EXTENDS Spinlock

CONSTANTS c1, c2

TwoCPUs == {c1, c2}
TwoLocks == {1, 2}
=============================================================================
