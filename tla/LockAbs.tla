------------------------------ MODULE LockAbs ------------------------------
(***************************************************************************)
(* What a spin lock promises its callers: taking and giving up a lock are  *)
(* single steps, a lock has at most one holder, and nobody takes a lock    *)
(* that is held.  Spinlock.tla, the code of spinlock.c, implements this    *)
(* specification; the other modules of the project use locks as it says.   *)
(***************************************************************************)
CONSTANTS CPU,   \* the processors
          Lock   \* the spin locks

VARIABLE held    \* held[c]: the locks processor c holds

Init == held = [c \in CPU |-> {}]

Take(c, l) ==
  /\ \A d \in CPU : l \notin held[d]
  /\ held' = [held EXCEPT ![c] = @ \union {l}]

Give(c, l) ==
  /\ l \in held[c]
  /\ held' = [held EXCEPT ![c] = @ \ {l}]

Next == \E c \in CPU, l \in Lock : Take(c, l) \/ Give(c, l)

Spec == Init /\ [][Next]_held
=============================================================================
