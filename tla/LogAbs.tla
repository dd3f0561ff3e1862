------------------------------ MODULE LogAbs --------------------------------
(***************************************************************************)
(* What the log promises: the file system's blocks as the system calls see *)
(* them, and the blocks as they would be found after a crash.  The second  *)
(* only ever becomes a copy of the first while no call is in progress, so  *)
(* a crash keeps all of a call's writes or none.                           *)
(***************************************************************************)
EXTENDS Naturals

CONSTANTS Block, Val, InitDisk

VARIABLES mem,      \* the blocks as system calls read and write them
          stable,   \* the blocks a recovery would find
          ops       \* how many calls are between begin_op() and end_op()

Init == mem = InitDisk /\ stable = InitDisk /\ ops = 0

Begin == ops' = ops + 1 /\ UNCHANGED <<mem, stable>>
End == ops > 0 /\ ops' = ops - 1 /\ UNCHANGED <<mem, stable>>

Write(b, v) ==
  /\ ops > 0
  /\ mem' = [mem EXCEPT ![b] = v]
  /\ UNCHANGED <<stable, ops>>

Commit == ops = 0 /\ stable' = mem /\ UNCHANGED <<mem, ops>>

Crash == ops' = 0 /\ mem' = stable /\ UNCHANGED stable

Next == Begin \/ End \/ Commit \/ Crash \/ \E b \in Block, v \in Val : Write(b, v)

Spec == Init /\ [][Next]_<<mem, stable, ops>>
=============================================================================
