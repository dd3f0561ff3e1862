------------------------------- MODULE MCProc -------------------------------
(* Instances of Proc for TLC. *)
EXTENDS Proc
CONSTANTS c0, c1
OneCPU == {c0}
TwoCPUs == {c0, c1}
=============================================================================
