------------------------------- MODULE MCLog --------------------------------
(* Two processes, three blocks, and a log that has room for one call.      *)
EXTENDS Log

CONSTANTS p1, p2, b1, b2, b3

Procs == {p1, p2}
Blocks == {b1, b2, b3}
Zeros == [x \in Blocks |-> 0]
=============================================================================
