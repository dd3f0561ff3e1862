------------------------------ MODULE PipeAbs -------------------------------
(***************************************************************************)
(* What a pipe promises: a first-in first-out queue of at most PIPESIZE    *)
(* bytes with two ends, each closed once.  Bytes come out once, in the     *)
(* order in which they went in, also across the wrap-around of the         *)
(* counters of pipe.c, which this specification does not have.             *)
(***************************************************************************)
EXTENDS Naturals, Sequences

CONSTANTS Byte, PIPESIZE

VARIABLES q,           \* the bytes in the pipe, oldest first
          readopen,    \* the read end is open
          writeopen    \* the write end is open

Init == q = <<>> /\ readopen = TRUE /\ writeopen = TRUE

Put(b) ==
  /\ writeopen /\ Len(q) < PIPESIZE
  /\ q' = Append(q, b)
  /\ UNCHANGED <<readopen, writeopen>>

Get ==
  /\ readopen /\ q # <<>>
  /\ q' = Tail(q)
  /\ UNCHANGED <<readopen, writeopen>>

CloseRead == readopen /\ readopen' = FALSE /\ UNCHANGED <<q, writeopen>>
CloseWrite == writeopen /\ writeopen' = FALSE /\ UNCHANGED <<q, readopen>>

Next == (\E b \in Byte : Put(b)) \/ Get \/ CloseRead \/ CloseWrite

Spec == Init /\ [][Next]_<<q, readopen, writeopen>>
=============================================================================
