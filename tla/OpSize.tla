------------------------------- MODULE OpSize -------------------------------
(***************************************************************************)
(* How much of the log one piece of filewrite() uses, with the constants   *)
(* of param.h and fs.h as they are: a process writes along a file, and     *)
(* `logged` is the set of blocks the transaction hands to log_write().     *)
(***************************************************************************)
EXTENDS Naturals, FiniteSets

CONSTANTS LOGSIZE, MAXOPBLOCKS,   \* param.h
          BSIZE, NDIRECT, NINDIRECT,   \* fs.h
          Sizes0,    \* the size of the file before the first write
          Lengths    \* the lengths the process passes to write()

OpSizeAssumption ==
  {LOGSIZE, MAXOPBLOCKS, BSIZE, NDIRECT, NINDIRECT} \subseteq Nat \ {0}

VARIABLES size, off,   \* ip->size, f->off
          left,        \* bytes of the write() still to go
          logged

vars == <<size, off, left, logged>>

Init == size \in Sizes0 /\ off = 0 /\ left = 0 /\ logged = {}

(* Mutant: filewrite() does not limit a piece.                             *)
PieceWhole(n) == n

\* int max = ((LOGSIZE-1-1-2) / 2) * 512
Piece(n) ==
  LET max == ((LOGSIZE - 1 - 1 - 2) \div 2) * 512
  IN IF n > max THEN max ELSE n

\* What writei() and what it calls log: the data blocks, the bitmap block for
\* the new ones, the indirect block if a new one is listed there, the inode.
Logged(n) ==
  LET data == off \div BSIZE .. (off + n - 1) \div BSIZE
      new == {k \in data : k * BSIZE >= size}
  IN {<<"data", k>> : k \in data}
     \union (IF new = {} THEN {} ELSE {<<"bitmap", 0>>})
     \union (IF \E k \in new : k >= NDIRECT THEN {<<"indirect", 0>>} ELSE {})
     \union (IF off + n > size THEN {<<"inode", 0>>} ELSE {})

CallWrite(n) == left = 0 /\ left' = n /\ UNCHANGED <<size, off, logged>>

\* One turn of the loop: writei() refuses to go beyond MAXFILE blocks.
Filewrite ==
  LET n1 == Piece(left) IN
  /\ left > 0
  /\ IF off + n1 > (NDIRECT + NINDIRECT) * BSIZE
       THEN left' = 0 /\ logged' = {} /\ UNCHANGED <<size, off>>
       ELSE /\ logged' = Logged(n1)
            /\ off' = off + n1
            /\ size' = IF off + n1 > size THEN off + n1 ELSE size
            /\ left' = left - n1

Next == Filewrite \/ \E n \in Lengths : CallWrite(n)

Spec == Init /\ [][Next]_vars

-----------------------------------------------------------------------------
(* A piece of filewrite() fits the log when it has it to itself, as the    *)
(* comment in filewrite() intends.                                         *)
FitsLog == Cardinality(logged) <= LOGSIZE - 1

=============================================================================
