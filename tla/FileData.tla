------------------------------ MODULE FileData ------------------------------
(***************************************************************************)
(* The contents of files: the free map (balloc, bfree), block addresses    *)
(* (bmap, itrunc), readi and writei of fs.c, fileread and filewrite of     *)
(* file.c, on the image mkfs.c makes.                                      *)
(*                                                                         *)
(* A block is BSIZE cells; a cell is a byte of data or, in an indirect     *)
(* block, a block number.  What happens under an inode's lock is one step; *)
(* filewrite() lets go of it between its pieces.  A caller's bytes are all *)
(* alike, and the byte tells the callers apart.  Offsets are unsigned ints *)
(* modulo WORD.                                                            *)
(***************************************************************************)
EXTENDS Integers, Sequences, FiniteSets, FiniteSetsExt

CONSTANTS BSIZE, NDIRECT, NINDIRECT, BPB, WORD,
          NMETA,        \* boot, super, log, inode and bitmap blocks
          FSSIZE,       \* sb.size
          PIECE,        \* max of filewrite(), in bytes
          Files0,       \* the bytes mkfs puts in each inode, the root first
          File, Proc, Byte,
          Writes,       \* how many bytes the calls write
          Reads         \* how many they read

FileDataAssumption ==
  /\ {BSIZE, NDIRECT, BPB, NMETA, FSSIZE, PIECE, WORD} \subseteq Nat \ {0}
  /\ NINDIRECT = BSIZE
  /\ Files0 \in Seq(Seq(Byte)) /\ Writes \subseteq Nat /\ Reads \subseteq Nat

VARIABLES fs,     \* the disk: blocks, free map, inodes
          file,   \* struct file: ip and off
          wr      \* a filewrite() in progress

vars == <<fs, file, wr>>

INum == DOMAIN Files0
ROOTINO == 1
MAXFILE == NDIRECT + NINDIRECT
Zero == [c \in 0 .. BSIZE - 1 |-> 0]
Uint(n) == n % WORD

-----------------------------------------------------------------------------
(* mkfs *)

\* iappend(), a byte at a time: blocks are taken one after the other.
RECURSIVE Iappend(_, _, _)
Iappend(img, i, src) ==
  IF src = <<>> THEN img ELSE
  LET off == img.ino[i].size
      fbn == off \div BSIZE
      ind == img.ino[i].addrs[NDIRECT]
      direct == fbn < NDIRECT
      one == IF direct \/ ind # 0 THEN img
             ELSE [img EXCEPT !.ino[i].addrs[NDIRECT] = img.freeblock, !.freeblock = @ + 1]
      table == one.ino[i].addrs[NDIRECT]
      old == IF direct THEN one.ino[i].addrs[fbn] ELSE one.blk[table][fbn - NDIRECT]
      two == IF old # 0 THEN one
             ELSE IF direct
               THEN [one EXCEPT !.ino[i].addrs[fbn] = one.freeblock, !.freeblock = @ + 1]
               ELSE [one EXCEPT !.blk[table][fbn - NDIRECT] = one.freeblock, !.freeblock = @ + 1]
      x == IF direct THEN two.ino[i].addrs[fbn] ELSE two.blk[table][fbn - NDIRECT]
  IN Iappend([two EXCEPT !.blk[x][off % BSIZE] = Head(src), !.ino[i].size = off + 1], i, Tail(src))

RECURSIVE AppendAll(_, _)
AppendAll(img, i) == IF i > Len(Files0) THEN img ELSE AppendAll(Iappend(img, i, Files0[i]), i + 1)

\* "fix size of root inode dir"
FixRoot(size) == (size \div BSIZE + 1) * BSIZE

Mkfs ==
  LET empty == [blk |-> [b \in 0 .. FSSIZE - 1 |-> Zero], freeblock |-> NMETA,
                ino |-> [i \in INum |-> [size |-> 0, addrs |-> [a \in 0 .. NDIRECT |-> 0]]]]
      img == AppendAll(empty, 1)
  IN [blk |-> img.blk,
      ino |-> [img.ino EXCEPT ![ROOTINO].size = FixRoot(@)],
      map |-> [m \in 0 .. (FSSIZE - 1) \div BPB |->
                 {c \in 0 .. BPB - 1 : m * BPB + c < img.freeblock}]]

-----------------------------------------------------------------------------
(* fs.c: each operator takes the disk and returns it changed *)

InUse(s, b) == b % BPB \in s.map[b \div BPB]

\* balloc(): the first free block, zeroed; it panics when there is none.
Balloc(s) ==
  LET b == Min({c \in 0 .. FSSIZE - 1 : ~InUse(s, c)})
  IN [fs |-> [s EXCEPT !.map[b \div BPB] = @ \union {b % BPB}, !.blk[b] = Zero], addr |-> b]

Bfree(s, b) == [s EXCEPT !.map[b \div BPB] = @ \ {b % BPB}]

\* bmap(): the address of block bn of inode i, allocated if need be.
Bmap(s, i, bn) ==
  LET addrs == s.ino[i].addrs
      k == bn - NDIRECT
      new == Balloc(s)
      table == IF addrs[NDIRECT] # 0 THEN [fs |-> s, addr |-> addrs[NDIRECT]]
               ELSE [fs |-> [new.fs EXCEPT !.ino[i].addrs[NDIRECT] = new.addr], addr |-> new.addr]
      next == Balloc(table.fs)
  IN IF bn < NDIRECT
     THEN IF addrs[bn] # 0 THEN [fs |-> s, addr |-> addrs[bn]]
          ELSE [fs |-> [new.fs EXCEPT !.ino[i].addrs[bn] = new.addr], addr |-> new.addr]
     ELSE IF table.fs.blk[table.addr][k] # 0
          THEN [fs |-> table.fs, addr |-> table.fs.blk[table.addr][k]]
          ELSE [fs |-> [next.fs EXCEPT !.blk[table.addr][k] = next.addr], addr |-> next.addr]

\* The blocks of an inode, the indirect block included.
Blocks(s, i) ==
  LET addrs == s.ino[i].addrs
      table == addrs[NDIRECT]
  IN ({addrs[a] : a \in 0 .. NDIRECT}
      \union (IF table = 0 THEN {} ELSE {s.blk[table][k] : k \in 0 .. NINDIRECT - 1})) \ {0}

(* Mutant: itrunc() does not free the indirect block.                      *)
FreedBlocksButTable(s, i) == Blocks(s, i) \ {s.ino[i].addrs[NDIRECT]}

FreedBlocks(s, i) == Blocks(s, i)

\* itrunc()
Itrunc(s, i) ==
  LET freed == FoldSet(LAMBDA b, t : Bfree(t, b), s, FreedBlocks(s, i))
  IN [freed EXCEPT !.ino[i] = [size |-> 0, addrs |-> [a \in 0 .. NDIRECT |-> 0]]]

Least(a, b) == IF a < b THEN a ELSE b

RECURSIVE ReadLoop(_, _, _, _, _)
ReadLoop(s, i, off, n, out) ==
  IF n = 0 THEN [fs |-> s, ok |-> TRUE, data |-> out] ELSE
  LET m == Bmap(s, i, off \div BSIZE)
      len == Least(n, BSIZE - (off % BSIZE))
      piece == [k \in 1 .. len |-> m.fs.blk[m.addr][(off % BSIZE) + k - 1]]
  IN ReadLoop(m.fs, i, off + len, n - len, out \o piece)

(* Mutant: readi() cuts the length off at the size and forgets the offset. *)
ClipSize(size, off, n) == IF n > size THEN size ELSE n

Clip(size, off, n) == IF Uint(off + n) > size THEN size - off ELSE n

\* readi(); ok is FALSE when it returns -1.
Readi(s, i, off, n) ==
  LET size == s.ino[i].size IN
  IF off > size \/ Uint(off + n) < off THEN [fs |-> s, ok |-> FALSE, data |-> <<>>]
  ELSE ReadLoop(s, i, off, Clip(size, off, n), <<>>)

RECURSIVE WriteLoop(_, _, _, _, _)
WriteLoop(s, i, off, n, v) ==
  IF n = 0 THEN s ELSE
  LET m == Bmap(s, i, off \div BSIZE)
      len == Least(n, BSIZE - (off % BSIZE))
      cells == (off % BSIZE) .. (off % BSIZE) + len - 1
  IN WriteLoop([m.fs EXCEPT !.blk[m.addr] = [c \in DOMAIN @ |-> IF c \in cells THEN v ELSE @[c]]],
               i, off + len, n - len, v)

TooLong(off, n) == Uint(off + n) < off \/ off + n > MAXFILE * BSIZE

(* Mutant: writei() takes the end of the write for the size.               *)
NewSizeAlways(size, off) == off

NewSize(size, off) == IF off > size THEN off ELSE size

\* writei() of n bytes v; ok is FALSE when it returns -1.
Writei(s, i, off, n, v) ==
  IF off > s.ino[i].size \/ TooLong(off, n) THEN [fs |-> s, ok |-> FALSE]
  ELSE [fs |-> [WriteLoop(s, i, off, n, v) EXCEPT !.ino[i].size = NewSize(@, off + n)],
        ok |-> TRUE]

-----------------------------------------------------------------------------
NoWrite == [f |-> 0, left |-> 0, v |-> 0]

Init ==
  /\ fs = Mkfs
  /\ file = [f \in File |-> [ip |-> 0, off |-> 0]]
  /\ wr = [p \in Proc |-> NoWrite]

Busy(f) == \E p \in Proc : wr[p].f = f

Open(f, i) ==
  /\ file[f].ip = 0
  /\ file' = [file EXCEPT ![f] = [ip |-> i, off |-> 0]]
  /\ UNCHANGED <<fs, wr>>

Close(f) ==
  /\ file[f].ip # 0 /\ ~Busy(f)
  /\ file' = [file EXCEPT ![f] = [ip |-> 0, off |-> 0]]
  /\ UNCHANGED <<fs, wr>>

\* iput() of the last reference to an inode without links.
Remove(i) ==
  /\ i # ROOTINO /\ \A f \in File : file[f].ip # i
  /\ fs' = Itrunc(fs, i)
  /\ UNCHANGED <<file, wr>>

Fileread(f, n) ==
  LET r == Readi(fs, file[f].ip, file[f].off, n) IN
  /\ file[f].ip # 0
  /\ fs' = r.fs
  /\ file' = [file EXCEPT ![f].off = @ + Len(r.data)]
  /\ UNCHANGED wr

CallWrite(p, f, n, v) ==
  /\ wr[p] = NoWrite /\ file[f].ip \notin {0, ROOTINO}
  /\ wr' = [wr EXCEPT ![p] = [f |-> f, left |-> n, v |-> v]]
  /\ UNCHANGED <<fs, file>>

\* One turn of the loop of filewrite(), which ends at the first failure.
Filewrite(p) ==
  LET w == wr[p]
      n1 == Least(w.left, PIECE)
      r == Writei(fs, file[w.f].ip, file[w.f].off, n1, w.v)
  IN /\ w # NoWrite
     /\ fs' = r.fs
     /\ file' = [file EXCEPT ![w.f].off = IF r.ok THEN @ + n1 ELSE @]
     /\ wr' = [wr EXCEPT ![p] = IF r.ok /\ w.left > n1 THEN [w EXCEPT !.left = @ - n1] ELSE NoWrite]

Next ==
  \/ \E f \in File :
       \/ Close(f)
       \/ \E i \in INum : Open(f, i)
       \/ \E n \in Reads : Fileread(f, n)
       \/ \E p \in Proc, n \in Writes, v \in Byte : CallWrite(p, f, n, v)
  \/ \E i \in INum : Remove(i)
  \/ \E p \in Proc : Filewrite(p)

Spec == Init /\ [][Next]_vars

-----------------------------------------------------------------------------
Content(i) ==
  [k \in 1 .. fs.ino[i].size |->
     LET bn == (k - 1) \div BSIZE
         a == IF bn < NDIRECT THEN fs.ino[i].addrs[bn]
              ELSE fs.blk[fs.ino[i].addrs[NDIRECT]][bn - NDIRECT]
     IN fs.blk[a][(k - 1) % BSIZE]]

Pad(bytes, n) == [k \in 1 .. n |-> IF k <= Len(bytes) THEN bytes[k] ELSE 0]

(* Files behave as sequences of bytes: what the blocks of each inode hold, *)
(* in whatever order they were allocated, is what was written, and mkfs's  *)
(* image starts with the bytes it was given.                               *)
Abs == INSTANCE FileAbs
         WITH INum <- INum, File <- File, Byte <- Byte, MaxSize <- MAXFILE * BSIZE,
              content <- [i \in INum |-> Content(i)], at <- file,
              Content0 <- [i \in INum |-> IF i = ROOTINO
                                            THEN Pad(Files0[i], FixRoot(Len(Files0[i])))
                                            ELSE Files0[i]]

ImplementsFiles == Abs!Spec

(* readi() returns the bytes of the file from the offset on, and -1 for an *)
(* offset beyond its end or a range that wraps, as exec() may ask for; it  *)
(* changes nothing on disk.                                                *)
ReadsContent ==
  \A i \in INum, off \in 0 .. WORD - 1, n \in Reads :
    LET r == Readi(fs, i, off, n)
        size == fs.ino[i].size
    IN /\ r.fs = fs
       /\ r.ok = (off <= size /\ off + n < WORD)
       /\ r.ok => r.data = SubSeq(Content(i), off + 1, Least(off + n, size))

Mapped(i) == {a \in 0 .. MAXFILE - 1 : a * BSIZE < fs.ino[i].size}

(* The free map is exact: a block in use is a meta block or belongs to     *)
(* exactly one place of exactly one file, and no block of a file is free.  *)
MapExact ==
  /\ \A b \in 0 .. FSSIZE - 1 :
       InUse(fs, b) = (b < NMETA \/ \E i \in INum : b \in Blocks(fs, i))
  /\ \A i, j \in INum : i # j => Blocks(fs, i) \intersect Blocks(fs, j) = {}
  /\ \A i \in INum : Cardinality(Blocks(fs, i)) =
       Cardinality(Mapped(i)) + (IF Cardinality(Mapped(i)) > NDIRECT THEN 1 ELSE 0)
=============================================================================
