----------------------------- MODULE PipeProofs -----------------------------
(***************************************************************************)
(* Proofs about Pipe for any set of processes, any size of the ring and    *)
(* any width of the counters: sleepers sleep with reason, the pipe is      *)
(* freed once and after its last user, a read of nothing means end of      *)
(* file, and the ring with its wrapping counters is the queue of PipeAbs.  *)
(***************************************************************************)
EXTENDS Pipe, FiniteSetTheorems, TLAPS

-----------------------------------------------------------------------------
(* A number below twice the modulus is reduced by one subtraction at most. *)
LEMMA ModOnce ==
  ASSUME NEW m \in Nat \ {0}, NEW a \in 0 .. 2 * m - 1
  PROVE  a % m = IF a < m THEN a ELSE a - m
  OBVIOUS

(* A multiple is at least as large as what it is a multiple of.            *)
LEMMA TimesAtLeast ==
  ASSUME NEW m \in Nat \ {0}, NEW k \in Nat \ {0}
  PROVE  k * m >= m
  OBVIOUS

(* Division with remainder.                                                *)
LEMMA DivMod ==
  ASSUME NEW m \in Nat \ {0}, NEW a \in Nat
  PROVE  /\ a \div m \in Nat /\ a % m \in 0 .. m - 1
         /\ a = (a \div m) * m + (a % m)
  OBVIOUS

(* A number determines its remainder.                                      *)
LEMMA ModUnique ==
  ASSUME NEW m \in Nat \ {0}, NEW j \in Nat, NEW k \in Nat,
         NEW r \in 0 .. m - 1, NEW s \in 0 .. m - 1, j * m + r = k * m + s
  PROVE  r = s /\ j = k
<1>1. CASE j = k
  BY <1>1
<1>2. CASE j > k
  <2>1. (j - k) * m >= m
    BY <1>2, TimesAtLeast
  <2>2. (j - k) * m = j * m - k * m
    OBVIOUS
  <2>q. QED  BY <2>1, <2>2
<1>3. CASE j < k
  <2>1. (k - j) * m >= m
    BY <1>3, TimesAtLeast
  <2>2. (k - j) * m = k * m - j * m
    OBVIOUS
  <2>q. QED  BY <2>1, <2>2
<1>q. QED  BY <1>1, <1>2, <1>3

(* Numbers less than m apart have different remainders.                    *)
LEMMA ModInjective ==
  ASSUME NEW m \in Nat \ {0}, NEW a \in Nat, NEW b \in Nat, a < b, b < a + m
  PROVE  a % m # b % m
<1> DEFINE j == a \div m  k == b \div m
<1>1. SUFFICES ASSUME a % m = b % m PROVE FALSE
  BY Zenon
<1>2. /\ j \in Nat /\ k \in Nat
      /\ a = j * m + (a % m) /\ b = k * m + (b % m)
  BY DivMod, Zenon
<1>3. b - a = (k - j) * m
  BY <1>1, <1>2
<1>4. k - j \in Nat \ {0}
  <2>1. CASE k <= j
    <3>1. j * m - k * m = (j - k) * m /\ (j - k) * m >= 0
      BY <2>1, <1>2
    <3>q. QED  BY <3>1, <1>1, <1>2
  <2>q. QED  BY <2>1, <1>2
<1>5. (k - j) * m >= m
  BY <1>4, TimesAtLeast, Zenon
<1>q. QED  BY <1>3, <1>5

(* Subtracting a multiple of m keeps the remainder.                        *)
LEMMA ModShift ==
  ASSUME NEW m \in Nat \ {0}, NEW c \in Nat, c % m = 0, NEW a \in Nat, a >= c
  PROVE  (a - c) % m = a % m
<1> DEFINE d == a - c
           j == d \div m  k == c \div m  l == a \div m  r == d % m  t == a % m
<1>1. d \in Nat
  OBVIOUS
<1> HIDE DEF d
<1>2. j \in Nat /\ r \in 0 .. m - 1 /\ d = j * m + r
  BY <1>1, DivMod, Zenon
<1>3. k \in Nat /\ c = k * m
  <2>1. k \in Nat /\ c = k * m + (c % m)
    BY DivMod, Zenon
  <2>q. QED  BY <2>1
<1>4. l \in Nat /\ t \in 0 .. m - 1 /\ a = l * m + t
  BY DivMod, Zenon
<1> HIDE DEF j, k, l, r, t
<1>5. (j + k) * m + r = l * m + t
  <2>1. (j + k) * m = j * m + k * m
    BY <1>2, <1>3
  <2>2. a = d + c
    BY DEF d
  <2>q. QED  BY <1>2, <1>3, <1>4, <2>1, <2>2
<1>6. r = t
  BY <1>2, <1>3, <1>4, <1>5, ModUnique, j + k \in Nat
<1>q. QED  BY <1>6, Zenon DEF r, t, d

-----------------------------------------------------------------------------
Openers(e) == {p \in Proc : e \in fds[p]}
IsOpen(e) == IF e = "w" THEN writeopen ELSE readopen
Using(e) == IF e = "w" THEN {"write", "wloop", "wsleep"} ELSE {"read", "rtest", "rcopy", "rsleep"}
Closing(e) == IF e = "w" THEN "closew" ELSE "closer"

Value == Byte \cup {Junk}

TypeOK ==
  /\ data \in [0 .. PIPESIZE - 1 -> Value]
  /\ nread \in 0 .. Modulus - 1 /\ nwrite \in 0 .. Modulus - 1
  /\ readopen \in BOOLEAN /\ writeopen \in BOOLEAN
  /\ lock \in Proc \cup {Nobody}
  /\ freed \in Nat /\ ref \in [Ends -> Nat]
  /\ fds \in [Proc -> SUBSET Ends]
  /\ pc \in [Proc -> PC]
  /\ n \in [Proc -> Nat] /\ i \in [Proc -> Nat]
  /\ killed \in [Proc -> BOOLEAN]

(* p->lock is held exactly by the process in a loop of pipe.c.             *)
LockExact == \A p \in Proc : lock = p <=> pc[p] \in {"wloop", "rtest", "rcopy"}

(* f->ref counts the processes with a descriptor for the end.              *)
RefExact == \A e \in Ends : ref[e] = Cardinality(Openers(e))

(* A call on an end holds a descriptor for it.  The one process that       *)
(* closes an end for good comes after the last descriptor is gone and      *)
(* finds the end open; after it there are neither.                         *)
EndExact(e) ==
  /\ \A p \in Proc : pc[p] \in Using(e) => e \in fds[p]
  /\ \A p \in Proc : pc[p] = Closing(e) =>
       IsOpen(e) /\ Openers(e) = {} /\ \A q \in Proc : pc[q] = Closing(e) => q = p
  /\ ~IsOpen(e) => Openers(e) = {} /\ \A p \in Proc : pc[p] # Closing(e)

EndsExact == EndExact("r") /\ EndExact("w")

FreedExact == freed = IF readopen \/ writeopen THEN 0 ELSE 1

(* Whoever has been killed may be killed, and nobody gains a descriptor.   *)
Inherited ==
  \A p \in Proc : (killed[p] => p \in Killable) /\ fds[p] \subseteq Opens[p]

(* A call asks for a byte at least, and a reader that has not copied any   *)
(* has found some, or end of file.                                         *)
CallExact ==
  \A p \in Proc :
    /\ pc[p] \in Using("r") \cup Using("w") => n[p] # 0
    /\ pc[p] = "rcopy" /\ i[p] = 0 => ~Empty \/ ~writeopen

(* WriterSleepsForReason, and what holds of it while p->lock is taken: a   *)
(* writer may be asleep before room in the pipe as long as a reader is     *)
(* copying, which wakes it when it is done.                                *)
WriterExact ==
  \A p \in Proc : pc[p] = "wsleep" =>
    ~killed[p] /\ readopen /\ (Full \/ \E q \in Proc : pc[q] = "rcopy")

(* The same of readers: bytes may be in the pipe while a writer is still   *)
(* writing.                                                                *)
ReaderExact ==
  \A p \in Proc : pc[p] = "rsleep" =>
    ~killed[p] /\ writeopen /\ (Empty \/ \E q \in Proc : pc[q] = "wloop")

IInv ==
  /\ TypeOK /\ LockExact /\ RefExact /\ EndsExact /\ FreedExact
  /\ Inherited /\ CallExact /\ WriterExact /\ Bounded
-----------------------------------------------------------------------------
Dist(x, y) == (y + Modulus - x) % Modulus
Succ(x) == (x + 1) % Modulus

(* Counting modulo Modulus: how far nwrite is ahead of nread, x and y      *)
(* here, and what incrementing either does to that.                        *)
LEMMA Counters ==
  ASSUME NEW x \in 0 .. Modulus - 1, NEW y \in 0 .. Modulus - 1
  PROVE  /\ Dist(x, y) \in 0 .. Modulus - 1
         /\ x = y <=> Dist(x, y) = 0
         /\ y = (x + PIPESIZE) % Modulus <=> Dist(x, y) = PIPESIZE
         /\ Succ(x) \in 0 .. Modulus - 1
         /\ Dist(x, y) # Modulus - 1 => Dist(x, Succ(y)) = Dist(x, y) + 1
         /\ x # y => Dist(Succ(x), y) = Dist(x, y) - 1
<1>1. Modulus \in Nat \ {0} /\ PIPESIZE \in Nat /\ PIPESIZE < Modulus
  BY PipeAssumption
<1>2. \A u, v \in 0 .. Modulus - 1 : Dist(u, v) = IF v >= u THEN v - u ELSE v + Modulus - u
  BY <1>1 DEF Dist
<1>3. \A u \in 0 .. Modulus - 1 : Succ(u) = IF u = Modulus - 1 THEN 0 ELSE u + 1
  BY <1>1 DEF Succ
<1>4. (x + PIPESIZE) % Modulus = IF x + PIPESIZE < Modulus THEN x + PIPESIZE ELSE x + PIPESIZE - Modulus
  BY <1>1
<1>5. Succ(x) \in 0 .. Modulus - 1 /\ Succ(y) \in 0 .. Modulus - 1
  BY <1>1, <1>3
<1>6. Dist(x, y) = IF y >= x THEN y - x ELSE y + Modulus - x
  BY <1>2, Zenon
<1>7. Dist(x, Succ(y)) = IF Succ(y) >= x THEN Succ(y) - x ELSE Succ(y) + Modulus - x
  BY <1>2, <1>5, Zenon
<1>8. Dist(Succ(x), y) = IF y >= Succ(x) THEN y - Succ(x) ELSE y + Modulus - Succ(x)
  BY <1>2, <1>5, Zenon
<1>9. Succ(x) = (IF x = Modulus - 1 THEN 0 ELSE x + 1) /\ Succ(y) = (IF y = Modulus - 1 THEN 0 ELSE y + 1)
  BY <1>3, Zenon
<1>10. Dist(x, y) \in 0 .. Modulus - 1 /\ (x = y <=> Dist(x, y) = 0)
  BY <1>1, <1>6
<1>11. y = (x + PIPESIZE) % Modulus <=> Dist(x, y) = PIPESIZE
  BY <1>1, <1>4, <1>6
<1>12. Dist(x, y) # Modulus - 1 => Dist(x, Succ(y)) = Dist(x, y) + 1
  BY <1>1, <1>6, <1>7, <1>9
<1>13. x # y => Dist(Succ(x), y) = Dist(x, y) - 1
  BY <1>1, <1>6, <1>8, <1>9
<1>q. QED  BY <1>5, <1>10, <1>11, <1>12, <1>13, Zenon

CallsOwn(q) ==
  \/ pc'[q] \in {pc[q], "run"}
  \/ "r" \in fds[q] /\ pc'[q] \in Using("r")
  \/ "w" \in fds[q] /\ pc'[q] \in Using("w")

(* A step that opens and closes no end, and starts calls only on           *)
(* descriptors, keeps EndsExact.                                           *)
LEMMA EndsKept ==
  ASSUME TypeOK, EndsExact, UNCHANGED <<readopen, writeopen, fds>>,
         \A q \in Proc : CallsOwn(q)
  PROVE  EndsExact'
<1>1. /\ \A q \in Proc : pc'[q] \in Using("r") => "r" \in fds[q]
      /\ \A q \in Proc : pc'[q] = "closer" => pc[q] = "closer"
  BY Zenon DEF CallsOwn, EndsExact, EndExact, Using, TypeOK
<1>2. /\ \A q \in Proc : pc'[q] \in Using("w") => "w" \in fds[q]
      /\ \A q \in Proc : pc'[q] = "closew" => pc[q] = "closew"
  BY Zenon DEF CallsOwn, EndsExact, EndExact, Using, TypeOK
<1>3. EndExact("r")'
  BY <1>1, Zenon DEF EndsExact, EndExact, IsOpen, Openers, Closing, Using
<1>4. EndExact("w")'
  BY <1>2, Zenon DEF EndsExact, EndExact, IsOpen, Openers, Closing, Using
<1>q. QED  BY <1>3, <1>4, Zenon DEF EndsExact

-----------------------------------------------------------------------------
(* fileread() or filewrite() starts a call on an end that is open.         *)
LEMMA CallStep ==
  ASSUME IInv, NEW p \in Proc, Call(p)
  PROVE  IInv'
<1> USE DEF IInv, pipeVars, fileVars
<1>0. /\ pc[p] = "run" /\ i' = [i EXCEPT ![p] = 0]
      /\ UNCHANGED <<pipeVars, lock, fileVars, killed>>
      /\ \/ "w" \in fds[p] /\ pc' = [pc EXCEPT ![p] = "write"]
         \/ "r" \in fds[p] /\ pc' = [pc EXCEPT ![p] = "read"]
  BY Zenon DEF Call, Goto
<1>m. \E m \in Nat \ {0} : n' = [n EXCEPT ![p] = m]
  <2>1. PICK m \in 1 .. MaxN : n' = [n EXCEPT ![p] = m]
    BY Zenon DEF Call
  <2>2. m \in Nat \ {0}
    BY <2>1, PipeAssumption
  <2>q. QED  BY <2>1, <2>2, Zenon
<1>1. TypeOK'
  BY <1>0, <1>m, ZenonT(60) DEF TypeOK, PC
<1>2. LockExact'
  BY <1>0, Zenon DEF TypeOK, LockExact, PC
<1>3. RefExact'
  BY <1>0, Zenon DEF RefExact, Openers
<1>4. EndsExact'
  <2>1. \A q \in Proc : CallsOwn(q)
    BY <1>0, Zenon DEF CallsOwn, TypeOK, EndsExact, EndExact, Using
  <2>q. QED  BY <1>0, <2>1, EndsKept, Zenon
<1>5. FreedExact'
  BY <1>0, Zenon DEF TypeOK, FreedExact, EndsExact, EndExact, Closing, IsOpen
<1>6. Inherited'
  BY <1>0, Zenon DEF TypeOK, Inherited
<1>7. CallExact'
  BY <1>0, <1>m DEF TypeOK, CallExact, LockExact, Using, Empty
<1>8. WriterExact'
  BY <1>0, Zenon DEF TypeOK, WriterExact, LockExact, Full, PC
<1>9. Bounded'
  BY <1>0, Zenon DEF Bounded
<1>q. QED  BY <1>1, <1>2, <1>3, <1>4, <1>5, <1>6, <1>7, <1>8, <1>9, Zenon

(* Taking p->lock.                                                         *)
LEMMA AcquireStep ==
  ASSUME IInv, NEW p \in Proc, Acquire(p)
  PROVE  IInv'
<1> USE DEF IInv, Acquire, Goto, pipeVars, fileVars
<1>1. TypeOK'
  BY PipeAssumption, Zenon DEF TypeOK, Value, PC
<1>2. LockExact'
  BY PipeAssumption, Zenon DEF TypeOK, LockExact, PC
<1>3. RefExact'
  BY PipeAssumption, Zenon DEF RefExact, Openers
<1>4. EndsExact'
  <2>1. \A q \in Proc : CallsOwn(q)
    BY DEF CallsOwn, TypeOK, EndsExact, EndExact, Using
  <2>q. QED  BY <2>1, EndsKept, Zenon
<1>5. FreedExact'
  BY PipeAssumption, Zenon DEF TypeOK, FreedExact, EndsExact, EndExact, Closing, IsOpen
<1>6. Inherited'
  BY PipeAssumption, Zenon DEF TypeOK, Inherited
<1>7. CallExact'
  BY PipeAssumption, Zenon DEF TypeOK, CallExact, LockExact, Using, Empty
<1>8. WriterExact'
  BY PipeAssumption, Zenon DEF TypeOK, WriterExact, LockExact, Full, PC
<1>9. Bounded'
  BY PipeAssumption, Zenon DEF Bounded
<1>q. QED  BY <1>1, <1>2, <1>3, <1>4, <1>5, <1>6, <1>7, <1>8, <1>9, Zenon

(* A byte goes into the ring.                                              *)
LEMMA PutStep ==
  ASSUME IInv, NEW p \in Proc, NEW b \in Byte, pc[p] = "wloop", Put(p, b)
  PROVE  IInv'
<1> USE DEF IInv, Put, pipeVars, fileVars
<1>1. TypeOK'
  BY PipeAssumption DEF TypeOK, Value, PC
<1>2. LockExact'
  BY PipeAssumption, Zenon DEF TypeOK, LockExact, PC
<1>3. RefExact'
  BY PipeAssumption, Zenon DEF RefExact, Openers
<1>4. EndsExact'
  BY PipeAssumption, Zenon DEF TypeOK, EndsExact, EndExact, Using, Closing, IsOpen, Openers, Ends, PC
<1>5. FreedExact'
  BY PipeAssumption, Zenon DEF TypeOK, FreedExact, EndsExact, EndExact, Closing, IsOpen
<1>6. Inherited'
  BY PipeAssumption, Zenon DEF TypeOK, Inherited
<1>7. CallExact'
  BY PipeAssumption, Zenon DEF TypeOK, CallExact, LockExact, Using, Empty
<1>8. WriterExact'
  BY PipeAssumption, Zenon DEF TypeOK, WriterExact, LockExact, Full, PC
<1>9. Bounded'
  <2>0. Dist(nread, nwrite) \in 0 .. PIPESIZE
    BY Zenon DEF Bounded, Dist
  <2>1. Dist(nread, nwrite) < PIPESIZE
    BY <2>0, Counters, PipeAssumption DEF TypeOK, Full
  <2>2. nwrite' = Succ(nwrite) /\ Dist(nread', nwrite') = Dist(nread, nwrite) + 1
    BY <2>1, Counters, PipeAssumption DEF TypeOK, Succ
  <2>3. Dist(nread, nwrite)' \in 0 .. PIPESIZE
    BY <2>0, <2>1, <2>2, PipeAssumption DEF Dist
  <2>q. QED  BY <1>1, <2>3, Zenon DEF TypeOK, Bounded, Dist
<1>q. QED  BY <1>1, <1>2, <1>3, <1>4, <1>5, <1>6, <1>7, <1>8, <1>9, Zenon

(* A writer before a full ring gives up or goes to sleep.                  *)
LEMMA WriteFullStep ==
  ASSUME IInv, NEW p \in Proc, pc[p] = "wloop", WriteFull(p)
  PROVE  IInv'
<1> USE DEF IInv, WriteFull, Goto, Locals, WakeReaders, Wake, pipeVars, fileVars
<1>1. TypeOK'
  BY PipeAssumption, Zenon DEF TypeOK, Value, PC
<1>2. LockExact'
  BY PipeAssumption, ZenonT(60) DEF TypeOK, LockExact, PC
<1>3. RefExact'
  BY PipeAssumption, Zenon DEF RefExact, Openers
<1>4. EndsExact'
  <2>1. \A q \in Proc : CallsOwn(q)
    <3>1. CASE ~readopen \/ killed[p]
      BY <3>1, Zenon DEF CallsOwn, TypeOK
    <3>2. CASE ~(~readopen \/ killed[p])
      <4>1. pc' = [WakeReaders(pc) EXCEPT ![p] = "wsleep"]
        BY <3>2, Zenon
      <4>q. QED  BY <4>1, Zenon DEF CallsOwn, TypeOK, EndsExact, EndExact, Using
    <3>q. QED  BY <3>1, <3>2, Zenon
  <2>q. QED  BY <2>1, EndsKept, Zenon
<1>5. FreedExact'
  BY PipeAssumption, Zenon DEF TypeOK, FreedExact, EndsExact, EndExact, Closing, IsOpen
<1>6. Inherited'
  BY PipeAssumption, Zenon DEF TypeOK, Inherited
<1>7. CallExact'
  BY PipeAssumption, ZenonT(60) DEF TypeOK, CallExact, LockExact, Using, Empty
<1>8. WriterExact'
  <2>1. UNCHANGED <<nread, nwrite, readopen, killed>> /\ Full
    BY Zenon
  <2>2. \A q \in Proc : pc[q] # "rcopy" \/ q = p
    BY PipeAssumption, Zenon DEF LockExact
  <2>3. CASE ~readopen \/ killed[p]
    BY <2>1, <2>2, <2>3 DEF TypeOK, WriterExact, Full
  <2>4. CASE ~(~readopen \/ killed[p])
    <3>1. \A q \in Proc : pc'[q] = "wsleep" => q = p \/ pc[q] = "wsleep"
      BY <2>4, Zenon DEF TypeOK
    <3>2. \A q \in Proc : pc'[q] = "wsleep" => ~killed'[q] /\ readopen'
      BY <2>1, <2>4, <3>1 DEF WriterExact
    <3>3. Full'
      BY <2>1, Zenon DEF Full
    <3>q. QED  BY <3>2, <3>3, Zenon DEF WriterExact
  <2>q. QED  BY <2>3, <2>4, Zenon
<1>9. Bounded'
  BY PipeAssumption, Zenon DEF Bounded
<1>q. QED  BY <1>1, <1>2, <1>3, <1>4, <1>5, <1>6, <1>7, <1>8, <1>9, Zenon

(* The end of pipewrite().                                                 *)
LEMMA WriteDoneStep ==
  ASSUME IInv, NEW p \in Proc, pc[p] = "wloop", WriteDone(p)
  PROVE  IInv'
<1> USE DEF IInv, WriteDone, Locals, WakeReaders, Wake, pipeVars, fileVars
<1>1. TypeOK'
  BY PipeAssumption, Zenon DEF TypeOK, Value, PC
<1>2. LockExact'
  BY PipeAssumption, Zenon DEF TypeOK, LockExact, PC
<1>3. RefExact'
  BY PipeAssumption, Zenon DEF RefExact, Openers
<1>4. EndsExact'
  <2>1. \A q \in Proc : CallsOwn(q)
    BY Zenon DEF CallsOwn, TypeOK, EndsExact, EndExact, Using
  <2>q. QED  BY <2>1, EndsKept, Zenon
<1>5. FreedExact'
  BY PipeAssumption, Zenon DEF TypeOK, FreedExact, EndsExact, EndExact, Closing, IsOpen
<1>6. Inherited'
  BY PipeAssumption, Zenon DEF TypeOK, Inherited
<1>7. CallExact'
  BY PipeAssumption, Zenon DEF TypeOK, CallExact, LockExact, Using, Empty
<1>8. WriterExact'
  BY PipeAssumption, Zenon DEF TypeOK, WriterExact, LockExact, Full, PC
<1>9. Bounded'
  BY PipeAssumption, Zenon DEF Bounded
<1>q. QED  BY <1>1, <1>2, <1>3, <1>4, <1>5, <1>6, <1>7, <1>8, <1>9, Zenon

(* The test before the loop of piperead().                                 *)
LEMMA ReadTestStep ==
  ASSUME IInv, NEW p \in Proc, ReadTest(p)
  PROVE  IInv'
<1> USE DEF IInv, ReadTest, Goto, Locals, pipeVars, fileVars
<1>1. TypeOK'
  BY PipeAssumption, Zenon DEF TypeOK, Value, PC
<1>2. LockExact'
  <2>1. CASE Empty /\ writeopen
    BY <2>1, PipeAssumption, Zenon DEF TypeOK, LockExact
  <2>2. CASE ~(Empty /\ writeopen)
    BY <2>2, PipeAssumption DEF TypeOK, LockExact
  <2>q. QED  BY <2>1, <2>2, Zenon
<1>3. RefExact'
  BY PipeAssumption, Zenon DEF RefExact, Openers
<1>4. EndsExact'
  <2>1. \A q \in Proc : CallsOwn(q)
    BY DEF CallsOwn, TypeOK, EndsExact, EndExact, Using
  <2>q. QED  BY <2>1, EndsKept, Zenon
<1>5. FreedExact'
  BY PipeAssumption, Zenon DEF TypeOK, FreedExact, EndsExact, EndExact, Closing, IsOpen
<1>6. Inherited'
  BY PipeAssumption, Zenon DEF TypeOK, Inherited
<1>7. CallExact'
  BY PipeAssumption DEF TypeOK, CallExact, LockExact, Using, Empty
<1>8. WriterExact'
  BY PipeAssumption DEF TypeOK, WriterExact, LockExact, Full, PC
<1>9. Bounded'
  BY PipeAssumption, Zenon DEF Bounded
<1>q. QED  BY <1>1, <1>2, <1>3, <1>4, <1>5, <1>6, <1>7, <1>8, <1>9, Zenon

(* A byte leaves the ring.                                                 *)
LEMMA GetStep ==
  ASSUME IInv, NEW p \in Proc, pc[p] = "rcopy", Get(p)
  PROVE  IInv'
<1> USE DEF IInv, Get, pipeVars, fileVars
<1>1. TypeOK'
  BY PipeAssumption DEF TypeOK, Value, PC
<1>2. LockExact'
  BY PipeAssumption, Zenon DEF TypeOK, LockExact, PC
<1>3. RefExact'
  BY PipeAssumption, Zenon DEF RefExact, Openers
<1>4. EndsExact'
  BY PipeAssumption, Zenon DEF TypeOK, EndsExact, EndExact, Using, Closing, IsOpen, Openers, Ends, PC
<1>5. FreedExact'
  BY PipeAssumption, Zenon DEF TypeOK, FreedExact, EndsExact, EndExact, Closing, IsOpen
<1>6. Inherited'
  BY PipeAssumption, Zenon DEF TypeOK, Inherited
<1>7. CallExact'
  BY PipeAssumption DEF TypeOK, CallExact, LockExact, Using, Empty
<1>8. WriterExact'
  BY PipeAssumption, Zenon DEF TypeOK, WriterExact, LockExact, Full, PC
<1>9. Bounded'
  <2>1. nread' = Succ(nread) /\ Dist(nread', nwrite') = Dist(nread, nwrite) - 1
    BY Counters, Zenon DEF TypeOK, Empty, Succ
  <2>q. QED  BY <1>1, <2>1, Counters, PipeAssumption DEF TypeOK, Bounded, Dist
<1>q. QED  BY <1>1, <1>2, <1>3, <1>4, <1>5, <1>6, <1>7, <1>8, <1>9, Zenon

(* The end of piperead().                                                  *)
LEMMA ReadDoneStep ==
  ASSUME IInv, NEW p \in Proc, pc[p] = "rcopy", ReadDone(p)
  PROVE  IInv'
<1> USE DEF IInv, ReadDone, Locals, WakeWriters, Wake, pipeVars, fileVars
<1>1. TypeOK'
  BY PipeAssumption, Zenon DEF TypeOK, Value, PC
<1>2. LockExact'
  BY PipeAssumption, Zenon DEF TypeOK, LockExact, PC
<1>3. RefExact'
  BY PipeAssumption, Zenon DEF RefExact, Openers
<1>4. EndsExact'
  <2>1. \A q \in Proc : CallsOwn(q)
    BY Zenon DEF CallsOwn, TypeOK, EndsExact, EndExact, Using
  <2>q. QED  BY <2>1, EndsKept, Zenon
<1>5. FreedExact'
  BY PipeAssumption, Zenon DEF TypeOK, FreedExact, EndsExact, EndExact, Closing, IsOpen
<1>6. Inherited'
  BY PipeAssumption, Zenon DEF TypeOK, Inherited
<1>7. CallExact'
  BY PipeAssumption, Zenon DEF TypeOK, CallExact, LockExact, Using, Empty
<1>8. WriterExact'
  BY PipeAssumption, Zenon DEF TypeOK, WriterExact, LockExact, Full, PC
<1>9. Bounded'
  BY PipeAssumption, Zenon DEF Bounded
<1>q. QED  BY <1>1, <1>2, <1>3, <1>4, <1>5, <1>6, <1>7, <1>8, <1>9, Zenon

(* The last close of an end.                                               *)
LEMMA PipecloseStep ==
  ASSUME IInv, NEW p \in Proc, Pipeclose(p)
  PROVE  IInv'
<1> USE DEF IInv, Pipeclose, WakeReaders, WakeWriters, Wake, pipeVars, fileVars
<1>1. TypeOK'
  BY PipeAssumption DEF TypeOK, Value, PC
<1>2. LockExact'
  BY PipeAssumption, Zenon DEF TypeOK, LockExact, PC
<1>3. RefExact'
  BY PipeAssumption, Zenon DEF RefExact, Openers
<1>4. EndsExact'
  BY PipeAssumption DEF TypeOK, EndsExact, EndExact, Using, Closing, IsOpen, Openers, Ends, PC
<1>5. FreedExact'
  BY PipeAssumption DEF TypeOK, FreedExact, EndsExact, EndExact, Closing, IsOpen
<1>6. Inherited'
  BY PipeAssumption, Zenon DEF TypeOK, Inherited
<1>7. CallExact'
  BY PipeAssumption, Zenon DEF TypeOK, CallExact, LockExact, Using, Empty
<1>8. WriterExact'
  BY PipeAssumption, Zenon DEF TypeOK, WriterExact, LockExact, Full, PC
<1>9. Bounded'
  BY PipeAssumption, Zenon DEF Bounded
<1>q. QED  BY <1>1, <1>2, <1>3, <1>4, <1>5, <1>6, <1>7, <1>8, <1>9, Zenon

(* kill() of a process.                                                    *)
LEMMA KillStep ==
  ASSUME IInv, NEW p \in Proc, Kill(p)
  PROVE  IInv'
<1> USE DEF IInv, Kill, Goto, pipeVars, fileVars
<1>1. TypeOK'
  BY PipeAssumption, Zenon DEF TypeOK, Value, PC
<1>2. LockExact'
  BY PipeAssumption, Zenon DEF TypeOK, LockExact, PC
<1>3. RefExact'
  BY PipeAssumption, Zenon DEF RefExact, Openers
<1>4. EndsExact'
  <2>1. \A q \in Proc : CallsOwn(q)
    BY DEF CallsOwn, TypeOK, EndsExact, EndExact, Using
  <2>q. QED  BY <2>1, EndsKept, Zenon
<1>5. FreedExact'
  BY PipeAssumption, Zenon DEF TypeOK, FreedExact, EndsExact, EndExact, Closing, IsOpen
<1>6. Inherited'
  BY PipeAssumption, Zenon DEF TypeOK, Inherited
<1>7. CallExact'
  BY PipeAssumption, Zenon DEF TypeOK, CallExact, LockExact, Using, Empty
<1>8. WriterExact'
  BY PipeAssumption, Zenon DEF TypeOK, WriterExact, LockExact, Full, PC
<1>9. Bounded'
  BY PipeAssumption, Zenon DEF Bounded
<1>q. QED  BY <1>1, <1>2, <1>3, <1>4, <1>5, <1>6, <1>7, <1>8, <1>9, Zenon

(* Dropping a descriptor: the reference count stays exact, and when it     *)
(* becomes zero nobody has a descriptor, so that the process about to call *)
(* pipeclose() is the only one.                                            *)
LEMMA CloseStep ==
  ASSUME IInv, NEW p \in Proc, NEW e \in Ends, Close(p, e)
  PROVE  IInv'
<1> USE DEF IInv, pipeVars
<1>1. /\ pc[p] = "run" /\ e \in fds[p]
      /\ fds' = [fds EXCEPT ![p] = @ \ {e}]
      /\ ref' = [ref EXCEPT ![e] = @ - 1]
      /\ UNCHANGED <<pipeVars, lock, freed, n, i, killed>>
      /\ pc' = IF ref[e] > 1 THEN pc ELSE [pc EXCEPT ![p] = Closing(e)]
  BY Zenon DEF Close, Goto, Closing
<1>2. Openers(e)' = Openers(e) \ {p} /\ p \in Openers(e)
  BY <1>1, Zenon DEF TypeOK, Openers
<1>3. \A d \in Ends \ {e} : Openers(d)' = Openers(d)
  BY <1>1, Zenon DEF TypeOK, Openers
<1>4. \A d \in Ends : IsFiniteSet(Openers(d))
  BY FS_Subset, PipeAssumption, Zenon DEF Openers
<1>5. /\ Cardinality(Openers(e)) \in Nat \ {0}
      /\ Cardinality(Openers(e)') = Cardinality(Openers(e)) - 1
      /\ IsFiniteSet(Openers(e)')
  BY <1>2, <1>4, FS_RemoveElement, FS_CardinalityType, FS_EmptySet
<1>6. ref[e] <= 1 => Openers(e)' = {}
  <2>1. ref[e] <= 1 => Cardinality(Openers(e)') = 0
    BY <1>5 DEF RefExact
  <2>q. QED  BY <2>1, <1>5, FS_EmptySet, Zenon
<1>7. TypeOK'
  <2>1. ref' \in [Ends -> Nat]
    BY <1>1, <1>5 DEF TypeOK, RefExact
  <2>2. pc' \in [Proc -> PC]
    BY <1>1, Zenon DEF TypeOK, PC, Closing
  <2>q. QED  BY <1>1, <2>1, <2>2, Zenon DEF TypeOK
<1>8. RefExact'
  BY <1>1, <1>3, <1>5, Zenon DEF RefExact, TypeOK
<1>9. LockExact' /\ FreedExact' /\ Inherited' /\ Bounded'
  BY <1>1, Zenon DEF TypeOK, LockExact, FreedExact, Inherited, Bounded, Closing
<1>10. CallExact' /\ WriterExact'
  <2>1. \A q \in Proc : pc'[q] = pc[q] \/ pc'[q] \in {"closer", "closew"}
    BY <1>1, Zenon DEF TypeOK, Closing
  <2>2. \A q \in Proc : pc[q] = "rcopy" => pc'[q] = "rcopy"
    BY <1>1, Zenon DEF TypeOK
  <2>q. QED  BY <1>1, <2>1, <2>2 DEF CallExact, WriterExact, Using, Empty, Full
<1>11. EndsExact'
  <2>1. \A d \in Ends : EndExact(d)
    BY Zenon DEF EndsExact, Ends
  <2>2. IsOpen(e) /\ \A q \in Proc : pc[q] # Closing(e)
    BY <1>2, <2>1, Zenon DEF EndExact
  <2>3. \A d \in Ends : IsOpen(d)' = IsOpen(d)
    BY <1>1, Zenon DEF IsOpen
  <2>4. \A q \in Proc : pc'[q] = pc[q] \/ (q = p /\ pc'[q] = Closing(e) /\ Openers(e)' = {})
    BY <1>1, <1>5, <1>6 DEF TypeOK, RefExact
  <2>5. EndExact(e)'
    <3>1. \A q \in Proc : pc'[q] \in Using(e) => e \in fds'[q]
      BY <1>1, <2>1, <2>4, Zenon DEF EndExact, Using, Closing, TypeOK
    <3>2. \A q \in Proc : pc'[q] = Closing(e) => q = p /\ Openers(e)' = {}
      BY <2>2, <2>4, Zenon
    <3>q. QED  BY <2>2, <2>3, <3>1, <3>2, Zenon DEF EndExact, Closing, Using
  <2>6. ASSUME NEW d \in Ends \ {e} PROVE EndExact(d)'
    <3>1. \A q \in Proc : pc'[q] \in Using(d) => d \in fds'[q]
      BY <1>1, <2>1, <2>4, Zenon DEF EndExact, Using, Closing, TypeOK
    <3>2. \A q \in Proc : pc'[q] = Closing(d) => pc[q] = Closing(d)
      BY <2>4, Zenon DEF Closing, Ends
    <3>q. QED  BY <1>3, <2>1, <2>3, <3>1, <3>2, Zenon DEF EndExact, Closing, Using
  <2>q. QED  BY <2>5, <2>6, Zenon DEF EndsExact, Ends
<1>q. QED  BY <1>7, <1>8, <1>9, <1>10, <1>11, Zenon

(* pipealloc() sets up the invariant.                                      *)
LEMMA InitIInv == Init => IInv
<1>1. SUFFICES ASSUME Init PROVE IInv
  BY Zenon
<1> USE <1>1, PipeAssumption DEF Init
<1>2. \A e \in Ends : IsFiniteSet(Openers(e))
  BY FS_Subset, Zenon DEF Openers
<1>3. TypeOK
  <2>1. \A e \in Ends : Cardinality({p \in Proc : e \in Opens[p]}) \in Nat
    BY <1>2, FS_CardinalityType, Zenon DEF Openers
  <2>2. ref \in [Ends -> Nat]
    BY <2>1, Zenon
  <2>q. QED  BY <2>2 DEF TypeOK, Value, PC, Ends
<1>4. RefExact
  BY Zenon DEF RefExact, Openers
<1>5. Bounded
  BY <1>3, Counters DEF Bounded, Dist, TypeOK
<1>6. LockExact /\ FreedExact /\ Inherited /\ CallExact /\ WriterExact
  BY Zenon DEF LockExact, FreedExact, Inherited, CallExact, WriterExact, Using
<1>7. EndsExact
  BY Zenon DEF EndsExact, EndExact, Using, Closing, IsOpen
<1>q. QED  BY <1>3, <1>4, <1>5, <1>6, <1>7, Zenon DEF IInv

(* Every step keeps the invariant.                                         *)
LEMMA NextIInv == IInv /\ [Next]_vars => IInv'
<1>1. SUFFICES ASSUME IInv, [Next]_vars PROVE IInv'
  BY Zenon
<1>2. CASE UNCHANGED vars
  <2>1. TypeOK' /\ LockExact' /\ FreedExact' /\ Inherited' /\ Bounded'
    BY <1>1, <1>2, Zenon DEF vars, pipeVars, fileVars, IInv, TypeOK, LockExact, FreedExact, Inherited, Bounded
  <2>2. RefExact' /\ EndsExact'
    BY <1>1, <1>2, Zenon DEF vars, pipeVars, fileVars, IInv, RefExact, EndsExact, EndExact, IsOpen, Openers
  <2>3. CallExact' /\ WriterExact'
    BY <1>1, <1>2, Zenon DEF vars, pipeVars, IInv, CallExact, WriterExact, Full, Empty
  <2>q. QED  BY <2>1, <2>2, <2>3, Zenon DEF IInv
<1>3. ASSUME NEW p \in Proc, NEW e \in Ends, Close(p, e) PROVE IInv'
  BY <1>1, <1>3, CloseStep, Zenon
<1>4. ASSUME NEW p \in Proc, Call(p) \/ Acquire(p) \/ Step(p) \/ Kill(p) PROVE IInv'
  BY <1>1, <1>4, CallStep, AcquireStep, PutStep, WriteFullStep, WriteDoneStep, ReadTestStep, GetStep,
     ReadDoneStep, PipecloseStep, KillStep, Zenon DEF Step, Pipewrite, ReadCopy
<1>q. QED  BY <1>1, <1>2, <1>3, <1>4, Zenon DEF Next

(* The invariant holds in every reachable state.                           *)
LEMMA Invariance == Spec => []IInv
  BY InitIInv, NextIInv, PTL DEF Spec

-----------------------------------------------------------------------------
(* A freed pipe has no users left.                                         *)
LEMMA FreedLast == ASSUME IInv PROVE NoUseAfterFree
<1>1. freed <= 1 /\ (freed = 1 => ~readopen /\ ~writeopen)
  BY DEF IInv, FreedExact
<1>2. ASSUME ~readopen, ~writeopen, NEW p \in Proc PROVE pc[p] = "run" /\ fds[p] = {}
  <2>1. "r" \notin fds[p] /\ pc[p] # "closer"
    BY <1>2, Zenon DEF IInv, EndsExact, EndExact, IsOpen, Openers, Closing
  <2>2. "w" \notin fds[p] /\ pc[p] # "closew"
    BY <1>2, Zenon DEF IInv, EndsExact, EndExact, IsOpen, Openers, Closing
  <2>3. pc[p] \notin Using("r") /\ pc[p] \notin Using("w")
    BY <2>1, <2>2, Zenon DEF IInv, EndsExact, EndExact
  <2>q. QED  BY <2>1, <2>2, <2>3, ZenonT(60) DEF IInv, TypeOK, PC, Using, Ends
<1>q. QED  BY <1>1, <1>2, Zenon DEF NoUseAfterFree, InPipe

(* The pipe is freed once and after its last user, whoever is killed: the  *)
(* reference counts keep an end open while a call on it goes on.           *)
THEOREM FreedOnce == Spec => []NoUseAfterFree
<1>1. IInv => NoUseAfterFree
  BY FreedLast, Zenon
<1>q. QED  BY <1>1, Invariance, PTL

(* While p->lock is free a writer sleeps only on a full pipe that is still *)
(* open to readers, and not once it is killed: no wakeup of a writer is    *)
(* lost in piperead(), pipeclose() or kill().                              *)
THEOREM WritersWoken == Spec => []WriterSleepsForReason
<1>1. IInv => WriterSleepsForReason
  BY PipeAssumption, Zenon DEF IInv, LockExact, WriterExact, WriterSleepsForReason
<1>q. QED  BY <1>1, Invariance, PTL

(* piperead() returns no bytes only at end of file.                        *)
THEOREM ZeroMeansEOFHolds == Spec => ZeroMeansEOF
<1> DEFINE A == \A p \in Proc : (pc[p] = "rcopy" /\ pc'[p] = "run" /\ i[p] = 0) => Empty /\ ~writeopen
<1>1. IInv /\ [Next]_vars => [A]_vars
  <2>1. SUFFICES ASSUME IInv, Next, NEW p \in Proc, pc[p] = "rcopy", pc'[p] = "run", i[p] = 0
                 PROVE  Empty /\ ~writeopen
    BY Zenon
  <2>2. n[p] # 0 /\ (~Empty \/ ~writeopen) /\ \A q \in Proc : q # p => lock # q
    BY <2>1, Zenon DEF IInv, CallExact, Using, LockExact
  <2>3. PICK q \in Proc : \/ Call(q) \/ Acquire(q) \/ Step(q) \/ Kill(q)
                          \/ \E e \in Ends : Close(q, e)
    BY <2>1, Zenon DEF Next
  <2>4. CASE Call(q) \/ Acquire(q) \/ Kill(q) \/ ReadTest(q) \/ \E e \in Ends : Close(q, e)
    BY <2>1, <2>4, Zenon DEF Call, Acquire, Kill, ReadTest, Close, Goto, IInv, TypeOK
  <2>5. CASE Pipewrite(q)
    BY <2>1, <2>5, Zenon DEF Pipewrite, Put, WriteFull, WriteDone, Goto, WakeReaders, Wake, IInv, TypeOK
  <2>6. CASE Pipeclose(q)
    BY <2>1, <2>6, ZenonT(60) DEF Pipeclose, WakeReaders, WakeWriters, Wake, IInv, TypeOK
  <2>7. CASE ReadCopy(q)
    <3>1. q = p /\ ReadDone(p)
      BY <2>1, <2>7, Zenon DEF ReadCopy, Get, ReadDone, WakeWriters, Wake, IInv, TypeOK
    <3>q. QED  BY <2>1, <2>2, <3>1, Zenon DEF ReadDone
  <2>q. QED  BY <2>3, <2>4, <2>5, <2>6, <2>7, Zenon DEF Step
<1>q. QED  BY <1>1, Invariance, PTL DEF Spec, ZeroMeansEOF

-----------------------------------------------------------------------------
(* No process that can be killed has the write end.  A writer that is      *)
(* killed between two turns of its loop returns from pipewrite() without   *)
(* the wakeup at its end, whatever it has written before.                  *)
WritersSurvive == \A p \in Killable : "w" \notin Opens[p]

(* While p->lock is held by a reader, no other reader sleeps on bytes.     *)
LEMMA NoWriterInside ==
  ASSUME IInv, NEW p \in Proc, lock = p, pc[p] # "wloop"
  PROVE  \A q \in Proc : pc[q] # "wloop"
  BY Zenon DEF IInv, LockExact

(* A step of pipewrite() keeps what is known of sleeping readers: a writer *)
(* leaves its loop only after it has woken them.                           *)
LEMMA WriteReaders ==
  ASSUME WritersSurvive, IInv, ReaderExact, NEW p \in Proc, Pipewrite(p)
  PROVE  ReaderExact'
<1>1. ASSUME NEW b \in Byte, Put(p, b) PROVE ReaderExact'
  BY <1>1, Zenon DEF Pipewrite, Put, ReaderExact
<1>2. CASE WriteFull(p)
  <2>1. /\ "w" \in fds[p] /\ fds[p] \subseteq Opens[p] /\ (killed[p] => p \in Killable)
        /\ \A q \in Proc : pc[q] = "rsleep" => "r" \in fds[q]
    BY Zenon DEF IInv, EndsExact, EndExact, Using, Inherited, Pipewrite
  <2>2. ~killed[p]
    BY <2>1, Zenon DEF WritersSurvive
  <2>3. (\E q \in Proc : pc[q] = "rsleep") => readopen
    BY <2>1, Zenon DEF IInv, EndsExact, EndExact, IsOpen, Openers
  <2>4. CASE ~readopen
    <3>1. pc' = [pc EXCEPT ![p] = "run"]
      BY <1>2, <2>4, Zenon DEF WriteFull, Goto
    <3>q. QED  BY <2>3, <2>4, <3>1, Zenon DEF ReaderExact, IInv, TypeOK
  <2>5. CASE readopen
    <3>1. pc' = [WakeReaders(pc) EXCEPT ![p] = "wsleep"]
      BY <1>2, <2>2, <2>5, Zenon DEF WriteFull
    <3>q. QED  BY <3>1, Zenon DEF ReaderExact, WakeReaders, Wake
  <2>q. QED  BY <2>4, <2>5, Zenon
<1>3. CASE WriteDone(p)
  BY <1>3, Zenon DEF WriteDone, WakeReaders, Wake, ReaderExact
<1>q. QED  BY <1>1, <1>2, <1>3, Zenon DEF Pipewrite

(* A step of piperead() does: a reader goes to sleep on an empty pipe, and *)
(* takes bytes only while none sleeps.                                     *)
LEMMA ReadReaders ==
  ASSUME IInv, ReaderExact, NEW p \in Proc, ReadTest(p) \/ ReadCopy(p)
  PROVE  ReaderExact'
<1>1. \A q \in Proc : pc[q] # "wloop"
  BY NoWriterInside, Zenon DEF IInv, LockExact, ReadTest, ReadCopy
<1>2. CASE ReadTest(p)
  <2>1. UNCHANGED <<nread, nwrite, writeopen, killed>>
    BY <1>2, Zenon DEF ReadTest, pipeVars
  <2>2. \A q \in Proc : pc'[q] = "rsleep" /\ pc[q] # "rsleep" => Empty /\ writeopen /\ ~killed[q]
    BY <1>2, Zenon DEF ReadTest, Goto, IInv, TypeOK
  <2>q. QED  BY <1>1, <2>1, <2>2, Zenon DEF ReaderExact, Empty
<1>3. CASE Get(p)
  BY <1>1, <1>3, Zenon DEF Get, ReaderExact
<1>4. CASE ReadDone(p)
  BY <1>1, <1>4, Zenon DEF ReadDone, WakeWriters, Wake, ReaderExact, Empty, pipeVars
<1>q. QED  BY <1>2, <1>3, <1>4, Zenon DEF ReadCopy

(* So does every other step.                                               *)
LEMMA OtherReaders ==
  ASSUME IInv, ReaderExact, NEW p \in Proc,
         \/ Call(p) \/ Acquire(p) \/ Pipeclose(p) \/ Kill(p)
         \/ \E e \in Ends : Close(p, e)
  PROVE  ReaderExact'
<1>1. CASE Call(p) \/ Acquire(p)
  <2>1. /\ UNCHANGED <<nread, nwrite, writeopen, killed>>
        /\ \A q \in Proc : pc[q] = "wloop" => pc'[q] = "wloop"
        /\ \A q \in Proc : pc'[q] = "rsleep" => pc[q] = "rsleep"
    BY <1>1, Zenon DEF Call, Acquire, Goto, IInv, TypeOK, pipeVars
  <2>q. QED  BY <2>1, Zenon DEF ReaderExact, Empty
<1>2. CASE Pipeclose(p)
  <2>1. UNCHANGED <<nread, nwrite, killed>> /\ \A q \in Proc : pc[q] = "wloop" => pc'[q] = "wloop"
    BY <1>2, Zenon DEF Pipeclose, WakeReaders, WakeWriters, Wake, IInv, TypeOK
  <2>2. \A q \in Proc : pc'[q] = "rsleep" => pc[q] = "rsleep" /\ writeopen' = writeopen
    BY <1>2, Zenon DEF Pipeclose, WakeReaders, WakeWriters, Wake, IInv, TypeOK
  <2>q. QED  BY <2>1, <2>2 DEF ReaderExact, Empty
<1>3. CASE Kill(p)
  <2>1. /\ UNCHANGED <<nread, nwrite, writeopen>>
        /\ \A q \in Proc : pc[q] = "wloop" => pc'[q] = "wloop"
        /\ \A q \in Proc : pc'[q] = "rsleep" => pc[q] = "rsleep" /\ killed'[q] = killed[q]
    BY <1>3, Zenon DEF Kill, Goto, IInv, TypeOK, pipeVars
  <2>q. QED  BY <2>1, Zenon DEF ReaderExact, Empty
<1>4. CASE \E e \in Ends : Close(p, e)
  <2>1. /\ UNCHANGED <<nread, nwrite, writeopen, killed>>
        /\ \A q \in Proc : pc[q] = "wloop" => pc'[q] = "wloop"
        /\ \A q \in Proc : pc'[q] = "rsleep" => pc[q] = "rsleep"
    BY <1>4 DEF Close, Goto, IInv, TypeOK, pipeVars
  <2>q. QED  BY <2>1, Zenon DEF ReaderExact, Empty
<1>q. QED  BY <1>1, <1>2, <1>3, <1>4, Zenon

(* Sleepers sleep with reason, and the pipe is freed once, after its last  *)
(* user, for any processes, ring and counters, if only readers are killed: *)
(* no wakeup is missing in pipewrite(), piperead(), pipeclose() or kill(). *)
THEOREM PipeSafeHolds == ASSUME WritersSurvive PROVE Spec => []PipeSafe
<1>1. Init => ReaderExact
  BY Zenon DEF Init, ReaderExact
<1>2. IInv /\ ReaderExact /\ [Next]_vars => ReaderExact'
  <2>1. SUFFICES ASSUME IInv, ReaderExact, [Next]_vars PROVE ReaderExact'
    BY Zenon
  <2>2. CASE UNCHANGED vars
    BY <2>1, <2>2, Zenon DEF vars, pipeVars, ReaderExact, Empty
  <2>3. CASE Next
    BY <2>1, <2>3, WriteReaders, ReadReaders, OtherReaders, Zenon DEF Next, Step
  <2>q. QED  BY <2>1, <2>2, <2>3, Zenon
<1>3. IInv /\ ReaderExact => PipeSafe
  <2>1. SUFFICES ASSUME IInv, ReaderExact PROVE PipeSafe
    BY Zenon
  <2>2. lock = Nobody => \A q \in Proc : pc[q] \notin {"wloop", "rcopy"}
    BY <2>1, PipeAssumption, Zenon DEF IInv, LockExact
  <2>3. ReaderSleepsForReason /\ WriterSleepsForReason
    BY <2>1, <2>2, Zenon DEF IInv, ReaderExact, WriterExact, ReaderSleepsForReason, WriterSleepsForReason
  <2>4. NoUseAfterFree
    BY <2>1, FreedLast, Zenon
  <2>q. QED  BY <2>3, <2>4, Zenon DEF PipeSafe
<1>q. QED  BY <1>1, <1>2, <1>3, Invariance, PTL DEF Spec

-----------------------------------------------------------------------------
(* The bytes of a ring d between the counters x and y.                     *)
Ring(d, x, y) == [j \in 1 .. Dist(x, y) |-> d[((x + j - 1) % Modulus) % PIPESIZE]]

(* Counters may wrap around without a jump in the ring, because Modulus is *)
(* a multiple of PIPESIZE.                                                 *)
LEMMA WrapsTogether ==
  ASSUME NEW a \in 0 .. 2 * Modulus - 1
  PROVE  (a % Modulus) % PIPESIZE = a % PIPESIZE
<1>1. Modulus \in Nat \ {0} /\ PIPESIZE \in Nat \ {0} /\ Modulus % PIPESIZE = 0
  BY PipeAssumption
<1>2. a % Modulus = IF a < Modulus THEN a ELSE a - Modulus
  BY <1>1, ModOnce, Zenon
<1>3. CASE a < Modulus
  BY <1>2, <1>3, Zenon
<1>4. CASE a >= Modulus
  <2>1. (a - Modulus) % PIPESIZE = a % PIPESIZE
    <3>1. a \in Nat /\ Modulus \in Nat /\ a >= Modulus
      BY <1>1, <1>4
    <3>q. QED  BY <1>1, <3>1, ModShift, Zenon
  <2>q. QED  BY <1>1, <1>2, <1>4, <2>1, Zenon
<1>q. QED  BY <1>1, <1>3, <1>4

(* The ring as a sequence.                                                 *)
LEMMA RingSeq ==
  ASSUME NEW d \in [0 .. PIPESIZE - 1 -> Value],
         NEW x \in 0 .. Modulus - 1, NEW y \in 0 .. Modulus - 1
  PROVE  /\ Ring(d, x, y) \in Seq(Value)
         /\ Len(Ring(d, x, y)) = Dist(x, y)
         /\ \A j \in 1 .. Dist(x, y) : Ring(d, x, y)[j] = d[(x + j - 1) % PIPESIZE]
<1>1. Modulus \in Nat \ {0} /\ PIPESIZE \in Nat \ {0}
  BY PipeAssumption
<1>2. Dist(x, y) \in 0 .. Modulus - 1
  BY Counters, Zenon
<1>3. ASSUME NEW j \in 1 .. Dist(x, y)
      PROVE  /\ ((x + j - 1) % Modulus) % PIPESIZE = (x + j - 1) % PIPESIZE
             /\ (x + j - 1) % PIPESIZE \in 0 .. PIPESIZE - 1
  <2>1. x + j - 1 \in 0 .. 2 * Modulus - 1
    BY <1>1, <1>2
  <2>2. ((x + j - 1) % Modulus) % PIPESIZE = (x + j - 1) % PIPESIZE
    BY <2>1, WrapsTogether, Zenon
  <2>3. (x + j - 1) % PIPESIZE \in 0 .. PIPESIZE - 1
    BY <1>1, <2>1
  <2>q. QED  BY <2>2, <2>3, Zenon
<1>4. Ring(d, x, y) = [j \in 1 .. Dist(x, y) |-> d[(x + j - 1) % PIPESIZE]]
  BY <1>3, Zenon DEF Ring
<1>5. \A j \in 1 .. Dist(x, y) : d[(x + j - 1) % PIPESIZE] \in Value
  BY <1>3, Zenon
<1>6. Ring(d, x, y) \in [1 .. Dist(x, y) -> Value]
  BY <1>4, <1>5, Zenon
<1>7. Dist(x, y) \in Nat
  BY <1>1, <1>2
<1>8. Ring(d, x, y) \in Seq(Value) /\ Len(Ring(d, x, y)) = Dist(x, y)
  BY <1>6, <1>7
<1>q. QED  BY <1>4, <1>8, Zenon

(* Writing at y % PIPESIZE appends to the bytes of a ring that is not      *)
(* full: none of the others has that place.                                *)
LEMMA RingPut ==
  ASSUME NEW d \in [0 .. PIPESIZE - 1 -> Value], NEW b \in Value,
         NEW x \in 0 .. Modulus - 1, NEW y \in 0 .. Modulus - 1, Dist(x, y) < PIPESIZE
  PROVE  Ring([d EXCEPT ![y % PIPESIZE] = b], x, Succ(y)) = Append(Ring(d, x, y), b)
<1> DEFINE c == Dist(x, y)
           e == [d EXCEPT ![y % PIPESIZE] = b]
           s == Ring(d, x, y)
           t == Ring(e, x, Succ(y))
<1>1. Modulus \in Nat \ {0} /\ PIPESIZE \in Nat \ {0} /\ PIPESIZE < Modulus
  BY PipeAssumption
<1>2. c \in 0 .. Modulus - 1 /\ Succ(y) \in 0 .. Modulus - 1 /\ Dist(x, Succ(y)) = c + 1
  BY <1>1, Counters
<1>3. e \in [0 .. PIPESIZE - 1 -> Value] /\ y % PIPESIZE \in 0 .. PIPESIZE - 1
  BY <1>1
<1>4. y % PIPESIZE = (x + c) % PIPESIZE
  <2>1. (x + c) % Modulus = y /\ x + c \in 0 .. 2 * Modulus - 1
    BY <1>1 DEF Dist
  <2>q. QED  BY <2>1, WrapsTogether, Zenon
<1>5. s \in Seq(Value) /\ Len(s) = c /\ \A j \in 1 .. c : s[j] = d[(x + j - 1) % PIPESIZE]
  BY RingSeq, Zenon
<1> HIDE DEF e
<1>6. t \in Seq(Value) /\ Len(t) = c + 1 /\ \A j \in 1 .. c + 1 : t[j] = e[(x + j - 1) % PIPESIZE]
  <2>1. /\ t \in Seq(Value) /\ Len(t) = Dist(x, Succ(y))
        /\ \A j \in 1 .. Dist(x, Succ(y)) : t[j] = e[(x + j - 1) % PIPESIZE]
    BY <1>2, <1>3, RingSeq, ZenonT(60)
  <2>q. QED  BY <1>2, <2>1, Zenon
<1> HIDE DEF c, s, t
<1>7. t[c + 1] = b
  BY <1>1, <1>2, <1>3, <1>4, <1>6 DEF e
<1>8. ASSUME NEW j \in 1 .. c PROVE t[j] = s[j]
  <2>1. (x + j - 1) % PIPESIZE # (x + c) % PIPESIZE
    <3>1. x + j - 1 \in Nat /\ x + c \in Nat /\ x + j - 1 < x + c /\ x + c < x + j - 1 + PIPESIZE
      BY <1>1, <1>2 DEF c
    <3>q. QED  BY <1>1, <3>1, ModInjective, Zenon
  <2>2. (x + j - 1) % PIPESIZE \in 0 .. PIPESIZE - 1
    BY <1>1, <1>2
  <2>3. e[(x + j - 1) % PIPESIZE] = d[(x + j - 1) % PIPESIZE]
    BY <1>4, <2>1, <2>2, Zenon DEF e
  <2>q. QED  BY <1>2, <1>5, <1>6, <2>3
<1>9. /\ Append(s, b) \in Seq(Value) /\ Len(Append(s, b)) = c + 1
      /\ \A j \in 1 .. c + 1 : Append(s, b)[j] = IF j = c + 1 THEN b ELSE s[j]
  BY <1>2, <1>5
<1>10. \A j \in 1 .. c + 1 : t[j] = Append(s, b)[j]
  BY <1>2, <1>7, <1>8, <1>9
<1>11. t = Append(s, b)
  BY <1>6, <1>9, <1>10
<1>q. QED  BY <1>11, Zenon DEF e, s, t

(* Incrementing x drops the first byte.                                    *)
LEMMA RingGet ==
  ASSUME NEW d \in [0 .. PIPESIZE - 1 -> Value],
         NEW x \in 0 .. Modulus - 1, NEW y \in 0 .. Modulus - 1, x # y
  PROVE  Ring(d, x, y) # <<>> /\ Ring(d, Succ(x), y) = Tail(Ring(d, x, y))
<1> DEFINE c == Dist(x, y)
           s == Ring(d, x, y)
           t == Ring(d, Succ(x), y)
<1>1. Modulus \in Nat \ {0} /\ PIPESIZE \in Nat \ {0}
  BY PipeAssumption
<1>2. c \in 1 .. Modulus - 1 /\ Succ(x) \in 0 .. Modulus - 1 /\ Dist(Succ(x), y) = c - 1
  <2>1. /\ Dist(x, y) \in 0 .. Modulus - 1 /\ Dist(x, y) # 0
        /\ Succ(x) \in 0 .. Modulus - 1 /\ Dist(Succ(x), y) = Dist(x, y) - 1
    BY Counters, Zenon
  <2>q. QED  BY <1>1, <2>1
<1>3. s \in Seq(Value) /\ Len(s) = c /\ \A j \in 1 .. c : s[j] = d[(x + j - 1) % PIPESIZE]
  BY RingSeq, Zenon
<1>4. t \in Seq(Value) /\ Len(t) = c - 1 /\ \A j \in 1 .. c - 1 : t[j] = d[(Succ(x) + j - 1) % PIPESIZE]
  <2>1. /\ t \in Seq(Value) /\ Len(t) = Dist(Succ(x), y)
        /\ \A j \in 1 .. Dist(Succ(x), y) : t[j] = d[(Succ(x) + j - 1) % PIPESIZE]
    BY <1>2, RingSeq, Zenon
  <2>q. QED  BY <1>2, <2>1, Zenon
<1> HIDE DEF c, s, t
<1>5. s # <<>>
  BY <1>2, <1>3
<1>6. Tail(s) \in Seq(Value) /\ Len(Tail(s)) = c - 1 /\ \A j \in 1 .. c - 1 : Tail(s)[j] = s[j + 1]
  BY <1>2, <1>3, <1>5
<1>7. ASSUME NEW j \in 1 .. c - 1 PROVE t[j] = Tail(s)[j]
  <2>1. (Succ(x) + j - 1) % PIPESIZE = (x + j) % PIPESIZE
    <3>1. CASE x = Modulus - 1
      <4>1. Succ(x) = 0
        BY <1>1, <3>1 DEF Succ
      <4>2. (x + j) % Modulus = j - 1 /\ x + j \in 0 .. 2 * Modulus - 1
        BY <1>1, <1>2, <3>1
      <4>q. QED  BY <4>1, <4>2, WrapsTogether
    <3>2. CASE x # Modulus - 1
      <4>1. Succ(x) = x + 1
        BY <1>1, <3>2 DEF Succ
      <4>2. Succ(x) + j - 1 = x + j
        BY <4>1, <1>2
      <4>q. QED  BY <4>2, Zenon
    <3>q. QED  BY <3>1, <3>2, Zenon
  <2>2. s[j + 1] = d[(x + j) % PIPESIZE]
    <3>1. j + 1 \in 1 .. c /\ x + (j + 1) - 1 = x + j
      BY <1>2
    <3>q. QED  BY <1>3, <3>1, Zenon
  <2>q. QED  BY <1>4, <1>6, <2>1, <2>2, Zenon
<1>8. t = Tail(s)
  BY <1>4, <1>6, <1>7
<1>q. QED  BY <1>5, <1>8, Zenon DEF s, t

(* The ring of pipe.c with its wrapping counters is the first-in first-out *)
(* queue of PipeAbs: one turn of the loop of pipewrite() appends a byte,   *)
(* one of piperead() takes the oldest, pipeclose() closes an end, and no   *)
(* other step is visible.  Ends that calls use are open.                   *)
THEOREM Implements == Spec => ImplementsPipe
<1>1. IInv => /\ Contents = Ring(data, nread, nwrite)
              /\ Len(Contents) = Dist(nread, nwrite)
  <2>1. Contents = Ring(data, nread, nwrite)
    BY Zenon DEF Contents, Ring, Dist
  <2>2. IInv => Len(Ring(data, nread, nwrite)) = Dist(nread, nwrite)
    BY RingSeq, Zenon DEF IInv, TypeOK
  <2>q. QED  BY <2>1, <2>2, Zenon
<1>2. Init => Abs!Init
  <2>1. SUFFICES ASSUME Init PROVE Contents = <<>>
    BY Zenon DEF Init, Abs!Init
  <2>2. IInv /\ nread = nwrite
    BY <2>1, InitIInv, Zenon DEF Init
  <2>3. Len(Contents) = 0
    BY <2>2, <1>1, Counters, Zenon DEF IInv, TypeOK
  <2>4. Contents \in Seq(Value)
    <3>1. Ring(data, nread, nwrite) \in Seq(Value)
      BY <2>2, RingSeq, Zenon DEF IInv, TypeOK
    <3>q. QED  BY <2>2, <1>1, <3>1, Zenon
  <2>q. QED  BY <2>3, <2>4, SMTT(60)
<1>3. IInv /\ [Next]_vars => [Abs!Next]_<<Contents, readopen, writeopen>>
  <2>1. SUFFICES ASSUME IInv, [Next]_vars PROVE [Abs!Next]_<<Contents, readopen, writeopen>>
    BY Zenon
  <2>2. /\ Contents = Ring(data, nread, nwrite) /\ Len(Contents) = Dist(nread, nwrite)
        /\ Contents' = Ring(data', nread', nwrite')
    BY <2>1, <1>1, Zenon DEF Contents, Ring, Dist
  <2>3. ASSUME UNCHANGED pipeVars PROVE UNCHANGED <<Contents, readopen, writeopen>>
    BY <2>2, <2>3, Zenon DEF pipeVars
  <2>4. ASSUME NEW p \in Proc, NEW b \in Byte, pc[p] = "wloop", Put(p, b) PROVE Abs!Next
    <3>1. Dist(nread, nwrite) < PIPESIZE
      <4>1. Dist(nread, nwrite) \in 0 .. PIPESIZE /\ Dist(nread, nwrite) # PIPESIZE
        BY <2>1, <2>4, Counters, Zenon DEF IInv, TypeOK, Bounded, Dist, Put, Full
      <4>q. QED  BY <4>1, PipeAssumption, SMTT(60)
    <3>2. Contents' = Append(Contents, b)
      <4>1. /\ data' = [data EXCEPT ![nwrite % PIPESIZE] = b]
            /\ nread' = nread /\ nwrite' = Succ(nwrite)
        BY <2>4, Zenon DEF Put, Succ
      <4>2. /\ data \in [0 .. PIPESIZE - 1 -> Value] /\ b \in Value
            /\ nread \in 0 .. Modulus - 1 /\ nwrite \in 0 .. Modulus - 1
        BY <2>1, <2>4, Zenon DEF IInv, TypeOK, Value
      <4>3. Ring(data', nread', nwrite') = Append(Ring(data, nread, nwrite), b)
        BY <3>1, <4>1, <4>2, RingPut, Zenon
      <4>q. QED  BY <2>2, <4>3, Zenon
    <3>3. writeopen
      BY <2>1, <2>4, Zenon DEF IInv, EndsExact, EndExact, Using, IsOpen, Openers
    <3>4. Abs!Put(b)
      BY <2>2, <2>4, <3>1, <3>2, <3>3, Zenon DEF Abs!Put, Put
    <3>q. QED  BY <2>4, <3>4, Zenon DEF Abs!Next
  <2>5. ASSUME NEW p \in Proc, pc[p] = "rcopy", Get(p) PROVE Abs!Next
    <3>1. Contents # <<>> /\ Contents' = Tail(Contents)
      BY <2>1, <2>2, <2>5, RingGet, ZenonT(60) DEF IInv, TypeOK, Get, Empty, Succ
    <3>2. readopen
      BY <2>1, <2>5, Zenon DEF IInv, EndsExact, EndExact, Using, IsOpen, Openers
    <3>3. Abs!Get
      BY <2>5, <3>1, <3>2, Zenon DEF Abs!Get, Get
    <3>q. QED  BY <3>3, Zenon DEF Abs!Next
  <2>6. ASSUME NEW p \in Proc, Pipeclose(p) PROVE Abs!Next
    <3>1. UNCHANGED Contents
      BY <2>2, <2>6, Zenon DEF Pipeclose
    <3>2. CASE pc[p] = "closew"
      <4>1. writeopen /\ writeopen' = FALSE /\ readopen' = readopen
        BY <2>1, <2>6, <3>2, Zenon DEF IInv, TypeOK, EndsExact, EndExact, IsOpen, Closing, Pipeclose
      <4>q. QED  BY <3>1, <4>1, Zenon DEF Abs!Next, Abs!CloseWrite
    <3>3. CASE pc[p] = "closer"
      <4>1. readopen /\ readopen' = FALSE /\ writeopen' = writeopen
        BY <2>1, <2>6, <3>3, Zenon DEF IInv, TypeOK, EndsExact, EndExact, IsOpen, Closing, Pipeclose
      <4>q. QED  BY <3>1, <4>1, Zenon DEF Abs!Next, Abs!CloseRead
    <3>q. QED  BY <2>6, <3>2, <3>3, Zenon DEF Pipeclose
  <2>7. ASSUME NEW p \in Proc, Call(p) \/ Acquire(p) \/ WriteFull(p) \/ WriteDone(p) \/ ReadTest(p)
                               \/ ReadDone(p) \/ Kill(p) \/ \E e \in Ends : Close(p, e)
        PROVE  UNCHANGED pipeVars
    BY <2>7, Zenon DEF Call, Acquire, WriteFull, WriteDone, ReadTest, ReadDone, Kill, Close
  <2>8. UNCHANGED vars => UNCHANGED pipeVars
    BY Zenon DEF vars
  <2>q. QED  BY <2>1, <2>3, <2>4, <2>5, <2>6, <2>7, <2>8, Zenon DEF Next, Step, Pipewrite, ReadCopy
<1>q. QED  BY <1>2, <1>3, Invariance, PTL DEF Spec, ImplementsPipe, Abs!Spec
=============================================================================
