--------------------------- MODULE ConsoleProofs ---------------------------
(***************************************************************************)
(* Proofs about console input, for any size of the ring and any modulus of *)
(* its indices that is a multiple of it: the indices keep their order in   *)
(* unsigned arithmetic, no reader misses a wakeup, and the ring is a line  *)
(* editor in front of a queue (ConsoleAbs).                                *)
(***************************************************************************)
EXTENDS Console, SequenceTheorems, TLAPS

-----------------------------------------------------------------------------
(* A number below twice the modulus is reduced by one subtraction at most. *)
LEMMA ModOnce ==
  ASSUME NEW m \in Nat \ {0}, NEW a \in 0 .. 2 * m - 1
  PROVE  a % m = IF a < m THEN a ELSE a - m
  OBVIOUS

(* A multiple is at least as large as what it is a multiple of.            *)
LEMMA TimesAtLeast ==
  ASSUME NEW m \in Nat \ {0}, NEW k \in Nat \ {0}
  PROVE  k * m >= m
  OBVIOUS

(* Division with remainder.                                                *)
LEMMA DivMod ==
  ASSUME NEW m \in Nat \ {0}, NEW a \in Nat
  PROVE  /\ a \div m \in Nat /\ a % m \in 0 .. m - 1
         /\ a = (a \div m) * m + (a % m)
  OBVIOUS

(* Numbers less than m apart have different remainders.                    *)
LEMMA ModInjective ==
  ASSUME NEW m \in Nat \ {0}, NEW a \in Nat, NEW b \in Nat, a < b, b < a + m
  PROVE  a % m # b % m
<1> DEFINE j == a \div m  k == b \div m
<1>1. SUFFICES ASSUME a % m = b % m PROVE FALSE
  BY Zenon
<1>2. /\ j \in Nat /\ k \in Nat
      /\ a = j * m + (a % m) /\ b = k * m + (b % m)
  BY DivMod, Zenon
<1>3. b - a = (k - j) * m
  BY <1>1, <1>2
<1>4. k - j \in Nat \ {0}
  <2>1. CASE k <= j
    <3>1. j * m - k * m = (j - k) * m /\ (j - k) * m >= 0
      BY <2>1, <1>2
    <3>q. QED  BY <3>1, <1>1, <1>2
  <2>q. QED  BY <2>1, <1>2
<1>5. (k - j) * m >= m
  BY <1>4, TimesAtLeast, Zenon
<1>q. QED  BY <1>3, <1>5

(* A number determines its remainder.                                      *)
LEMMA ModUnique ==
  ASSUME NEW m \in Nat \ {0}, NEW j \in Nat, NEW k \in Nat,
         NEW s \in 0 .. m - 1, NEW t \in 0 .. m - 1, j * m + s = k * m + t
  PROVE  s = t /\ j = k
<1>1. CASE j = k
  BY <1>1
<1>2. CASE j > k
  <2>1. (j - k) * m >= m
    BY <1>2, TimesAtLeast
  <2>2. (j - k) * m = j * m - k * m
    OBVIOUS
  <2>q. QED  BY <2>1, <2>2
<1>3. CASE j < k
  <2>1. (k - j) * m >= m
    BY <1>3, TimesAtLeast
  <2>2. (k - j) * m = k * m - j * m
    OBVIOUS
  <2>q. QED  BY <2>1, <2>2
<1>q. QED  BY <1>1, <1>2, <1>3

(* Subtracting a multiple of m keeps the remainder.                        *)
LEMMA ModShift ==
  ASSUME NEW m \in Nat \ {0}, NEW c \in Nat, c % m = 0, NEW a \in Nat, a >= c
  PROVE  (a - c) % m = a % m
<1> DEFINE d == a - c
           j == d \div m  k == c \div m  l == a \div m  s == d % m  t == a % m
<1>1. d \in Nat
  OBVIOUS
<1> HIDE DEF d
<1>2. j \in Nat /\ s \in 0 .. m - 1 /\ d = j * m + s
  BY <1>1, DivMod, Zenon
<1>3. k \in Nat /\ c = k * m
  <2>1. k \in Nat /\ c = k * m + (c % m)
    BY DivMod, Zenon
  <2>q. QED  BY <2>1
<1>4. l \in Nat /\ t \in 0 .. m - 1 /\ a = l * m + t
  BY DivMod, Zenon
<1> HIDE DEF j, k, l, s, t
<1>5. (j + k) * m + s = l * m + t
  <2>1. (j + k) * m = j * m + k * m
    BY <1>2, <1>3
  <2>2. a = d + c
    BY DEF d
  <2>q. QED  BY <1>2, <1>3, <1>4, <2>1, <2>2
<1>6. s = t
  BY <1>2, <1>3, <1>4, <1>5, ModUnique, j + k \in Nat
<1>q. QED  BY <1>6, Zenon DEF s, t, d

-----------------------------------------------------------------------------
Idx == 0 .. WRAP - 1
Slot == 0 .. INPUT_BUF - 1
Sym == Char \union {NL, EOT}

(* y - x in unsigned arithmetic: how far the index y is ahead of x.        *)
Dist(x, y) == (y + WRAP - x) % WRAP

(* The characters of a ring d from index x up to index y.                  *)
Ring(d, x, y) == [j \in 1 .. Dist(x, y) |-> d[((x + j - 1) % WRAP) % INPUT_BUF]]

(* Modular arithmetic on the indices without the operator %.               *)
LEMMA Linear ==
  ASSUME ConsoleAssumption, NEW x \in Idx, NEW y \in Idx
  PROVE  /\ Dist(x, y) = IF y >= x THEN y - x ELSE y + WRAP - x
         /\ Inc(x) = IF x = WRAP - 1 THEN 0 ELSE x + 1
         /\ Dec(x) = IF x = 0 THEN WRAP - 1 ELSE x - 1
         /\ (x + INPUT_BUF) % WRAP = IF x + INPUT_BUF < WRAP THEN x + INPUT_BUF
                                     ELSE x + INPUT_BUF - WRAP
<1>1. WRAP \in Nat \ {0} /\ INPUT_BUF \in Nat \ {0} /\ INPUT_BUF < WRAP /\ x \in Nat /\ y \in Nat
  BY DEF ConsoleAssumption, Idx
<1>3. /\ y + WRAP - x \in 0 .. 2 * WRAP - 1 /\ x + 1 \in 0 .. 2 * WRAP - 1
      /\ x + WRAP - 1 \in 0 .. 2 * WRAP - 1 /\ x + INPUT_BUF \in 0 .. 2 * WRAP - 1
  BY <1>1 DEF Idx
<1>4. Dist(x, y) = IF y + WRAP - x < WRAP THEN y + WRAP - x ELSE y + WRAP - x - WRAP
  BY <1>1, <1>3, SMT DEF Dist
<1>5. Inc(x) = IF x + 1 < WRAP THEN x + 1 ELSE x + 1 - WRAP
  BY <1>1, <1>3, SMT DEF Inc
<1>6. Dec(x) = IF x + WRAP - 1 < WRAP THEN x + WRAP - 1 ELSE x + WRAP - 1 - WRAP
  BY <1>1, <1>3, SMT DEF Dec
<1>7. (x + INPUT_BUF) % WRAP = IF x + INPUT_BUF < WRAP THEN x + INPUT_BUF
                               ELSE x + INPUT_BUF - WRAP
  BY <1>1, <1>3, SMT
<1>q. QED  BY <1>1, <1>4, <1>5, <1>6, <1>7 DEF Idx

(* How far y is ahead of x, and what moving either by one does to that.    *)
LEMMA Counters ==
  ASSUME ConsoleAssumption, NEW x \in Idx, NEW y \in Idx
  PROVE  /\ Dist(x, y) \in Idx
         /\ x = y <=> Dist(x, y) = 0
         /\ Inc(y) \in Idx /\ Dec(y) \in Idx
         /\ Dist(x, y) < INPUT_BUF => Dist(x, Inc(y)) = Dist(x, y) + 1
         /\ x # y => Dist(Inc(x), y) = Dist(x, y) - 1
         /\ x # y => Dist(x, Dec(y)) = Dist(x, y) - 1
         /\ Dist(x, y) < INPUT_BUF =>
              (Inc(y) = (x + INPUT_BUF) % WRAP <=> Dist(x, y) + 1 = INPUT_BUF)
<1>1. WRAP \in Nat \ {0} /\ INPUT_BUF \in Nat \ {0} /\ INPUT_BUF < WRAP
  BY DEF ConsoleAssumption
<1>2. /\ Dist(x, y) = IF y >= x THEN y - x ELSE y + WRAP - x
      /\ Inc(x) = IF x = WRAP - 1 THEN 0 ELSE x + 1
      /\ Inc(y) = IF y = WRAP - 1 THEN 0 ELSE y + 1
      /\ Dec(y) = IF y = 0 THEN WRAP - 1 ELSE y - 1
      /\ (x + INPUT_BUF) % WRAP = IF x + INPUT_BUF < WRAP THEN x + INPUT_BUF
                                  ELSE x + INPUT_BUF - WRAP
  BY Linear, Zenon
<1>3. Inc(x) \in Idx /\ Inc(y) \in Idx /\ Dec(y) \in Idx
  BY <1>1, <1>2 DEF Idx
<1>4. /\ Dist(x, Inc(y)) = IF Inc(y) >= x THEN Inc(y) - x ELSE Inc(y) + WRAP - x
      /\ Dist(Inc(x), y) = IF y >= Inc(x) THEN y - Inc(x) ELSE y + WRAP - Inc(x)
      /\ Dist(x, Dec(y)) = IF Dec(y) >= x THEN Dec(y) - x ELSE Dec(y) + WRAP - x
  BY <1>3, Linear, Zenon
<1>q. QED  BY <1>1, <1>2, <1>3, <1>4 DEF Idx

(* The indices wrap around without a jump in the ring, because WRAP is a   *)
(* multiple of INPUT_BUF.                                                  *)
LEMMA WrapsTogether ==
  ASSUME ConsoleAssumption, NEW a \in 0 .. 2 * WRAP - 1
  PROVE  (a % WRAP) % INPUT_BUF = a % INPUT_BUF
<1>1. WRAP \in Nat \ {0} /\ INPUT_BUF \in Nat \ {0} /\ WRAP % INPUT_BUF = 0
  BY DEF ConsoleAssumption
<1>2. a % WRAP = IF a < WRAP THEN a ELSE a - WRAP
  BY <1>1, ModOnce, Zenon
<1>3. CASE a < WRAP
  BY <1>2, <1>3, Zenon
<1>4. CASE a >= WRAP
  <2>1. (a - WRAP) % INPUT_BUF = a % INPUT_BUF
    <3>1. a \in Nat /\ WRAP \in Nat /\ a >= WRAP
      BY <1>1, <1>4
    <3>q. QED  BY <1>1, <3>1, ModShift, Zenon
  <2>q. QED  BY <1>1, <1>2, <1>4, <2>1, Zenon
<1>q. QED  BY <1>1, <1>3, <1>4

(* The place of the j-th index from x on.                                  *)
Place(x, j) == (x + j - 1) % INPUT_BUF

(* The ring as a sequence.                                                 *)
LEMMA RingSeq ==
  ASSUME ConsoleAssumption, NEW d \in [Slot -> Sym], NEW x \in Idx, NEW y \in Idx
  PROVE  /\ Ring(d, x, y) \in Seq(Sym)
         /\ Len(Ring(d, x, y)) = Dist(x, y)
         /\ \A j \in 1 .. Dist(x, y) : Ring(d, x, y)[j] = d[Place(x, j)]
<1>1. WRAP \in Nat \ {0} /\ INPUT_BUF \in Nat \ {0}
  BY DEF ConsoleAssumption
<1>2. Dist(x, y) \in 0 .. WRAP - 1
  BY Counters, Zenon DEF Idx
<1>3. ASSUME NEW j \in 1 .. Dist(x, y)
      PROVE  ((x + j - 1) % WRAP) % INPUT_BUF = Place(x, j) /\ Place(x, j) \in Slot
  <2>1. x + j - 1 \in 0 .. 2 * WRAP - 1
    BY <1>1, <1>2 DEF Idx
  <2>2. ((x + j - 1) % WRAP) % INPUT_BUF = Place(x, j)
    BY <2>1, WrapsTogether, Zenon DEF Place
  <2>3. Place(x, j) \in Slot
    BY <1>1, <2>1 DEF Place, Slot
  <2>q. QED  BY <2>2, <2>3, Zenon
<1>4. Ring(d, x, y) = [j \in 1 .. Dist(x, y) |-> d[Place(x, j)]]
  BY <1>3, Zenon DEF Ring
<1>5. \A j \in 1 .. Dist(x, y) : d[Place(x, j)] \in Sym
  BY <1>3, Zenon
<1>6. Ring(d, x, y) \in [1 .. Dist(x, y) -> Sym]
  BY <1>4, <1>5, Zenon
<1>7. Dist(x, y) \in Nat
  BY <1>1, <1>2
<1>8. Ring(d, x, y) \in Seq(Sym) /\ Len(Ring(d, x, y)) = Dist(x, y)
  BY <1>6, <1>7
<1>q. QED  BY <1>4, <1>8, Zenon

(* Counting from y on is counting from x on, Dist(x, y) further.           *)
LEMMA PlaceShift ==
  ASSUME ConsoleAssumption, NEW x \in Idx, NEW y \in Idx, NEW j \in Nat \ {0}
  PROVE  Place(y, j) = Place(x, Dist(x, y) + j)
<1>1. /\ WRAP \in Nat \ {0} /\ INPUT_BUF \in Nat \ {0} /\ WRAP % INPUT_BUF = 0
      /\ x \in Nat /\ y \in Nat
  BY DEF ConsoleAssumption, Idx
<1>2. Dist(x, y) = IF y >= x THEN y - x ELSE y + WRAP - x
  BY Linear, Zenon
<1>3. CASE y >= x
  <2>1. x + (Dist(x, y) + j) - 1 = y + j - 1
    BY <1>1, <1>2, <1>3
  <2>q. QED  BY <2>1, Zenon DEF Place
<1>4. CASE y < x
  <2>1. PICK a : a = y + j - 1 + WRAP
    BY Zenon
  <2>2. a \in Nat /\ WRAP \in Nat /\ a >= WRAP /\ a - WRAP = y + j - 1
    BY <1>1, <2>1
  <2>3. x + (Dist(x, y) + j) - 1 = a
    BY <1>1, <1>2, <1>4, <2>1
  <2>4. (a - WRAP) % INPUT_BUF = a % INPUT_BUF
    BY <1>1, <2>2, ModShift, Zenon
  <2>q. QED  BY <2>2, <2>3, <2>4, Zenon DEF Place
<1>q. QED  BY <1>1, <1>3, <1>4

(* The ring after a write at index y.                                      *)
Put(d, y, c) == [d EXCEPT ![y % INPUT_BUF] = c]

(* Writing at y does not change the characters from x up to y, or to a z   *)
(* before it, while there is room for one more.                            *)
LEMMA RingKeep ==
  ASSUME ConsoleAssumption, NEW d \in [Slot -> Sym], NEW c \in Sym,
         NEW x \in Idx, NEW y \in Idx, NEW z \in Idx,
         Dist(x, z) <= Dist(x, y), Dist(x, y) < INPUT_BUF
  PROVE  /\ Put(d, y, c) \in [Slot -> Sym]
         /\ Ring(Put(d, y, c), x, z) = Ring(d, x, z)
<1> DEFINE g == Put(d, y, c)
           s == Ring(d, x, z)
           t == Ring(g, x, z)
<1>1. /\ INPUT_BUF \in Nat \ {0} /\ x \in Nat /\ y \in Nat
      /\ Dist(x, y) \in Nat /\ Dist(x, z) \in Nat
  BY Counters DEF ConsoleAssumption, Idx
<1>2. y % INPUT_BUF = Place(x, Dist(x, y) + 1)
  <2>1. Place(y, 1) = y % INPUT_BUF
    BY <1>1 DEF Place
  <2>q. QED  BY <2>1, PlaceShift
<1>3. y % INPUT_BUF \in Slot
  BY <1>1 DEF Slot
<1>4. g \in [Slot -> Sym]
  BY <1>3, Zenon DEF Put
<1> HIDE DEF g
<1>5. s \in Seq(Sym) /\ Len(s) = Dist(x, z) /\ \A j \in 1 .. Dist(x, z) : s[j] = d[Place(x, j)]
  BY RingSeq, Zenon
<1>5t. t \in Seq(Sym) /\ Len(t) = Dist(x, z) /\ \A j \in 1 .. Dist(x, z) : t[j] = g[Place(x, j)]
  BY <1>4, RingSeq, Zenon
<1> HIDE DEF s, t
<1>6. ASSUME NEW j \in 1 .. Dist(x, z) PROVE t[j] = s[j]
  <2>1. x + j - 1 \in Nat /\ x + (Dist(x, y) + 1) - 1 \in Nat
        /\ x + j - 1 < x + (Dist(x, y) + 1) - 1 /\ x + (Dist(x, y) + 1) - 1 < x + j - 1 + INPUT_BUF
    BY <1>1
  <2>2. Place(x, j) # Place(x, Dist(x, y) + 1)
    BY <1>1, <2>1, ModInjective, Zenon DEF Place
  <2>3. Place(x, j) \in Slot
    BY <1>1, <2>1 DEF Place, Slot
  <2>4. g[Place(x, j)] = d[Place(x, j)]
    BY <1>2, <2>2, <2>3, Zenon DEF g, Put
  <2>q. QED  BY <1>5, <1>5t, <2>4, Zenon
<1>7. t = s
  BY <1>1, <1>5, <1>5t, <1>6
<1>q. QED  BY <1>4, <1>7, Zenon DEF g, s, t

(* Writing at y and moving on appends to the characters from x up to y.    *)
LEMMA RingPut ==
  ASSUME ConsoleAssumption, NEW d \in [Slot -> Sym], NEW c \in Sym,
         NEW x \in Idx, NEW y \in Idx, Dist(x, y) < INPUT_BUF
  PROVE  Ring(Put(d, y, c), x, Inc(y)) = Append(Ring(d, x, y), c)
<1> DEFINE g == Put(d, y, c)
           m == Dist(x, y)
           s == Ring(d, x, y)
           u == Ring(g, x, y)
           t == Ring(g, x, Inc(y))
<1>1. /\ INPUT_BUF \in Nat \ {0} /\ x \in Nat /\ y \in Nat /\ m \in Nat
      /\ Inc(y) \in Idx /\ Dist(x, Inc(y)) = m + 1
  BY Counters DEF ConsoleAssumption, Idx
<1>2. y % INPUT_BUF = Place(x, m + 1) /\ y % INPUT_BUF \in Slot
  <2>1. Place(y, 1) = y % INPUT_BUF /\ y % INPUT_BUF \in Slot
    BY <1>1 DEF Place, Slot
  <2>q. QED  BY <2>1, PlaceShift
<1>3. g \in [Slot -> Sym] /\ u = s
  <2>1. Dist(x, y) <= Dist(x, y)
    BY <1>1
  <2>q. QED  BY <2>1, RingKeep, Zenon
<1>4. g[Place(x, m + 1)] = c
  BY <1>2, Zenon DEF Put
<1> HIDE DEF g
<1>5. u \in Seq(Sym) /\ Len(u) = m /\ \A j \in 1 .. m : u[j] = g[Place(x, j)]
  BY <1>3, RingSeq, Zenon
<1>5t. /\ t \in Seq(Sym) /\ Len(t) = Dist(x, Inc(y))
       /\ \A j \in 1 .. Dist(x, Inc(y)) : t[j] = g[Place(x, j)]
  BY <1>1, <1>3, RingSeq, Zenon
<1> HIDE DEF s, t, u, m
<1>6. t[m + 1] = c /\ \A j \in 1 .. m : t[j] = s[j]
  BY <1>1, <1>3, <1>4, <1>5, <1>5t
<1>7. t = Append(s, c)
  BY <1>1, <1>3, <1>5, <1>5t, <1>6
<1>q. QED  BY <1>7, Zenon DEF g, s, t

(* Moving x on drops the first character.                                  *)
LEMMA RingGet ==
  ASSUME ConsoleAssumption, NEW d \in [Slot -> Sym], NEW x \in Idx, NEW y \in Idx, x # y
  PROVE  Ring(d, x, y) # <<>> /\ Ring(d, Inc(x), y) = Tail(Ring(d, x, y))
<1> DEFINE m == Dist(x, y)
           s == Ring(d, x, y)
           t == Ring(d, Inc(x), y)
<1>1. /\ INPUT_BUF \in Nat \ {0} /\ Dist(x, x) = 0
      /\ m \in Nat \ {0} /\ Inc(x) \in Idx /\ Dist(Inc(x), y) = m - 1
  BY Counters DEF Idx, ConsoleAssumption
<1>2. Dist(x, Inc(x)) = 1
  <2>1. Dist(x, x) < INPUT_BUF => Dist(x, Inc(x)) = Dist(x, x) + 1
    BY Counters, Zenon
  <2>q. QED  BY <1>1, <2>1
<1>3. s \in Seq(Sym) /\ Len(s) = m /\ \A j \in 1 .. m : s[j] = d[Place(x, j)]
  BY RingSeq, Zenon
<1>4. /\ t \in Seq(Sym) /\ Len(t) = Dist(Inc(x), y)
      /\ \A j \in 1 .. Dist(Inc(x), y) : t[j] = d[Place(Inc(x), j)]
  BY <1>1, RingSeq, ZenonT(60)
<1>5. ASSUME NEW j \in 1 .. m - 1 PROVE Place(Inc(x), j) = Place(x, j + 1)
  <2>1. Place(Inc(x), j) = Place(x, Dist(x, Inc(x)) + j)
    BY <1>1, PlaceShift
  <2>2. Dist(x, Inc(x)) + j = j + 1
    BY <1>1, <1>2
  <2>q. QED  BY <2>1, <2>2, Zenon
<1> HIDE DEF m, s, t
<1>6. s # <<>>
  BY <1>1, <1>3, Zenon
<1>7. ASSUME NEW j \in 1 .. m - 1 PROVE t[j] = s[j + 1]
  <2>1. j \in 1 .. Dist(Inc(x), y) /\ j + 1 \in 1 .. m
    BY <1>1
  <2>q. QED  BY <1>3, <1>4, <1>5, <2>1, Zenon
<1>8. t = Tail(s)
  BY <1>1, <1>3, <1>4, <1>6, <1>7
<1>q. QED  BY <1>6, <1>8, Zenon DEF s, t

(* Moving y back drops the last character.                                 *)
LEMMA RingDrop ==
  ASSUME ConsoleAssumption, NEW d \in [Slot -> Sym], NEW x \in Idx, NEW y \in Idx, x # y
  PROVE  /\ Ring(d, x, y) # <<>>
         /\ Ring(d, x, Dec(y)) = SubSeq(Ring(d, x, y), 1, Len(Ring(d, x, y)) - 1)
<1> DEFINE m == Dist(x, y)
           s == Ring(d, x, y)
           t == Ring(d, x, Dec(y))
<1>1. m \in Nat \ {0} /\ Dec(y) \in Idx /\ Dist(x, Dec(y)) = m - 1
  BY Counters DEF Idx, ConsoleAssumption
<1>2. s \in Seq(Sym) /\ Len(s) = m /\ \A j \in 1 .. m : s[j] = d[Place(x, j)]
  BY RingSeq, Zenon
<1>3. /\ t \in Seq(Sym) /\ Len(t) = Dist(x, Dec(y))
      /\ \A j \in 1 .. Dist(x, Dec(y)) : t[j] = d[Place(x, j)]
  BY <1>1, RingSeq, Zenon
<1> HIDE DEF m, s, t
<1>4. s # <<>>
  BY <1>1, <1>2, Zenon
<1>5. \A j \in 1 .. m - 1 : t[j] = s[j]
  BY <1>1, <1>2, <1>3
<1>6. t = SubSeq(s, 1, Len(s) - 1)
  BY <1>1, <1>2, <1>3, <1>5
<1>q. QED  BY <1>4, <1>6, Zenon DEF s, t

(* The characters up to y and those from y on, put together.               *)
LEMMA RingJoin ==
  ASSUME ConsoleAssumption, NEW d \in [Slot -> Sym], NEW x \in Idx, NEW y \in Idx, NEW z \in Idx,
         Dist(x, y) + Dist(y, z) = Dist(x, z)
  PROVE  Ring(d, x, y) \o Ring(d, y, z) = Ring(d, x, z)
<1> DEFINE m == Dist(x, y)
           l == Dist(y, z)
           s == Ring(d, x, y)
           t == Ring(d, y, z)
           u == Ring(d, x, z)
<1>1. m \in Nat /\ l \in Nat /\ Dist(x, z) = m + l
  BY Counters DEF Idx, ConsoleAssumption
<1>2. s \in Seq(Sym) /\ Len(s) = m /\ \A j \in 1 .. m : s[j] = d[Place(x, j)]
  BY RingSeq, Zenon
<1>3. t \in Seq(Sym) /\ Len(t) = l /\ \A j \in 1 .. l : t[j] = d[Place(y, j)]
  BY RingSeq, Zenon
<1>4. /\ u \in Seq(Sym) /\ Len(u) = Dist(x, z)
      /\ \A j \in 1 .. Dist(x, z) : u[j] = d[Place(x, j)]
  BY RingSeq, Zenon
<1>5. ASSUME NEW j \in 1 .. l PROVE Place(y, j) = Place(x, m + j)
  BY <1>1, PlaceShift
<1> HIDE DEF m, l, s, t, u
<1>6. ASSUME NEW j \in 1 .. m PROVE u[j] = s[j]
  <2>1. j \in 1 .. Dist(x, z)
    BY <1>1
  <2>q. QED  BY <1>2, <1>4, <2>1, Zenon
<1>a. ASSUME NEW j \in 1 .. l PROVE u[m + j] = t[j]
  <2>1. m + j \in 1 .. Dist(x, z)
    BY <1>1
  <2>q. QED  BY <1>3, <1>4, <1>5, <2>1, Zenon
<1>7. /\ s \o t \in Seq(Sym) /\ Len(s \o t) = m + l
      /\ \A j \in 1 .. m + l : (s \o t)[j] = IF j <= m THEN s[j] ELSE t[j - m]
  <2>1. /\ s \o t \in Seq(Sym) /\ Len(s \o t) = Len(s) + Len(t)
        /\ \A j \in 1 .. Len(s) + Len(t) : (s \o t)[j] = IF j <= Len(s) THEN s[j] ELSE t[j - Len(s)]
    BY <1>2, <1>3, ConcatProperties, Zenon
  <2>q. QED  BY <1>2, <1>3, <2>1, Zenon
<1>8. ASSUME NEW j \in 1 .. m + l PROVE (s \o t)[j] = u[j]
  <2>1. CASE j <= m
    BY <1>1, <1>6, <1>7, <2>1
  <2>2. CASE j > m
    <3>1. j - m \in 1 .. l /\ m + (j - m) = j
      BY <1>1, <2>2
    <3>2. (s \o t)[j] = t[j - m]
      BY <1>1, <1>7, <2>2
    <3>q. QED  BY <1>a, <3>1, <3>2, Zenon
  <2>3. j <= m \/ j > m
    BY <1>1
  <2>q. QED  BY <2>1, <2>2, <2>3, Zenon
<1>9. s \o t = u
  BY <1>1, <1>4, <1>7, <1>8
<1>q. QED  BY <1>9, Zenon DEF s, t, u

-----------------------------------------------------------------------------
TypeOK ==
  /\ buf \in [Slot -> Sym] /\ r \in Idx /\ w \in Idx /\ e \in Idx
  /\ pc \in [Reader -> {"idle", "loop", "sleep"}]
  /\ killed \in [Reader -> BOOLEAN]

(* From r the indices come in the order w, e, and e is at most a ring away *)
(* from r.                                                                 *)
Ordered == Dist(r, w) + Dist(w, e) = Dist(r, e) /\ Dist(r, e) <= INPUT_BUF

(* A full ring has been entered to the last character.                     *)
FullEntered == Dist(r, e) = INPUT_BUF => w = e

(* What has not been entered has no newline in it.                         *)
NoNewline == \A j \in 1 .. Dist(w, e) : Ring(buf, w, e)[j] # NL

IInv == TypeOK /\ Ordered /\ FullEntered /\ NoNewline /\ SleepsOnEmpty

Ready == Ring(buf, r, w)
Line == Ring(buf, w, e)

(* Distances are numbers, and 0 from an index to itself.                   *)
LEMMA Distances ==
  ASSUME ConsoleAssumption, TypeOK
  PROVE  /\ INPUT_BUF \in Nat \ {0}
         /\ Dist(r, w) \in Nat /\ Dist(w, e) \in Nat /\ Dist(r, e) \in Nat
         /\ Dist(r, w) = 0 <=> r = w
         /\ Dist(w, e) = 0 <=> w = e
<1>1. WRAP \in Nat /\ INPUT_BUF \in Nat \ {0}
  BY Zenon DEF ConsoleAssumption
<1>2. Dist(r, w) \in Idx /\ Dist(w, e) \in Idx /\ Dist(r, e) \in Idx
  BY Counters, Zenon DEF TypeOK
<1>3. (Dist(r, w) = 0 <=> r = w) /\ (Dist(w, e) = 0 <=> w = e)
  BY Counters DEF TypeOK
<1>q. QED  BY <1>1, <1>2, <1>3 DEF Idx

(* An empty stretch of the ring is the empty sequence.                     *)
LEMMA RingEmpty ==
  ASSUME ConsoleAssumption, NEW d \in [Slot -> Sym], NEW x \in Idx
  PROVE  Dist(x, x) = 0 /\ Ring(d, x, x) = <<>>
<1>1. Dist(x, x) = 0
  BY Counters, Zenon
<1>2. Ring(d, x, x) \in Seq(Sym) /\ Len(Ring(d, x, x)) = 0
  BY <1>1, RingSeq, Zenon
<1>q. QED  BY <1>1, <1>2

(* A character typed is added to the line, and enters it if it ends it or  *)
(* takes the last place.                                                   *)
LEMMA TypedStep ==
  ASSUME ConsoleAssumption, IInv, NEW c \in Sym, Typed(c)
  PROVE  /\ IInv'
         /\ Dist(r, w) + Dist(w, e) # INPUT_BUF
         /\ IF c \in {NL, EOT} \/ Dist(r, w) + Dist(w, e) + 1 = INPUT_BUF
              THEN Ready' = Append(Ready \o Line, c) /\ Line' = <<>>
              ELSE Line' = Append(Line, c) /\ Ready' = Ready
<1>0. /\ buf \in [Slot -> Sym] /\ r \in Idx /\ w \in Idx /\ e \in Idx
      /\ Dist(r, w) + Dist(w, e) = Dist(r, e) /\ Dist(r, e) <= INPUT_BUF
  BY Zenon DEF IInv, TypeOK, Ordered
<1>1. /\ INPUT_BUF \in Nat \ {0}
      /\ Dist(r, w) \in Nat /\ Dist(w, e) \in Nat /\ Dist(r, e) \in Nat
  BY Distances, Zenon DEF IInv
<1>2. /\ Dist(r, e) < INPUT_BUF /\ buf' = Put(buf, e, c) /\ e' = Inc(e)
      /\ r' = r /\ killed' = killed
      /\ IF Enters(c) THEN w' = Inc(e) /\ pc' = Wakeup ELSE w' = w /\ pc' = pc
  BY Zenon DEF Typed, Room, Held, Dist, Put, readerVars
<1>3. Dist(w, e) < INPUT_BUF /\ Dist(r, w) <= Dist(r, e)
  BY <1>0, <1>1, <1>2
<1>4. /\ Inc(e) \in Idx /\ Dist(r, Inc(e)) = Dist(r, e) + 1 /\ Dist(w, Inc(e)) = Dist(w, e) + 1
      /\ Inc(e) = (r + INPUT_BUF) % WRAP <=> Dist(r, e) + 1 = INPUT_BUF
  BY <1>0, <1>2, <1>3, Counters
<1>5. Enters(c) <=> c \in {NL, EOT} \/ Dist(r, w) + Dist(w, e) + 1 = INPUT_BUF
  BY <1>0, <1>4, Zenon DEF Enters
<1>6. buf' \in [Slot -> Sym]
  <2>1. Dist(r, e) <= Dist(r, e)
    BY <1>1
  <2>q. QED  BY <1>0, <1>2, <2>1, RingKeep, Zenon
<1>7. pc' \in [Reader -> {"idle", "loop", "sleep"}]
      /\ (Enters(c) => \A p \in Reader : pc'[p] # "sleep")
  BY <1>2, Zenon DEF IInv, TypeOK, Wakeup
<1>8. TypeOK'
  BY <1>0, <1>2, <1>4, <1>6, <1>7, Zenon DEF IInv, TypeOK
<1>9. CASE Enters(c)
  <2>1. w' = Inc(e) /\ e' = Inc(e) /\ r' = r
    BY <1>2, <1>9, Zenon
  <2>2. Dist(w', e') = 0 /\ Line' = <<>>
    BY <1>4, <1>6, <2>1, RingEmpty, Zenon DEF Line
  <2>3. Ready' = Append(Ready \o Line, c)
    <3>1. Ring(Put(buf, e, c), r, Inc(e)) = Append(Ring(buf, r, e), c)
      BY <1>0, <1>2, RingPut, Zenon
    <3>2. Ring(buf, r, w) \o Ring(buf, w, e) = Ring(buf, r, e)
      BY <1>0, RingJoin, Zenon
    <3>q. QED  BY <1>2, <2>1, <3>1, <3>2, Zenon DEF Ready, Line
  <2>4. Ordered' /\ FullEntered' /\ NoNewline'
    <3>1. Dist(r', w') = Dist(r, e) + 1 /\ Dist(r', e') = Dist(r, e) + 1
      BY <1>4, <2>1, Zenon
    <3>q. QED  BY <1>1, <1>2, <2>1, <2>2, <3>1 DEF Ordered, FullEntered, NoNewline
  <2>5. SleepsOnEmpty'
    BY <1>7, <1>9, Zenon DEF SleepsOnEmpty
  <2>q. QED  BY <1>0, <1>1, <1>2, <1>5, <1>8, <1>9, <2>2, <2>3, <2>4, <2>5 DEF IInv
<1>10. CASE ~Enters(c)
  <2>1. w' = w /\ e' = Inc(e) /\ r' = r /\ pc' = pc /\ killed' = killed
    BY <1>2, <1>10, Zenon
  <2>2. Line' = Append(Line, c)
    <3>1. Ring(Put(buf, e, c), w, Inc(e)) = Append(Ring(buf, w, e), c)
      BY <1>0, <1>3, RingPut, Zenon
    <3>q. QED  BY <1>2, <2>1, <3>1, Zenon DEF Line
  <2>3. Ready' = Ready
    <3>1. Ring(Put(buf, e, c), r, w) = Ring(buf, r, w)
      BY <1>0, <1>2, <1>3, RingKeep, ZenonT(60)
    <3>q. QED  BY <1>2, <2>1, <3>1, Zenon DEF Ready
  <2>4. Ordered' /\ FullEntered'
    <3>1. Dist(r', w') = Dist(r, w) /\ Dist(r', e') = Dist(r, e) + 1 /\ Dist(w', e') = Dist(w, e) + 1
      BY <1>4, <2>1, Zenon
    <3>2. Dist(r, e) + 1 # INPUT_BUF
      BY <1>0, <1>5, <1>10, Zenon
    <3>q. QED  BY <1>0, <1>1, <1>2, <3>1, <3>2 DEF Ordered, FullEntered
  <2>5. NoNewline'
    <3>1. Line \in Seq(Sym) /\ Len(Line) = Dist(w, e)
      BY <1>0, RingSeq, Zenon DEF Line
    <3>2. \A j \in 1 .. Dist(w, e) : Line[j] # NL
      BY Zenon DEF IInv, NoNewline, Line
    <3>3. c # NL
      BY <1>5, <1>10, Zenon
    <3>4. \A j \in 1 .. Dist(w, e) + 1 : Append(Line, c)[j] # NL
      BY <1>1, <3>1, <3>2, <3>3
    <3>5. Dist(w', e') = Dist(w, e) + 1
      BY <1>4, <2>1, Zenon
    <3>q. QED  BY <2>2, <3>4, <3>5, Zenon DEF NoNewline, Line
  <2>6. SleepsOnEmpty'
    BY <2>1, Zenon DEF IInv, SleepsOnEmpty
  <2>q. QED  BY <1>0, <1>1, <1>2, <1>5, <1>8, <1>10, <2>2, <2>3, <2>4, <2>5, <2>6 DEF IInv
<1>q. QED  BY <1>9, <1>10, Zenon

(* Moving e back to a place not before w leaves the indices in order.      *)
LEMMA BackspaceStep ==
  ASSUME ConsoleAssumption, IInv, Backspace
  PROVE  /\ IInv' /\ Ready' = Ready
         /\ Line # <<>> /\ Line' = SubSeq(Line, 1, Len(Line) - 1)
<1>0. /\ buf \in [Slot -> Sym] /\ r \in Idx /\ w \in Idx /\ e \in Idx
      /\ Dist(r, w) + Dist(w, e) = Dist(r, e) /\ Dist(r, e) <= INPUT_BUF
  BY Zenon DEF IInv, TypeOK, Ordered
<1>1. /\ INPUT_BUF \in Nat \ {0}
      /\ Dist(r, w) \in Nat /\ Dist(w, e) \in Nat \ {0} /\ Dist(r, e) \in Nat \ {0}
  BY <1>0, Distances DEF IInv, Backspace
<1>2. /\ w # e /\ e' = Dec(e) /\ buf' = buf /\ r' = r /\ w' = w /\ pc' = pc /\ killed' = killed
  BY Zenon DEF Backspace, readerVars
<1>3. r # e
  BY <1>0, <1>1, Counters, Zenon
<1>4. Dec(e) \in Idx /\ Dist(w, Dec(e)) = Dist(w, e) - 1 /\ Dist(r, Dec(e)) = Dist(r, e) - 1
  BY <1>0, <1>2, <1>3, Counters
<1>5. TypeOK' /\ SleepsOnEmpty'
  BY <1>2, <1>4, Zenon DEF IInv, TypeOK, SleepsOnEmpty
<1>6. Ordered' /\ FullEntered'
  BY <1>0, <1>1, <1>2, <1>4 DEF Ordered, FullEntered
<1>7. Line # <<>> /\ Line' = SubSeq(Line, 1, Len(Line) - 1)
  <2>1. /\ Ring(buf, w, e) # <<>>
        /\ Ring(buf, w, Dec(e)) = SubSeq(Ring(buf, w, e), 1, Len(Ring(buf, w, e)) - 1)
    BY <1>0, <1>2, RingDrop, Zenon
  <2>q. QED  BY <1>2, <2>1, Zenon DEF Line
<1>8. NoNewline'
  <2>1. Line \in Seq(Sym) /\ Len(Line) = Dist(w, e)
    BY <1>0, RingSeq, Zenon DEF Line
  <2>2. \A j \in 1 .. Dist(w, e) : Line[j] # NL
    BY Zenon DEF IInv, NoNewline, Line
  <2>3. Dist(w', e') = Dist(w, e) - 1
    BY <1>2, <1>4, Zenon
  <2>4. \A j \in 1 .. Dist(w, e) - 1 : SubSeq(Line, 1, Len(Line) - 1)[j] # NL
    BY <1>1, <2>1, <2>2
  <2>q. QED  BY <1>7, <2>3, <2>4, Zenon DEF NoNewline, Line
<1>9. Ready' = Ready
  BY <1>2, Zenon DEF Ready
<1>q. QED  BY <1>5, <1>6, <1>7, <1>8, <1>9, Zenon DEF IInv

(* Control-U goes back to w: what it passes is not a newline.              *)
LEMMA KillLineToW ==
  ASSUME ConsoleAssumption, IInv, KillLine
  PROVE  e' = w
<1> DEFINE back(k) == (e + WRAP - k) % WRAP
           stops(k) == back(k) = w \/ At(Dec(back(k))) = NL
           first(j) == stops(j) /\ \A i \in 0 .. j - 1 : ~stops(i)
           m == Dist(w, e)
<1>0. /\ buf \in [Slot -> Sym] /\ r \in Idx /\ w \in Idx /\ e \in Idx
      /\ Dist(r, w) + Dist(w, e) = Dist(r, e) /\ Dist(r, e) <= INPUT_BUF
  BY Zenon DEF IInv, TypeOK, Ordered
<1>1. /\ INPUT_BUF \in Nat \ {0} /\ WRAP \in Nat \ {0} /\ INPUT_BUF < WRAP
      /\ m \in 0 .. INPUT_BUF /\ m \in Nat
  <2>1. Dist(r, w) \in Nat /\ m \in Nat /\ Dist(r, e) \in Nat
    BY Distances, Zenon DEF IInv
  <2>q. QED  BY <1>0, <2>1 DEF ConsoleAssumption
<1>2. m = IF e >= w THEN e - w ELSE e + WRAP - w
  BY <1>0, Linear, Zenon
<1>3. \A k \in 0 .. INPUT_BUF : back(k) = IF k <= e THEN e - k ELSE e + WRAP - k
  BY <1>0, <1>1 DEF Idx
<1>4. back(m) = w
  <2>1. back(m) = IF m <= e THEN e - m ELSE e + WRAP - m
    BY <1>1, <1>3, Zenon
  <2> HIDE DEF back, m
  <2>q. QED  BY <1>0, <1>1, <1>2, <2>1 DEF Idx
<1>5. ASSUME NEW k \in 0 .. m - 1 PROVE ~stops(k)
  <2>1. back(k) \in Idx /\ back(k) # w /\ Dist(w, back(k)) = m - k /\ m - k \in 1 .. m
    <3>1. back(k) = IF k <= e THEN e - k ELSE e + WRAP - k
      BY <1>1, <1>3
    <3>2. back(k) \in Idx /\ back(k) # w
      BY <1>0, <1>1, <1>2, <3>1 DEF Idx
    <3> HIDE DEF back
    <3>3. Dist(w, back(k)) = IF back(k) >= w THEN back(k) - w ELSE back(k) + WRAP - w
      BY <1>0, <3>2, Linear, Zenon
    <3>q. QED  BY <1>0, <1>1, <1>2, <3>1, <3>2, <3>3 DEF Idx
  <2> HIDE DEF back
  <2>2. Dec(back(k)) \in Idx /\ Dist(w, Dec(back(k))) = m - k - 1
    BY <1>0, <2>1, Counters
  <2>3. At(Dec(back(k))) = buf[Place(w, m - k)]
    <3>1. Place(Dec(back(k)), 1) = Place(w, Dist(w, Dec(back(k))) + 1)
      BY <1>0, <2>2, PlaceShift
    <3>2. Place(Dec(back(k)), 1) = Dec(back(k)) % INPUT_BUF
      BY <1>1, <2>2 DEF Place, Idx
    <3>3. m - k - 1 + 1 = m - k
      BY <1>1
    <3>q. QED  BY <2>2, <3>1, <3>2, <3>3, Zenon DEF At
  <2>4. Ring(buf, w, e)[m - k] = buf[Place(w, m - k)]
    BY <1>0, <2>1, RingSeq, Zenon
  <2>5. Ring(buf, w, e)[m - k] # NL
    BY <2>1, Zenon DEF IInv, NoNewline
  <2>q. QED  BY <2>1, <2>3, <2>4, <2>5, Zenon
<1>6. e' = back(CHOOSE j \in 0 .. INPUT_BUF : first(j))
  BY Zenon DEF KillLine
<1> HIDE DEF back
<1>7. first(m)
  BY <1>1, <1>4, <1>5, Zenon
<1>8. ASSUME NEW j \in 0 .. INPUT_BUF, first(j) PROVE j = m
  <2>1. CASE j < m
    BY <1>1, <1>5, <1>8, <2>1
  <2>2. CASE j > m
    <3>1. m \in 0 .. j - 1
      BY <1>1, <2>2
    <3>q. QED  BY <1>4, <1>8, <3>1, Zenon
  <2>q. QED  BY <1>1, <2>1, <2>2
<1> HIDE DEF first, m
<1>9. PICK k : k = CHOOSE j \in 0 .. INPUT_BUF : first(j)
  BY Zenon
<1>10. k \in 0 .. INPUT_BUF /\ first(k)
  BY <1>1, <1>7, <1>9, Zenon
<1>q. QED  BY <1>4, <1>6, <1>8, <1>9, <1>10, Zenon

LEMMA KillLineStep ==
  ASSUME ConsoleAssumption, IInv, KillLine
  PROVE  IInv' /\ Ready' = Ready /\ Line' = <<>>
<1>1. e' = w /\ buf' = buf /\ r' = r /\ w' = w /\ pc' = pc /\ killed' = killed
  BY KillLineToW, Zenon DEF KillLine, readerVars
<1>2. TypeOK' /\ SleepsOnEmpty'
  BY <1>1, Zenon DEF IInv, TypeOK, SleepsOnEmpty
<1>3. Dist(w', e') = 0 /\ Line' = <<>>
  BY <1>1, RingEmpty, Zenon DEF IInv, TypeOK, Line
<1>4. Dist(r', w') = Dist(r, w) /\ Dist(r', e') = Dist(r, w)
  BY <1>1, Zenon
<1>5. Ordered' /\ FullEntered' /\ NoNewline'
  <2>1. /\ INPUT_BUF \in Nat \ {0}
        /\ Dist(r, w) \in Nat /\ Dist(w, e) \in Nat /\ Dist(r, e) \in Nat
    BY Distances, Zenon DEF IInv
  <2>q. QED  BY <1>1, <1>3, <1>4, <2>1 DEF IInv, Ordered, FullEntered, NoNewline
<1>6. Ready' = Ready
  BY <1>1, Zenon DEF Ready
<1>q. QED  BY <1>2, <1>3, <1>5, <1>6, Zenon DEF IInv

(* A reader takes the first entered character, or leaves ^D where it is.   *)
LEMMA TakeStep ==
  ASSUME ConsoleAssumption, IInv, NEW p \in Reader, Take(p)
  PROVE  /\ IInv' /\ Line' = Line
         /\ Ready' = Ready \/ (Ready # <<>> /\ Ready' = Tail(Ready))
<1>0. /\ buf \in [Slot -> Sym] /\ r \in Idx /\ w \in Idx /\ e \in Idx
      /\ Dist(r, w) + Dist(w, e) = Dist(r, e) /\ Dist(r, e) <= INPUT_BUF
  BY Zenon DEF IInv, TypeOK, Ordered
<1>1. /\ r # w /\ r' \in {r, Inc(r)}
      /\ buf' = buf /\ w' = w /\ e' = e /\ killed' = killed
      /\ pc' = pc \/ pc' = [pc EXCEPT ![p] = "idle"]
  BY Zenon DEF Take, Return
<1>2. /\ INPUT_BUF \in Nat \ {0}
      /\ Dist(r, w) \in Nat \ {0} /\ Dist(w, e) \in Nat /\ Dist(r, e) \in Nat \ {0}
  BY <1>0, <1>1, Distances DEF IInv
<1>3. /\ pc' \in [Reader -> {"idle", "loop", "sleep"}] /\ \A q \in Reader : pc'[q] # "sleep"
  BY <1>1, Zenon DEF IInv, TypeOK, SleepsOnEmpty
<1>4. SleepsOnEmpty'
  BY <1>3, Zenon DEF SleepsOnEmpty
<1>5. Line' = Line /\ NoNewline'
  BY <1>1, Zenon DEF IInv, NoNewline, Line
<1>6. CASE r' = r
  <2>1. TypeOK' /\ Ordered' /\ FullEntered'
    BY <1>1, <1>3, <1>6, Zenon DEF IInv, TypeOK, Ordered, FullEntered
  <2>2. Ready' = Ready
    BY <1>1, <1>6, Zenon DEF Ready
  <2>q. QED  BY <1>4, <1>5, <2>1, <2>2, Zenon DEF IInv
<1>7. CASE r' = Inc(r)
  <2>1. r # e
    BY <1>0, <1>2, Counters, Zenon
  <2>2. Inc(r) \in Idx /\ Dist(Inc(r), w) = Dist(r, w) - 1 /\ Dist(Inc(r), e) = Dist(r, e) - 1
    BY <1>0, <1>1, <2>1, Counters
  <2>3. TypeOK'
    BY <1>0, <1>1, <1>3, <1>7, <2>2, Zenon DEF IInv, TypeOK
  <2>4. Ordered' /\ FullEntered'
    BY <1>0, <1>1, <1>2, <1>7, <2>2 DEF Ordered, FullEntered
  <2>5. Ready # <<>> /\ Ready' = Tail(Ready)
    <3>1. Ring(buf, r, w) # <<>> /\ Ring(buf, Inc(r), w) = Tail(Ring(buf, r, w))
      BY <1>0, <1>1, RingGet, Zenon
    <3>q. QED  BY <1>1, <1>7, <3>1, Zenon DEF Ready
  <2>q. QED  BY <1>4, <1>5, <2>3, <2>4, <2>5, Zenon DEF IInv
<1>q. QED  BY <1>1, <1>6, <1>7, Zenon

(* No other step moves an index.                                           *)
LEMMA OtherStep ==
  ASSUME IInv, NEW p \in Reader, Wait(p) \/ Kill(p) \/ \E l \in Lengths : Consoleread(p, l)
  PROVE  IInv' /\ UNCHANGED <<buf, r, w, e>>
<1>1. UNCHANGED <<buf, r, w, e>>
  BY Zenon DEF Wait, Kill, Consoleread
<1>2. /\ pc' \in [Reader -> {"idle", "loop", "sleep"}] /\ killed' \in [Reader -> BOOLEAN]
      /\ SleepsOnEmpty'
  <2>1. CASE Wait(p)
    <3>1. killed' = killed /\ r = w /\ (killed[p] => pc' = [pc EXCEPT ![p] = "idle"])
          /\ (~killed[p] => pc' = [pc EXCEPT ![p] = "sleep"])
      BY <2>1, Zenon DEF Wait, Return
    <3>2. CASE killed[p]
      BY <1>1, <3>1, <3>2, Zenon DEF IInv, TypeOK, SleepsOnEmpty
    <3>3. CASE ~killed[p]
      BY <1>1, <3>1, <3>3, Zenon DEF IInv, TypeOK, SleepsOnEmpty
    <3>q. QED  BY <3>2, <3>3, Zenon
  <2>2. CASE Kill(p)
    BY <1>1, <2>2, Zenon DEF Kill, IInv, TypeOK, SleepsOnEmpty
  <2>3. CASE \E l \in Lengths : Consoleread(p, l)
    BY <1>1, <2>3, Zenon DEF Consoleread, IInv, TypeOK, SleepsOnEmpty
  <2>q. QED  BY <2>1, <2>2, <2>3, Zenon
<1>3. TypeOK'
  BY <1>1, <1>2, Zenon DEF IInv, TypeOK
<1>4. Ordered' /\ FullEntered' /\ NoNewline'
  BY <1>1, Zenon DEF IInv, Ordered, FullEntered, NoNewline
<1>q. QED  BY <1>1, <1>2, <1>3, <1>4, Zenon DEF IInv

-----------------------------------------------------------------------------
LEMMA InitIInv == ASSUME ConsoleAssumption, Init PROVE IInv
<1>1. WRAP \in Nat /\ INPUT_BUF \in Nat \ {0} /\ Start \in Idx
  BY Zenon DEF ConsoleAssumption, Idx
<1>2. TypeOK /\ SleepsOnEmpty
  BY <1>1, Zenon DEF Init, TypeOK, SleepsOnEmpty, Slot, Sym
<1>3. r = w /\ w = e /\ Dist(r, r) = 0
  <2>1. Dist(r, r) = 0
    BY <1>2, RingEmpty, Zenon DEF TypeOK
  <2>q. QED  BY <2>1, Zenon DEF Init
<1>q. QED  BY <1>1, <1>2, <1>3 DEF IInv, Ordered, FullEntered, NoNewline

LEMMA NextIInv == ASSUME ConsoleAssumption, IInv, [Next]_vars PROVE IInv'
<1>1. CASE UNCHANGED vars
  <2>1. UNCHANGED <<buf, r, w, e, pc, killed>>
    BY <1>1, Zenon DEF vars
  <2>2. TypeOK' /\ SleepsOnEmpty'
    BY <2>1, Zenon DEF IInv, TypeOK, SleepsOnEmpty
  <2>3. Ordered' /\ FullEntered' /\ NoNewline'
    BY <2>1, Zenon DEF IInv, Ordered, FullEntered, NoNewline
  <2>q. QED  BY <2>2, <2>3, Zenon DEF IInv
<1>2. CASE \E c \in Char \union {NL, EOT} : Typed(c)
  BY <1>2, TypedStep, Zenon DEF Sym
<1>3. CASE Backspace
  BY <1>3, BackspaceStep, Zenon
<1>4. CASE KillLine
  BY <1>4, KillLineStep, Zenon
<1>5. ASSUME NEW p \in Reader, Take(p) PROVE IInv'
  BY <1>5, TakeStep, Zenon
<1>6. ASSUME NEW p \in Reader, Wait(p) \/ Kill(p) \/ \E l \in Lengths : Consoleread(p, l) PROVE IInv'
  BY <1>6, OtherStep, Zenon
<1>q. QED  BY <1>1, <1>2, <1>3, <1>4, <1>5, <1>6, Zenon DEF Next

(* The indices of the input ring stay in order around the wrap of a uint,  *)
(* a full ring is entered and an unentered line has no newline, whatever   *)
(* is typed and read: the invariant the other results follow from.         *)
THEOREM Invariance == ASSUME ConsoleAssumption PROVE Spec => []IInv
<1>1. Init => IInv
  BY InitIInv, Zenon
<1>2. IInv /\ [Next]_vars => IInv'
  BY NextIInv, Zenon
<1>q. QED  BY <1>1, <1>2, PTL DEF Spec

(* A reader sleeps in consoleread() only while nothing is entered and it   *)
(* is not killed: no wakeup of consoleintr() or kill() is lost.            *)
THEOREM SleepsOnEmptyHolds == ASSUME ConsoleAssumption PROVE Spec => []SleepsOnEmpty
<1>1. IInv => SleepsOnEmpty
  BY Zenon DEF IInv
<1>q. QED  BY <1>1, Invariance, PTL

(* When consoleintr() has no room left there is something to read, newline *)
(* or not: the console is never stuck with a full buffer.                  *)
THEOREM FullIsReadableHolds == ASSUME ConsoleAssumption PROVE Spec => []FullIsReadable
<1>1. IInv => FullIsReadable
  <2>1. SUFFICES ASSUME IInv, Dist(r, e) = INPUT_BUF PROVE r # w
    BY Zenon DEF FullIsReadable, Held, Dist
  <2>2. w = e /\ INPUT_BUF \in Nat \ {0}
    BY <2>1, Zenon DEF IInv, FullEntered, ConsoleAssumption
  <2>3. Dist(r, w) # 0
    BY <2>1, <2>2, Zenon
  <2>q. QED  BY <2>1, <2>3, Distances, Zenon DEF IInv
<1>q. QED  BY <1>1, Invariance, PTL

(* A read that consumes ^D returns no bytes: consoleread() leaves the ^D   *)
(* for the next call when it has copied some already.                      *)
THEOREM EofAloneHolds == ASSUME ConsoleAssumption PROVE Spec => EofAlone
<1> DEFINE Alone == \A p \in Reader :
             r # w /\ At(r) = EOT /\ r' # r /\ pc[p] # "idle" /\ pc'[p] = "idle" => ~some'[p]
<1>1. ASSUME IInv, [Next]_vars PROVE Alone \/ UNCHANGED vars
  <2>1. CASE r' = r
    BY <2>1, Zenon
  <2>2. ASSUME NEW q \in Reader, Take(q) PROVE Alone
    <3>1. SUFFICES ASSUME NEW p \in Reader, r # w, At(r) = EOT, r' # r,
                          pc[p] # "idle", pc'[p] = "idle"
                   PROVE  ~some'[p]
      BY Zenon
    <3>2. ~some[q] /\ some' = some /\ pc' = [pc EXCEPT ![q] = "idle"]
      BY <2>2, <3>1, Zenon DEF Take, Return, KeepsEof
    <3>3. p = q
      BY <1>1, <3>1, <3>2, Zenon DEF IInv, TypeOK
    <3>q. QED  BY <3>2, <3>3, Zenon
  <2>3. ASSUME NEW q \in Reader, Wait(q) \/ Kill(q) \/ \E l \in Lengths : Consoleread(q, l)
        PROVE  r' = r
    BY <2>3, Zenon DEF Wait, Kill, Consoleread
  <2>4. (\E c \in Char \union {NL, EOT} : Typed(c)) \/ Backspace \/ KillLine => r' = r
    BY Zenon DEF Typed, Backspace, KillLine
  <2>5. UNCHANGED vars => r' = r
    BY Zenon DEF vars
  <2>q. QED  BY <1>1, <2>1, <2>2, <2>3, <2>4, <2>5, Zenon DEF Next
<1>2. IInv /\ [Next]_vars => [Alone]_vars
  BY <1>1, Zenon
<1>q. QED  BY <1>2, Invariance, PTL DEF Spec, EofAlone

(* The ring of console.c with its three wrapping indices is a line editor  *)
(* in front of a queue: editing never reaches an entered character, a      *)
(* reader sees entered characters only, in order, and none is overwritten  *)
(* before it is read.                                                      *)
THEOREM Implements == ASSUME ConsoleAssumption PROVE Spec => ImplementsEditor
<1>1. Between(r, w) = Ready /\ Between(w, e) = Line
  BY Zenon DEF Between, At, Ready, Line, Ring, Dist
<1>2. Between(r, w)' = Ready' /\ Between(w, e)' = Line'
  BY Zenon DEF Between, At, Ready, Line, Ring, Dist
<1>3. ASSUME IInv PROVE Len(Ready) = Dist(r, w) /\ Len(Line) = Dist(w, e)
  BY <1>3, RingSeq, Zenon DEF IInv, TypeOK, Ready, Line
<1>4. Init => Abs!Init
  <2>1. SUFFICES ASSUME Init PROVE Ready = <<>> /\ Line = <<>>
    BY <1>1, Zenon DEF Abs!Init
  <2>2. IInv /\ r = w /\ w = e
    BY <2>1, InitIInv, Zenon DEF Init
  <2>q. QED  BY <2>2, RingEmpty, Zenon DEF IInv, TypeOK, Ready, Line
<1>5. IInv /\ [Next]_vars => [Abs!Next]_<<Between(r, w), Between(w, e)>>
  <2>1. SUFFICES ASSUME IInv, [Next]_vars
                 PROVE  Abs!Next \/ (Ready' = Ready /\ Line' = Line)
    BY <1>1, <1>2, Zenon
  <2>2. ASSUME NEW c \in Char \union {NL, EOT}, Typed(c) PROVE Abs!Next
    <3>1. Abs!Type(c)
      BY <1>1, <1>2, <1>3, <2>1, <2>2, TypedStep, Zenon DEF Abs!Type, Abs!Full, Sym
    <3>q. QED  BY <2>2, <3>1, Zenon DEF Abs!Next
  <2>3. CASE Backspace
    <3>1. Abs!Erase
      BY <1>1, <1>2, <2>1, <2>3, BackspaceStep, Zenon DEF Abs!Erase
    <3>q. QED  BY <3>1, Zenon DEF Abs!Next
  <2>4. CASE KillLine
    <3>1. Abs!EraseLine
      BY <1>1, <1>2, <2>1, <2>4, KillLineStep, Zenon DEF Abs!EraseLine
    <3>q. QED  BY <3>1, Zenon DEF Abs!Next
  <2>5. ASSUME NEW p \in Reader, Take(p) PROVE Abs!Next \/ (Ready' = Ready /\ Line' = Line)
    <3>1. Line' = Line /\ (Ready' = Ready \/ (Ready # <<>> /\ Ready' = Tail(Ready)))
      BY <2>1, <2>5, TakeStep, Zenon
    <3>2. CASE Ready # <<>> /\ Ready' = Tail(Ready)
      <4>1. Abs!Take
        BY <1>1, <1>2, <3>1, <3>2, Zenon DEF Abs!Take
      <4>q. QED  BY <4>1, Zenon DEF Abs!Next
    <3>q. QED  BY <3>1, <3>2, Zenon
  <2>6. ASSUME NEW p \in Reader, Wait(p) \/ Kill(p) \/ \E l \in Lengths : Consoleread(p, l)
        PROVE  UNCHANGED <<buf, r, w, e>>
    BY <2>1, <2>6, OtherStep, Zenon
  <2>7. UNCHANGED vars => UNCHANGED <<buf, r, w, e>>
    BY Zenon DEF vars
  <2>8. UNCHANGED <<buf, r, w, e>> => Ready' = Ready /\ Line' = Line
    BY Zenon DEF Ready, Line
  <2>q. QED  BY <2>1, <2>2, <2>3, <2>4, <2>5, <2>6, <2>7, <2>8, Zenon DEF Next
<1>q. QED  BY <1>4, <1>5, Invariance, PTL DEF Spec, ImplementsEditor, Abs!Spec, Abs!vars
=============================================================================
