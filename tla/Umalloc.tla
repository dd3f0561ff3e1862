------------------------------ MODULE Umalloc ------------------------------
(***************************************************************************)
(* The allocator of user programs (umalloc.c).  An address counts units of *)
(* sizeof(Header); `base' is at address 0 and the heap grows from 1.  A    *)
(* turn of the search loops of malloc() and free() is a step.  A header    *)
(* that is inside a block, or on no list, is not read again: it is cleared. *)
(***************************************************************************)
EXTENDS Naturals, FiniteSets, FiniteSetsExt

CONSTANTS N,         \* units sbrk() can give
          HSIZE,     \* sizeof(Header)
          MORE,      \* the least morecore() asks for: 4096
          Bytes,     \* the arguments of malloc()
          Gap        \* whether the program calls sbrk() itself

UmallocAssumption == N \in Nat /\ HSIZE \in Nat \ {0} /\ MORE \in Nat \ {0}

Base == 0
NULL == N + 1

VARIABLES ptr, size,        \* the headers: [address -> s.ptr], [address -> s.size]
          freep, brk,
          pc,               \* "idle", "malloc" or "free"
          p, prevp, bp,     \* the local variables
          nunits,           \* of malloc(), 0 when free() was called by the program
          used,             \* the blocks the program holds
          gaps              \* the units the program got from sbrk() itself

vars == <<ptr, size, freep, brk, pc, p, prevp, bp, nunits, used, gaps>>

Init ==
  /\ ptr = [a \in 0 .. N |-> 0] /\ size = [a \in 0 .. N |-> 0]
  /\ freep = NULL /\ brk = 1
  /\ pc = "idle" /\ p = 0 /\ prevp = 0 /\ bp = 0 /\ nunits = 0
  /\ used = {} /\ gaps = {}

\* A function returns; its locals are gone.
Done == pc' = "idle" /\ p' = 0 /\ prevp' = 0 /\ bp' = 0 /\ nunits' = 0

-----------------------------------------------------------------------------
Units(nbytes) == (nbytes + HSIZE - 1) \div HSIZE + 1

\* malloc() up to its loop; the first call sets up the empty list.
Malloc(nbytes) ==
  /\ pc = "idle"
  /\ pc' = "malloc" /\ nunits' = Units(nbytes)
  /\ IF freep = NULL
       THEN /\ freep' = Base /\ prevp' = Base /\ p' = Base
            /\ ptr' = [ptr EXCEPT ![Base] = Base]
            /\ size' = [size EXCEPT ![Base] = 0]
       ELSE prevp' = freep /\ p' = ptr[freep] /\ UNCHANGED <<freep, ptr, size>>
  /\ UNCHANGED <<brk, bp, used, gaps>>

\* p->s.size == nunits
Exact == size[p] = nunits

(* Mutant: the block is cut nunits from its start.                         *)
CutFromStart == p + nunits

\* p->s.size -= nunits; p += p->s.size
Cut == p + size[p] - nunits

\* The block at p is large enough: all of it, or its tail.
Found ==
  LET a == IF Exact THEN p ELSE Cut IN
  /\ pc = "malloc" /\ size[p] >= nunits
  /\ IF Exact
       THEN ptr' = [ptr EXCEPT ![p] = 0, ![prevp] = ptr[p]] /\ size' = size
       ELSE size' = [size EXCEPT ![p] = @ - nunits, ![a] = nunits] /\ ptr' = ptr
  /\ freep' = prevp
  /\ used' = used \union {a}
  /\ Done
  /\ UNCHANGED <<brk, gaps>>

\* The next block, until the search is back at freep.
Advance ==
  /\ pc = "malloc" /\ size[p] < nunits /\ p # freep
  /\ prevp' = p /\ p' = ptr[p]
  /\ UNCHANGED <<ptr, size, freep, brk, pc, bp, nunits, used, gaps>>

\* morecore(): malloc() returns 0 if sbrk() fails, else free() gets the memory.
Morecore ==
  LET nu == IF nunits < MORE THEN MORE ELSE nunits IN
  /\ pc = "malloc" /\ size[p] < nunits /\ p = freep
  /\ IF brk + nu > N + 1
       THEN Done /\ UNCHANGED <<brk, size>>
       ELSE /\ brk' = brk + nu
            /\ size' = [size EXCEPT ![brk] = nu]
            /\ pc' = "free" /\ bp' = brk /\ p' = freep
            /\ UNCHANGED <<prevp, nunits>>
  /\ UNCHANGED <<ptr, freep, used, gaps>>

-----------------------------------------------------------------------------
\* free() is called by the program.
Free(a) ==
  /\ pc = "idle" /\ a \in used
  /\ pc' = "free" /\ bp' = a /\ p' = freep
  /\ used' = used \ {a}
  /\ UNCHANGED <<ptr, size, freep, brk, prevp, nunits, gaps>>

(* Mutant: the search does not notice the end of the list.                 *)
PlaceInside == bp > p /\ bp < ptr[p]

\* bp belongs after p: between two blocks, or at one end of the list.
Place == (bp > p /\ bp < ptr[p]) \/ (p >= ptr[p] /\ (bp > p \/ bp < ptr[p]))

FreeAdvance ==
  /\ pc = "free" /\ ~Place
  /\ p' = ptr[p]
  /\ UNCHANGED <<ptr, size, freep, brk, pc, prevp, bp, nunits, used, gaps>>

(* Mutant: the block is not joined to the one before it.                   *)
JoinsLowerNever == FALSE

\* p + p->s.size == bp
JoinsLower == p + size[p] = bp

\* The block is linked in, joined to its neighbours; morecore() returns freep,
\* and malloc() goes on to the block after it.
Link ==
  LET up == bp + size[bp] = ptr[p]
      bsize == size[bp] + (IF up THEN size[ptr[p]] ELSE 0)
      bptr == IF up THEN ptr[ptr[p]] ELSE ptr[p]
      old == (IF up THEN {ptr[p]} ELSE {}) \union (IF JoinsLower THEN {bp} ELSE {})
      ptr2 == [a \in 0 .. N |-> IF a \in old \ {p} THEN 0
                                ELSE IF a = p THEN (IF JoinsLower THEN bptr ELSE bp)
                                ELSE IF a = bp THEN bptr ELSE ptr[a]]
  IN /\ pc = "free" /\ Place
     /\ ptr' = ptr2
     /\ size' = [a \in 0 .. N |-> IF a \in old \ {p} THEN 0
                                  ELSE IF a = p THEN (IF JoinsLower THEN size[p] + bsize ELSE size[p])
                                  ELSE IF a = bp THEN bsize ELSE size[a]]
     /\ freep' = p
     /\ IF nunits = 0 THEN Done
        ELSE /\ pc' = "malloc" /\ prevp' = p /\ p' = ptr2[p] /\ bp' = 0
             /\ UNCHANGED nunits
     /\ UNCHANGED <<brk, used, gaps>>

\* The program moves the break by one unit.
Sbrk ==
  /\ Gap /\ pc = "idle" /\ brk <= N
  /\ gaps' = gaps \union {brk} /\ brk' = brk + 1
  /\ UNCHANGED <<ptr, size, freep, pc, p, prevp, bp, nunits, used>>

Step == Found \/ Advance \/ Morecore \/ FreeAdvance \/ Link

Next ==
  \/ Step \/ Sbrk
  \/ \E b \in Bytes : Malloc(b)
  \/ \E a \in used : Free(a)

Spec == Init /\ [][Next]_vars

\* The program goes on once it has called malloc() or free().
FairSpec == Spec /\ WF_vars(Step)

-----------------------------------------------------------------------------
\* The blocks on the list, from base.
FreeBlocks ==
  LET reach[k \in 0 .. N] ==
        IF k = 0 THEN {ptr[Base]} ELSE reach[k - 1] \union {ptr[a] : a \in reach[k - 1]}
  IN IF freep = NULL THEN {} ELSE reach[N] \ {Base}

Extent(a) == a .. a + size[a] - 1

(* Between calls the blocks the program holds, the blocks on the free list *)
(* and the units of other users of sbrk() tile the heap: no unit belongs   *)
(* to two of them and none is lost.                                        *)
Tiles ==
  pc = "idle" =>
    LET blocks == used \union FreeBlocks IN
    /\ \A a, b \in blocks : a # b => Extent(a) \intersect Extent(b) = {}
    /\ used \intersect FreeBlocks = {}
    /\ UNION {Extent(a) : a \in blocks} \union gaps = 1 .. brk - 1
    /\ \A a \in blocks : Extent(a) \intersect gaps = {}

(* Between calls the list is one cycle in address order through base, and  *)
(* no two blocks on it touch: what is freed side by side can be allocated  *)
(* as one.                                                                 *)
Coalesced ==
  pc = "idle" /\ freep # NULL =>
    /\ freep \in FreeBlocks \union {Base}
    /\ \A a \in FreeBlocks \union {Base} :
         LET above == {b \in FreeBlocks : b > a} IN
         /\ ptr[a] = IF above = {} THEN Base ELSE Min(above)
         /\ a # Base => (a + size[a]) \notin FreeBlocks

(* malloc() and free() return, wherever the search starts.                 *)
Returns == pc # "idle" ~> pc = "idle"
=============================================================================
