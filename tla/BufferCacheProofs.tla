------------------------- MODULE BufferCacheProofs --------------------------
(***************************************************************************)
(* The buffer cache and the disk driver for any number of processes,       *)
(* blocks and buffers: each block is in one buffer, a reader sees what was *)
(* written last, nothing that was written is lost, the driver's queue is   *)
(* exact, and nobody panics when there are buffers enough.                 *)
(***************************************************************************)
EXTENDS BufferCache, FiniteFacts, TLAPS

\* Where a process may be, where it holds a buffer's lock, where it is in
\* iderw(), and where it waits there.
PC == {"run", "lock", "hold", "iderw", "asleep", "check", "release", "brelse", "panic"}
Locked == {"hold", "iderw", "asleep", "check", "release"}
Busy == {"iderw", "asleep", "check"}
Waiting == {"asleep", "check"}

Buffer ==
  [blockno : Block \cup {None}, refcnt : Nat, valid : BOOLEAN, dirty : BOOLEAN,
   data : Val, lock : Proc \cup {None}]

TypeInv ==
  /\ bufs \in [Bufs -> Buffer] /\ list \in [Bufs -> Bufs]
  /\ queue \in Seq(Bufs) /\ disk \in [Block -> Val] /\ last \in [Block -> Val]
  /\ pc \in [Proc -> PC]
  /\ blk \in [Proc -> Block \cup {None}] /\ b \in [Proc -> Bufs \cup {None}]

(* The list has every buffer, however often brelse() reorders it.          *)
ListInv == \A i \in Bufs : \E k \in Bufs : list[k] = i

(* The buffer a process refers to, and the number of those who do.         *)
Users(i) == {p \in Proc : b[p] = i}

RefInv ==
  /\ \A i \in Bufs : bufs[i].refcnt = Cardinality(Users(i))
  /\ \A i, j \in Bufs : bufs[i].blockno = bufs[j].blockno /\ bufs[i].blockno # None => i = j
  /\ \A p \in Proc :
       /\ pc[p] \in {"run", "panic"} => b[p] = None
       /\ pc[p] \notin {"run", "panic"} => b[p] \in Bufs /\ blk[p] \in Block
       /\ b[p] # None => bufs[b[p]].blockno = blk[p]

(* A buffer's lock is held by the one process that works on the buffer.    *)
LockInv ==
  /\ \A p \in Proc : pc[p] \in Locked => bufs[b[p]].lock = p
  /\ \A i \in Bufs : bufs[i].lock # None =>
       b[bufs[i].lock] = i /\ pc[bufs[i].lock] \in Locked

(* B_VALID and B_DIRTY, at rest and at each place of bread() and bwrite(). *)
FlagInv ==
  /\ \A i \in Bufs :
       /\ bufs[i].dirty => bufs[i].valid
       /\ bufs[i].valid => bufs[i].blockno \in Block
  /\ \A p \in Proc :
       /\ pc[p] \in {"hold", "release"} => bufs[b[p]].valid
       /\ pc[p] = "iderw" => ~Done(b[p])

Queued(i) == \E k \in 1 .. Len(queue) : queue[k] = i

(* Who waits in iderw() is in the queue or has been served.                *)
WaitInv ==
  /\ \A k \in 1 .. Len(queue) : ~Done(queue[k])
  /\ \A p \in Proc :
       /\ pc[p] = "asleep" => Queued(b[p])
       /\ pc[p] = "check" => Queued(b[p]) \/ Done(b[p])
  /\ MemDisk => queue = <<>>

(* Where the last contents of a block are.                                 *)
DataInv ==
  /\ \A i \in Bufs : bufs[i].dirty => bufs[i].data = last[bufs[i].blockno]
  /\ ~Faulty => \A i \in Bufs : bufs[i].valid => bufs[i].data = last[bufs[i].blockno]
  /\ \A n \in Block : disk[n] = last[n] \/ \E i \in Bufs : bufs[i].blockno = n /\ bufs[i].dirty

(* The buffers that are dirty because of the log, not because of a         *)
(* bwrite() in progress.                                                   *)
Pinned == {i \in Bufs : bufs[i].dirty /\ \A p \in Proc : b[p] = i => pc[p] \notin Busy}

PinInv == Cardinality(Pinned) <= MaxPinned

IInv ==
  /\ TypeInv /\ ListInv /\ RefInv /\ LockInv /\ FlagInv /\ QueueExact /\ WaitInv /\ DataInv
  /\ PinInv

-----------------------------------------------------------------------------
(* The pinned buffers are finitely many, and those that remain are no more *)
(* than there were.                                                        *)
LEMMA PinKept ==
  ASSUME BcacheAssumption, FiniteFacts, IInv, Pinned' \subseteq Pinned
  PROVE  PinInv'
<1>1. IsFiniteSet(Bufs) /\ Pinned \subseteq Bufs
  BY DEF BcacheAssumption, Bufs, Pinned, FiniteFacts, IntervalFact
<1>2. IsFiniteSet(Pinned)
  BY <1>1, Zenon DEF FiniteFacts, SubsetFact
<1>3. /\ Cardinality(Pinned') <= Cardinality(Pinned)
      /\ Cardinality(Pinned) \in Nat /\ Cardinality(Pinned') \in Nat
  BY <1>2, Zenon DEF FiniteFacts, SubsetFact, SizeFact
<1>q. QED  BY <1>3 DEF IInv, PinInv, BcacheAssumption

(* Who works on a buffer is alone there.                                   *)
LEMMA Alone ==
  ASSUME IInv, NEW p \in Proc, NEW q \in Proc, pc[p] \in Locked, pc[q] \in Locked, b[p] = b[q]
  PROVE  p = q
BY Zenon DEF IInv, LockInv

(* The buffer of a process that holds it outside iderw() is not queued.    *)
LEMMA NotQueued ==
  ASSUME IInv, NEW p \in Proc, pc[p] \in Locked \ Waiting
  PROVE  ~Queued(b[p])
<1>1. SUFFICES ASSUME NEW k \in 1 .. Len(queue), queue[k] = b[p]  PROVE FALSE
  BY Zenon DEF Queued
<1>2. PICK q \in Proc : b[q] = queue[k] /\ pc[q] \in Waiting
  BY Zenon DEF IInv, QueueExact, Waiting
<1>3. p = q
  BY <1>1, <1>2, Alone, Zenon DEF Locked, Waiting
<1>q. QED  BY <1>2, <1>3, Zenon

(* A step leaves a buffer alone, but for its reference count.              *)
Still(j) ==
  /\ bufs'[j].blockno = bufs[j].blockno /\ bufs'[j].valid = bufs[j].valid
  /\ bufs'[j].dirty = bufs[j].dirty /\ bufs'[j].data = bufs[j].data
  /\ bufs'[j].lock = bufs[j].lock

(* The driver's queue does not notice a step that leaves the waiting       *)
(* processes and their buffers alone.                                      *)
LEMMA QueueKept ==
  ASSUME IInv, UNCHANGED <<queue, active>>,
         \A q \in Proc : pc[q] \in Waiting =>
           b'[q] = b[q] /\ Still(b[q]) /\ (pc'[q] \in Waiting \/ ~Queued(b[q])),
         \A q \in Proc : pc'[q] \in Waiting =>
           pc[q] \in Waiting /\ (pc'[q] = "asleep" => Queued(b[q]))
  PROVE  QueueExact' /\ WaitInv'
<1>1. ASSUME NEW k \in 1 .. Len(queue)
      PROVE  /\ queue[k] \in Bufs /\ Still(queue[k])
             /\ \E q \in Proc : b'[q] = queue[k] /\ bufs'[queue[k]].lock = q /\ pc'[q] \in Waiting
  <2>1. PICK q \in Proc : b[q] = queue[k] /\ bufs[queue[k]].lock = q /\ pc[q] \in Waiting
    BY Zenon DEF IInv, QueueExact, Waiting
  <2>2. Queued(b[q])
    BY <2>1, Zenon DEF Queued
  <2>3. queue[k] \in Bufs
    BY DEF IInv, TypeInv
  <2>q. QED  BY <2>1, <2>2, <2>3 DEF Still
<1>2. queue # <<>> => 1 \in 1 .. Len(queue)
  BY DEF IInv, TypeInv
<1>3. queue # <<>> => Request(queue[1])' = Request(queue[1])
  BY <1>1, <1>2, Zenon DEF Request, Still
<1>4. QueueExact'
  BY <1>1, <1>3 DEF IInv, QueueExact, Waiting
<1>5. \A k \in 1 .. Len(queue) : ~Done(queue[k])'
  BY <1>1, Zenon DEF IInv, WaitInv, Done, Still
<1>6. ASSUME NEW q \in Proc, pc'[q] \in Waiting, ~Queued(b[q])
      PROVE  pc'[q] = "check" /\ Done(b[q])'
  BY <1>6 DEF IInv, WaitInv, Waiting, Done, Still
<1>7. \A q \in Proc : pc'[q] \in Waiting => b'[q] = b[q]
  BY Zenon
<1>8. WaitInv'
  BY <1>5, <1>6, <1>7 DEF IInv, WaitInv, Waiting, Queued, Done
<1>q. QED  BY <1>4, <1>8, Zenon

(* The type of a changed buffer.                                           *)
LEMMA LockTyped ==
  ASSUME NEW r \in Buffer, NEW q \in Proc \cup {None}
  PROVE  [r EXCEPT !.lock = q] \in Buffer
BY Zenon DEF Buffer

LEMMA CountTyped ==
  ASSUME NEW r \in Buffer, NEW n \in Nat
  PROVE  [r EXCEPT !.refcnt = n] \in Buffer
BY Zenon DEF Buffer

LEMMA WrittenTyped ==
  ASSUME NEW r \in Buffer, NEW v \in Val
  PROVE  [r EXCEPT !.data = v, !.dirty = TRUE] \in Buffer
BY Zenon DEF Buffer

LEMMA RecycledTyped ==
  ASSUME NEW r \in Buffer, NEW n \in Block
  PROVE  [r EXCEPT !.blockno = n, !.refcnt = 1, !.valid = FALSE, !.dirty = FALSE] \in Buffer
BY Zenon DEF Buffer

-----------------------------------------------------------------------------
(* acquiresleep() in bread() and bget().                                   *)
LEMMA AcquireStep ==
  ASSUME BcacheAssumption, FiniteFacts, IInv, NEW p \in Proc, Acquire(p)
  PROVE  IInv'
<1> DEFINE i == b[p]
<1>1. /\ i \in Bufs /\ pc[p] = "lock" /\ bufs[i].lock = None
      /\ pc' = [pc EXCEPT ![p] = IF bufs[i].valid THEN "hold" ELSE "iderw"]
      /\ UNCHANGED <<list, queue, active, disk, blk, b, last>>
  BY Zenon DEF Acquire, Goto, driver, IInv, RefInv
<1>2. /\ bufs' = [bufs EXCEPT ![i] = [bufs[i] EXCEPT !.lock = p]]
      /\ \A j \in Bufs : j # i => bufs'[j] = bufs[j]
      /\ bufs'[i] = [bufs[i] EXCEPT !.lock = p]
  BY <1>1, Zenon DEF Acquire, IInv, TypeInv, Buffer
<1>3. /\ bufs'[i].blockno = bufs[i].blockno /\ bufs'[i].refcnt = bufs[i].refcnt
      /\ bufs'[i].valid = bufs[i].valid /\ bufs'[i].dirty = bufs[i].dirty
      /\ bufs'[i].data = bufs[i].data /\ bufs'[i].lock = p
  BY <1>1, <1>2 DEF IInv, TypeInv, Buffer
<1>4. TypeInv'
  <2>1. bufs'[i] \in Buffer
    BY <1>1, <1>2, LockTyped, Zenon DEF IInv, TypeInv
  <2>2. bufs' \in [Bufs -> Buffer]
    BY <1>2, <2>1, Zenon DEF IInv, TypeInv
  <2>q. QED  BY <1>1, <2>2, Zenon DEF IInv, TypeInv, PC
<1>5. ListInv'
  BY <1>1, Zenon DEF IInv, ListInv
<1>6. RefInv'
  BY <1>1, <1>2, <1>3, SMTT(60) DEF IInv, TypeInv, RefInv, Users
<1>7. LockInv'
  BY <1>1, <1>2, <1>3 DEF IInv, TypeInv, LockInv, Locked, BcacheAssumption, Buffer, RefInv
<1>8. FlagInv'
  BY <1>1, <1>2, <1>3 DEF IInv, TypeInv, FlagInv, Done, BcacheAssumption, Buffer, RefInv
<1>9. QueueExact' /\ WaitInv'
  <2>1. \A q \in Proc : pc[q] \in Waiting => q # p /\ b[q] # i /\ b[q] \in Bufs
    BY <1>1 DEF IInv, LockInv, RefInv, Waiting, Locked, BcacheAssumption
  <2>2. \A q \in Proc : q # p => pc'[q] = pc[q]
    BY <1>1, Zenon DEF IInv, TypeInv
  <2>3. pc'[p] \notin Waiting
    BY <1>1, Zenon DEF IInv, TypeInv, Waiting
  <2>4. \A q \in Proc : pc[q] = "asleep" => Queued(b[q])
    BY Zenon DEF IInv, WaitInv
  <2>q. QED  BY <1>1, <1>2, <2>1, <2>2, <2>3, <2>4, QueueKept, Zenon DEF Still
<1>10. DataInv'
  BY <1>1, <1>2, <1>3 DEF IInv, TypeInv, DataInv, Buffer
<1>11. PinInv'
  <2>1. Pinned' \subseteq Pinned
    BY <1>1, <1>2, <1>3 DEF IInv, TypeInv, Pinned, Busy
  <2>q. QED  BY <2>1, PinKept, Zenon
<1>q. QED  BY <1>4, <1>5, <1>6, <1>7, <1>8, <1>9, <1>10, <1>11, Zenon DEF IInv

-----------------------------------------------------------------------------
(* A step that moves one process and changes nothing else.                 *)
LEMMA MoveStep ==
  ASSUME BcacheAssumption, FiniteFacts, IInv, NEW p \in Proc, NEW l \in PC,
         pc' = [pc EXCEPT ![p] = l], UNCHANGED <<bufs, list, queue, active, disk, blk, b, last>>,
         pc[p] \in Locked, l \in {"hold", "asleep", "check", "release"},
         l \in {"hold", "release"} => bufs[b[p]].valid /\ ~Queued(b[p]) /\ (pc[p] \in Busy => Done(b[p])),
         l \in Waiting => pc[p] \in Waiting,
         l = "asleep" => Queued(b[p])
  PROVE  IInv'
<1>1. \A q \in Proc : pc'[q] = IF q = p THEN l ELSE pc[q]
  BY Zenon DEF IInv, TypeInv
<1>2. TypeInv' /\ ListInv'
  BY Zenon DEF IInv, TypeInv, ListInv
<1>3. RefInv'
  BY <1>1 DEF IInv, RefInv, Users, Locked
<1>4. LockInv'
  BY <1>1 DEF IInv, LockInv, Locked
<1>5. FlagInv'
  BY <1>1 DEF IInv, FlagInv, Done
<1>6. QueueExact' /\ WaitInv'
  <2>1. \A q \in Proc : Still(b[q]) /\ b'[q] = b[q]
    BY Zenon DEF Still
  <2>2. \A q \in Proc : pc[q] = "asleep" => Queued(b[q])
    BY Zenon DEF IInv, WaitInv
  <2>3. \A q \in Proc : pc'[q] \in Waiting => pc[q] \in Waiting /\ (pc'[q] = "asleep" => Queued(b[q]))
    BY <1>1, <2>2, Zenon
  <2>4. \A q \in Proc : pc[q] \in Waiting => pc'[q] \in Waiting \/ ~Queued(b[q])
    BY <1>1, Zenon DEF Waiting
  <2>q. QED  BY <2>1, <2>3, <2>4, QueueKept, Zenon
<1>7. DataInv'
  BY Zenon DEF IInv, DataInv
<1>8. PinInv'
  <2>1. ASSUME NEW i \in Pinned' PROVE i \in Pinned
    <3>1. i \in Bufs /\ bufs[i].dirty /\ \A q \in Proc : b[q] = i => pc'[q] \notin Busy
      BY <2>1, Zenon DEF Pinned
    <3>2. b[p] = i => pc[p] \notin Busy
      BY <3>1, <1>1, Zenon DEF Busy, Done
    <3>q. QED  BY <1>1, <3>1, <3>2, Zenon DEF Pinned
  <2>q. QED  BY <2>1, PinKept, Zenon
<1>q. QED  BY <1>2, <1>3, <1>4, <1>5, <1>6, <1>7, <1>8, Zenon DEF IInv

(* The caller has read, and goes on to brelse().                           *)
LEMMA LeaveStep ==
  ASSUME BcacheAssumption, FiniteFacts, IInv, NEW p \in Proc, Leave(p)
  PROVE  IInv'
<1>1. /\ pc[p] = "hold" /\ pc' = [pc EXCEPT ![p] = "release"]
      /\ UNCHANGED <<bufs, list, queue, active, disk, blk, b, last>>
  BY Zenon DEF Leave, Goto, driver
<1>2. bufs[b[p]].valid /\ ~Queued(b[p])
  BY <1>1, NotQueued, Zenon DEF IInv, FlagInv, Locked, Waiting
<1>q. QED  BY <1>1, <1>2, MoveStep, Zenon DEF PC, Locked, Waiting, Busy

(* kill() wakes a process in iderw().                                      *)
LEMMA KillStep ==
  ASSUME BcacheAssumption, FiniteFacts, IInv, NEW p \in Proc, Kill(p)
  PROVE  IInv'
<1>1. /\ pc[p] = "asleep" /\ pc' = [pc EXCEPT ![p] = "check"]
      /\ UNCHANGED <<bufs, list, queue, active, disk, blk, b, last>>
  BY Zenon DEF Kill, Goto, driver
<1>q. QED  BY <1>1, MoveStep, Zenon DEF PC, Locked, Waiting

(* A process in iderw() tests the flags again.                             *)
LEMMA CheckStep ==
  ASSUME BcacheAssumption, FiniteFacts, IInv, NEW p \in Proc, Check(p)
  PROVE  IInv'
<1>1. /\ pc[p] = "check" /\ pc' = [pc EXCEPT ![p] = IF Done(b[p]) THEN "hold" ELSE "asleep"]
      /\ UNCHANGED <<bufs, list, queue, active, disk, blk, b, last>>
  BY Zenon DEF Check, Goto, driver
<1>2. Queued(b[p]) => ~Done(b[p])
  BY Zenon DEF IInv, WaitInv, Queued
<1>3. CASE Done(b[p])
  BY <1>1, <1>2, <1>3, MoveStep, Zenon DEF PC, Locked, Waiting, Busy, Done
<1>4. CASE ~Done(b[p])
  <2>1. Queued(b[p])
    BY <1>1, <1>4, Zenon DEF IInv, WaitInv
  <2>q. QED  BY <1>1, <1>4, <2>1, MoveStep, Zenon DEF PC, Locked, Waiting
<1>q. QED  BY <1>3, <1>4, Zenon

-----------------------------------------------------------------------------
(* releasesleep() in brelse().                                             *)
LEMMA UnlockStep ==
  ASSUME BcacheAssumption, FiniteFacts, IInv, NEW p \in Proc, Unlock(p)
  PROVE  IInv'
<1> DEFINE i == b[p]
<1>1. /\ i \in Bufs /\ pc[p] = "release" /\ bufs[i].lock = p
      /\ pc' = [pc EXCEPT ![p] = "brelse"]
      /\ UNCHANGED <<list, queue, active, disk, blk, b, last>>
  BY Zenon DEF Unlock, Goto, driver, IInv, RefInv, LockInv, Locked
<1>2. /\ bufs' = [bufs EXCEPT ![i] = [bufs[i] EXCEPT !.lock = None]]
      /\ \A j \in Bufs : j # i => bufs'[j] = bufs[j]
      /\ bufs'[i] = [bufs[i] EXCEPT !.lock = None]
  BY <1>1, Zenon DEF Unlock, IInv, TypeInv, Buffer
<1>3. /\ bufs'[i].blockno = bufs[i].blockno /\ bufs'[i].refcnt = bufs[i].refcnt
      /\ bufs'[i].valid = bufs[i].valid /\ bufs'[i].dirty = bufs[i].dirty
      /\ bufs'[i].data = bufs[i].data /\ bufs'[i].lock = None
  BY <1>1, <1>2 DEF IInv, TypeInv, Buffer
<1>4. TypeInv'
  <2>1. bufs'[i] \in Buffer
    BY <1>1, <1>2, LockTyped, Zenon DEF IInv, TypeInv
  <2>2. bufs' \in [Bufs -> Buffer]
    BY <1>2, <2>1, Zenon DEF IInv, TypeInv
  <2>q. QED  BY <1>1, <2>2, Zenon DEF IInv, TypeInv, PC
<1>5. ListInv'
  BY <1>1, Zenon DEF IInv, ListInv
<1>6. RefInv'
  BY <1>1, <1>2, <1>3, SMTT(60) DEF IInv, TypeInv, RefInv, Users
<1>7. LockInv'
  BY <1>1, <1>2, <1>3 DEF IInv, TypeInv, LockInv, Locked, BcacheAssumption, Buffer, RefInv
<1>8. FlagInv'
  BY <1>1, <1>2, <1>3 DEF IInv, TypeInv, FlagInv, Done, BcacheAssumption, Buffer, RefInv
<1>9. QueueExact' /\ WaitInv'
  <2>1. \A q \in Proc : pc[q] \in Waiting => q # p /\ b[q] # i /\ b[q] \in Bufs
    BY <1>1, Alone, Zenon DEF IInv, RefInv, Waiting, Locked
  <2>2. \A q \in Proc : q # p => pc'[q] = pc[q]
    BY <1>1, Zenon DEF IInv, TypeInv
  <2>3. pc'[p] \notin Waiting
    BY <1>1, Zenon DEF IInv, TypeInv, Waiting
  <2>4. \A q \in Proc : pc[q] = "asleep" => Queued(b[q])
    BY Zenon DEF IInv, WaitInv
  <2>q. QED  BY <1>1, <1>2, <2>1, <2>2, <2>3, <2>4, QueueKept, Zenon DEF Still
<1>10. DataInv'
  BY <1>1, <1>2, <1>3 DEF IInv, TypeInv, DataInv, Buffer
<1>11. PinInv'
  <2>1. Pinned' \subseteq Pinned
    BY <1>1, <1>2, <1>3 DEF IInv, TypeInv, Pinned, Busy
  <2>q. QED  BY <2>1, PinKept, Zenon
<1>q. QED  BY <1>4, <1>5, <1>6, <1>7, <1>8, <1>9, <1>10, <1>11, Zenon DEF IInv

-----------------------------------------------------------------------------
(* A buffer that is moved to the front is still in the list, and so are    *)
(* the others.                                                             *)
LEMMA Moved ==
  ASSUME BcacheAssumption, FiniteFacts, IInv, NEW i \in Bufs
  PROVE  /\ MoveToFront(i) \in [Bufs -> Bufs]
         /\ \A j \in Bufs : \E k \in Bufs : MoveToFront(i)[k] = j
<1> DEFINE at == CHOOSE k \in Bufs : list[k] = i
           f == [k \in Bufs |-> IF k = 1 THEN i ELSE IF k <= at THEN list[k - 1] ELSE list[k]]
<1>1. at \in Bufs /\ list[at] = i
  BY Zenon DEF IInv, ListInv
<1> HIDE DEF at
<1>2. list \in [Bufs -> Bufs] /\ NBUF \in Nat /\ 1 \in Bufs
  BY DEF IInv, TypeInv, BcacheAssumption, Bufs
<1>3. f \in [Bufs -> Bufs]
  <2>1. \A k \in Bufs : k # 1 => k - 1 \in Bufs
    BY <1>2 DEF Bufs
  <2>2. \A k \in Bufs : (IF k = 1 THEN i ELSE IF k <= at THEN list[k - 1] ELSE list[k]) \in Bufs
    BY <1>2, <2>1, Zenon
  <2>q. QED  BY <2>2, Zenon
<1>4. ASSUME NEW j \in Bufs PROVE \E k \in Bufs : f[k] = j
  <2>1. CASE j = i
    BY <1>2, <2>1, Zenon
  <2>2. CASE j # i
    <3>1. PICK k \in Bufs : list[k] = j
      BY Zenon DEF IInv, ListInv
    <3>2. CASE k < at
      <4>1. k + 1 \in Bufs /\ k + 1 # 1 /\ k + 1 <= at /\ (k + 1) - 1 = k
        BY <1>1, <1>2, <3>2 DEF Bufs
      <4>2. f[k + 1] = list[(k + 1) - 1]
        BY <4>1, Zenon
      <4>q. QED  BY <3>1, <4>1, <4>2, Zenon
    <3>3. CASE k > at
      <4>1. k # 1 /\ ~(k <= at)
        BY <1>1, <1>2, <3>3 DEF Bufs
      <4>q. QED  BY <3>1, <4>1, Zenon
    <3>4. k # at
      BY <1>1, <2>2, <3>1, Zenon
    <3>q. QED  BY <1>1, <1>2, <3>2, <3>3, <3>4 DEF Bufs
  <2>q. QED  BY <2>1, <2>2, Zenon
<1>5. MoveToFront(i) = f
  BY Zenon DEF MoveToFront, at
<1>q. QED  BY <1>3, <1>4, <1>5, Zenon

(* The end of brelse().                                                    *)
LEMMA BrelseStep ==
  ASSUME BcacheAssumption, FiniteFacts, IInv, NEW p \in Proc, Brelse(p)
  PROVE  IInv'
<1>1. PICK i \in Bufs : i = b[p]
  BY Zenon DEF Brelse, IInv, RefInv
<1>0. pc[p] = "brelse" /\ UNCHANGED <<queue, active, disk, last>>
  BY Zenon DEF Brelse, driver
<1>2. /\ \A q \in Proc : q # p => pc'[q] = pc[q] /\ b'[q] = b[q] /\ blk'[q] = blk[q]
      /\ pc'[p] = "run" /\ b'[p] = None
      /\ pc' \in [Proc -> PC] /\ b' \in [Proc -> Bufs \cup {None}]
      /\ blk' \in [Proc -> Block \cup {None}]
  BY Zenon DEF Brelse, Goto, IInv, TypeInv, PC
<1>3. /\ Users(i)' = Users(i) \ {p} /\ p \in Users(i)
      /\ \A j \in Bufs : j # i => Users(j)' = Users(j)
  BY <1>0, <1>1, <1>2, Zenon DEF Users, BcacheAssumption
<1>4. /\ Cardinality(Users(i)') = Cardinality(Users(i)) - 1
      /\ Cardinality(Users(i)') \in Nat
  <2>1. IsFiniteSet(Users(i)) /\ IsFiniteSet(Users(i)')
    BY <1>3, Zenon DEF Users, BcacheAssumption, FiniteFacts, SubsetFact
  <2>q. QED  BY <1>3, <2>1, Zenon DEF FiniteFacts, RemoveFact, SizeFact
<1>5. bufs[i].refcnt - 1 \in Nat /\ bufs[i].refcnt - 1 = Cardinality(Users(i)')
  BY <1>0, <1>1, <1>4, Zenon DEF IInv, RefInv
<1>6. /\ bufs' = [bufs EXCEPT ![i] = [bufs[i] EXCEPT !.refcnt = bufs[i].refcnt - 1]]
      /\ \A j \in Bufs : j # i => bufs'[j] = bufs[j]
      /\ bufs'[i] = [bufs[i] EXCEPT !.refcnt = bufs[i].refcnt - 1]
  BY <1>0, <1>1, Zenon DEF Brelse, Drop, IInv, TypeInv, Buffer
<1>7. bufs'[i].refcnt = bufs[i].refcnt - 1 /\ \A j \in Bufs : Still(j)
  BY <1>0, <1>1, <1>6 DEF IInv, TypeInv, Buffer, Still
<1>8. list' \in [Bufs -> Bufs] /\ ListInv'
  <2>1. CASE list' = list
    BY <2>1, Zenon DEF IInv, TypeInv, ListInv
  <2>2. CASE list' = MoveToFront(i)
    BY <1>0, <1>1, <2>2, Moved, Zenon DEF ListInv
  <2>q. QED  BY <1>1, <2>1, <2>2, Zenon DEF Brelse
<1>9. TypeInv'
  <2>1. bufs'[i] \in Buffer
    BY <1>0, <1>1, <1>5, <1>6, CountTyped, Zenon DEF IInv, TypeInv
  <2>2. bufs' \in [Bufs -> Buffer]
    BY <1>6, <2>1, Zenon DEF IInv, TypeInv
  <2>q. QED  BY <1>0, <1>1, <1>2, <1>8, <2>2, Zenon DEF IInv, TypeInv
<1>10. RefInv'
  <2>1. ASSUME NEW j \in Bufs PROVE bufs'[j].refcnt = Cardinality(Users(j)')
    <3>1. CASE j = i
      BY <1>5, <1>7, <3>1, Zenon
    <3>2. CASE j # i
      BY <1>3, <1>6, <3>2, Zenon DEF IInv, RefInv
    <3>q. QED  BY <3>1, <3>2, Zenon
  <2>2. \A j, k \in Bufs : bufs'[j].blockno = bufs'[k].blockno /\ bufs'[j].blockno # None => j = k
    BY <1>7 DEF IInv, RefInv, Still
  <2>3. \A q \in Proc : b[q] # None => b[q] \in Bufs
    BY Zenon DEF IInv, TypeInv
  <2>4. \A q \in Proc :
          /\ pc'[q] \in {"run", "panic"} => b'[q] = None
          /\ pc'[q] \notin {"run", "panic"} => b'[q] \in Bufs /\ blk'[q] \in Block
          /\ b'[q] # None => bufs'[b'[q]].blockno = blk'[q]
    BY <1>2, <1>7, <2>3 DEF IInv, RefInv, Still
  <2>q. QED  BY <2>1, <2>2, <2>4, Zenon DEF RefInv, Users
<1>11. \A q \in Proc : pc'[q] \notin {"run", "panic"} =>
         q # p /\ pc[q] = pc'[q] /\ b'[q] = b[q] /\ b[q] \in Bufs /\ Still(b[q])
  BY <1>2, <1>7, Zenon DEF IInv, RefInv
<1>12. LockInv'
  <2>1. \A q \in Proc : pc'[q] \in Locked => bufs'[b'[q]].lock = q
    BY <1>11 DEF IInv, LockInv, Locked, Still
  <2>2. ASSUME NEW j \in Bufs, bufs'[j].lock # None
        PROVE  b'[bufs'[j].lock] = j /\ pc'[bufs'[j].lock] \in Locked
    <3>1. bufs'[j].lock = bufs[j].lock /\ bufs[j].lock \in Proc
      BY <1>7, <2>2 DEF Still, IInv, TypeInv, Buffer
    <3>2. b[bufs[j].lock] = j /\ pc[bufs[j].lock] \in Locked
      BY <2>2, <3>1, Zenon DEF IInv, LockInv
    <3>3. bufs[j].lock # p
      BY <1>0, <1>1, <3>2, Zenon DEF Locked
    <3>q. QED  BY <1>2, <3>1, <3>2, <3>3, Zenon
  <2>q. QED  BY <2>1, <2>2, Zenon DEF LockInv
<1>13. FlagInv'
  <2>1. \A j \in Bufs : /\ bufs'[j].dirty => bufs'[j].valid
                        /\ bufs'[j].valid => bufs'[j].blockno \in Block
    BY <1>7, Zenon DEF IInv, FlagInv, Still
  <2>2. \A q \in Proc : /\ pc'[q] \in {"hold", "release"} => bufs'[b'[q]].valid
                        /\ pc'[q] = "iderw" => ~(bufs'[b'[q]].valid /\ ~bufs'[b'[q]].dirty)
    BY <1>11, SMTT(60) DEF IInv, FlagInv, Done, Still
  <2>q. QED  BY <2>1, <2>2, Zenon DEF FlagInv, Done
<1>14. QueueExact' /\ WaitInv'
  <2>1. \A q \in Proc : pc[q] \in Waiting => q # p /\ b[q] \in Bufs
    BY <1>0, <1>1, Zenon DEF IInv, RefInv, Waiting, Locked
  <2>2. pc'[p] \notin Waiting
    BY <1>2, Zenon DEF Waiting
  <2>3. \A q \in Proc : pc[q] = "asleep" => Queued(b[q])
    BY Zenon DEF IInv, WaitInv
  <2>q. QED  BY <1>0, <1>1, <1>2, <1>7, <2>1, <2>2, <2>3, QueueKept, Zenon
<1>15. DataInv'
  BY <1>0, <1>1, <1>7 DEF IInv, DataInv, Still
<1>16. PinInv'
  <2>1. Pinned' \subseteq Pinned
    BY <1>0, <1>1, <1>2, <1>7 DEF Pinned, Busy, Still
  <2>q. QED  BY <2>1, PinKept, Zenon
<1>q. QED  BY <1>8, <1>9, <1>10, <1>12, <1>13, <1>14, <1>15, <1>16, Zenon DEF IInv

-----------------------------------------------------------------------------
(* The caller changes the buffer it holds, for bwrite() or for the log.    *)
Put(p, v, l) ==
  /\ pc[p] = "hold" /\ pc' = [pc EXCEPT ![p] = l]
  /\ bufs' = [bufs EXCEPT ![b[p]].data = v, ![b[p]].dirty = TRUE]
  /\ last' = [last EXCEPT ![blk[p]] = v]
  /\ UNCHANGED <<list, queue, active, disk, blk, b>>

(* Either keeps all but the bound on what is pinned.                       *)
LEMMA WriteStep ==
  ASSUME BcacheAssumption, FiniteFacts, IInv, NEW p \in Proc, NEW v \in Val, NEW l \in {"iderw", "release"},
         Put(p, v, l)
  PROVE  /\ TypeInv' /\ ListInv' /\ RefInv' /\ LockInv' /\ FlagInv'
         /\ QueueExact' /\ WaitInv' /\ DataInv'
         /\ b[p] \in Bufs /\ bufs'[b[p]].dirty
         /\ \A j \in Bufs : j # b[p] => bufs'[j] = bufs[j]
         /\ \A q \in Proc : b[q] = b[p] /\ pc[q] \in Busy => FALSE
<1> DEFINE i == b[p]
<1>0. pc[p] = "hold" /\ UNCHANGED <<list, queue, active, disk, blk, b>>
  BY Zenon DEF Put
<1>1. i \in Bufs /\ blk[p] \in Block /\ bufs[i].blockno = blk[p] /\ bufs[i].valid /\ bufs[i].lock = p
  BY <1>0 DEF IInv, RefInv, LockInv, FlagInv, Locked, BcacheAssumption
<1>2. /\ \A j \in Bufs : j # i => bufs'[j] = bufs[j]
      /\ bufs'[i] = [bufs[i] EXCEPT !.data = v, !.dirty = TRUE]
  BY <1>1, Zenon DEF Put, IInv, TypeInv, Buffer
<1>a. /\ pc' \in [Proc -> PC] /\ pc'[p] = l /\ \A q \in Proc : q # p => pc'[q] = pc[q]
      /\ last' \in [Block -> Val] /\ \A n \in Block : last'[n] = IF n = blk[p] THEN v ELSE last[n]
  BY <1>1, Zenon DEF Put, IInv, TypeInv, PC
<1>3. /\ bufs'[i].blockno = bufs[i].blockno /\ bufs'[i].refcnt = bufs[i].refcnt
      /\ bufs'[i].valid = bufs[i].valid /\ bufs'[i].lock = bufs[i].lock
      /\ bufs'[i].data = v /\ bufs'[i].dirty = TRUE
  <2>1. bufs[i] \in Buffer
    BY <1>1, Zenon DEF IInv, TypeInv
  <2>q. QED  BY <1>2, <2>1, Zenon DEF Buffer
<1>4. TypeInv'
  <2>0. bufs[i] \in Buffer
    BY <1>1, Zenon DEF IInv, TypeInv
  <2>1. bufs'[i] \in Buffer
    BY <1>2, <2>0, WrittenTyped, Zenon
  <2>2. bufs' \in [Bufs -> Buffer]
    BY <1>1, <1>2, <2>1, Zenon DEF Put, IInv, TypeInv
  <2>q. QED  BY <1>0, <1>a, <2>2, Zenon DEF IInv, TypeInv
<1>5. ListInv'
  BY <1>0, Zenon DEF IInv, ListInv
<1>b. \A j \in Bufs : /\ bufs'[j].blockno = bufs[j].blockno /\ bufs'[j].refcnt = bufs[j].refcnt
                      /\ bufs'[j].valid = bufs[j].valid /\ bufs'[j].lock = bufs[j].lock
  BY <1>2, <1>3, Zenon
<1>c. \A q \in Proc : /\ pc'[q] \notin {"run", "panic"} <=> pc[q] \notin {"run", "panic"}
                      /\ pc'[q] \in Locked <=> pc[q] \in Locked
                      /\ b[q] # None => b[q] \in Bufs
  BY <1>0, <1>a, Zenon DEF Locked, IInv, TypeInv
<1>6. RefInv'
  <2>1. \A q \in Proc : b[q] # None => bufs'[b[q]].blockno = blk[q]
    BY <1>b, <1>c, Zenon DEF IInv, RefInv
  <2>2. \A j \in Bufs : Users(j)' = Users(j)
    BY <1>0, Zenon DEF Users
  <2>3. ASSUME NEW j \in Bufs PROVE bufs'[j].refcnt = Cardinality(Users(j)')
    <3>1. bufs'[j].refcnt = bufs[j].refcnt /\ bufs[j].refcnt = Cardinality(Users(j))
      BY <1>b, Zenon DEF IInv, RefInv
    <3>q. QED  BY <2>2, <3>1
  <2>4. ASSUME NEW j \in Bufs, NEW k \in Bufs, bufs'[j].blockno = bufs'[k].blockno, bufs'[j].blockno # None
        PROVE  j = k
    <3>1. bufs[j].blockno = bufs[k].blockno /\ bufs[j].blockno # None
      BY <1>b, <2>4
    <3>q. QED  BY <3>1, Zenon DEF IInv, RefInv
  <2>5. \A q \in Proc : /\ pc'[q] \in {"run", "panic"} => b'[q] = None
                        /\ pc'[q] \notin {"run", "panic"} => b'[q] \in Bufs /\ blk'[q] \in Block
    BY <1>0, <1>c, Zenon DEF IInv, RefInv
  <2>q. QED  BY <1>0, <2>1, <2>3, <2>4, <2>5, Zenon DEF RefInv
<1>7. LockInv'
  <2>1. \A q \in Proc : pc'[q] \in Locked => bufs'[b[q]].lock = q
    BY <1>b, <1>c DEF IInv, LockInv, RefInv, Locked
  <2>2. \A j \in Bufs : bufs[j].lock # None => bufs[j].lock \in Proc
    BY Zenon DEF IInv, TypeInv, Buffer
  <2>q. QED  BY <1>0, <1>b, <1>c, <2>1, <2>2, SMTT(60) DEF IInv, LockInv
<1>d. \A q \in Proc : q # p /\ pc[q] \in Locked => b[q] # i /\ b[q] \in Bufs
  BY <1>0, Alone, Zenon DEF IInv, RefInv, Locked
<1>8. FlagInv'
  <2>1. \A j \in Bufs : /\ bufs'[j].dirty => bufs'[j].valid
                        /\ bufs'[j].valid => bufs'[j].blockno \in Block
    BY <1>1, <1>2, <1>3, Zenon DEF IInv, FlagInv
  <2>2. ASSUME NEW q \in Proc
        PROVE  /\ pc'[q] \in {"hold", "release"} => bufs'[b[q]].valid
               /\ pc'[q] = "iderw" => ~(bufs'[b[q]].valid /\ ~bufs'[b[q]].dirty)
    <3>1. CASE q = p
      BY <1>1, <1>3, <3>1, Zenon
    <3>2. CASE q # p
      BY <1>2, <1>a, <1>d, <3>2 DEF IInv, FlagInv, Done, Locked
    <3>q. QED  BY <3>1, <3>2, Zenon
  <2>q. QED  BY <1>0, <2>1, <2>2, Zenon DEF FlagInv, Done
<1>9. QueueExact' /\ WaitInv'
  <2>1. \A q \in Proc : pc[q] \in Waiting => q # p /\ b[q] # i /\ b[q] \in Bufs
    BY <1>0, <1>d, Zenon DEF Waiting, Locked
  <2>2. pc'[p] \notin Waiting
    BY <1>a, Zenon DEF Waiting
  <2>3. \A q \in Proc : pc[q] = "asleep" => Queued(b[q])
    BY Zenon DEF IInv, WaitInv
  <2>q. QED  BY <1>0, <1>2, <1>a, <2>1, <2>2, <2>3, QueueKept, Zenon DEF Still
<1>10. DataInv'
  <2>1. \A j \in Bufs : bufs[j].valid /\ j # i => bufs[j].blockno \in Block /\ bufs[j].blockno # blk[p]
    BY <1>1, SMTT(60) DEF IInv, FlagInv, RefInv, BcacheAssumption
  <2>2. \A j \in Bufs : bufs[j].dirty => bufs[j].valid
    BY Zenon DEF IInv, FlagInv
  <2>3. bufs'[i].data = last'[bufs'[i].blockno]
    BY <1>1, <1>3, <1>a
  <2>4. \A j \in Bufs : bufs[j].valid /\ j # i =>
          bufs'[j] = bufs[j] /\ last'[bufs'[j].blockno] = last[bufs[j].blockno]
    BY <1>2, <1>a, <2>1
  <2>5. \A j \in Bufs : bufs'[j].dirty => bufs'[j].data = last'[bufs'[j].blockno]
    BY <1>2, <2>2, <2>3, <2>4, Zenon DEF IInv, DataInv
  <2>6. ~Faulty => \A j \in Bufs : bufs'[j].valid => bufs'[j].data = last'[bufs'[j].blockno]
    BY <1>2, <2>3, <2>4, ZenonT(60) DEF IInv, DataInv
  <2>7. ASSUME NEW n \in Block
        PROVE  disk[n] = last'[n] \/ \E j \in Bufs : bufs'[j].blockno = n /\ bufs'[j].dirty
    <3>1. CASE n = blk[p]
      BY <1>1, <1>3, <3>1, Zenon
    <3>2. CASE n # blk[p]
      <4>1. disk[n] = last[n] \/ \E j \in Bufs : bufs[j].blockno = n /\ bufs[j].dirty
        BY Zenon DEF IInv, DataInv
      <4>q. QED  BY <1>1, <1>2, <1>a, <3>2, <4>1, Zenon
    <3>q. QED  BY <3>1, <3>2, Zenon
  <2>q. QED  BY <1>0, <2>5, <2>6, <2>7, Zenon DEF DataInv
<1>11. \A q \in Proc : b[q] = i /\ pc[q] \in Busy => FALSE
  BY <1>0, Alone, Zenon DEF Busy, Locked
<1>q. QED  BY <1>1, <1>2, <1>3, <1>4, <1>5, <1>6, <1>7, <1>8, <1>9, <1>10, <1>11, Zenon

(* bwrite() up to iderw().                                                 *)
LEMMA BwriteStep ==
  ASSUME BcacheAssumption, FiniteFacts, IInv, NEW p \in Proc, NEW v \in Val, Bwrite(p, v)
  PROVE  IInv'
<1>0. Put(p, v, "iderw")
  BY Zenon DEF Bwrite, Goto, driver, Put
<1>1. pc' = [pc EXCEPT ![p] = "iderw"] /\ b' = b
  BY <1>0, Zenon DEF Put
<1>2. /\ TypeInv' /\ ListInv' /\ RefInv' /\ LockInv' /\ FlagInv'
      /\ QueueExact' /\ WaitInv' /\ DataInv'
      /\ \A j \in Bufs : j # b[p] => bufs'[j] = bufs[j]
  BY <1>0, WriteStep, Zenon
<1>3. ASSUME NEW j \in Pinned' PROVE j \in Pinned
  <2>1. j \in Bufs /\ bufs'[j].dirty /\ \A q \in Proc : b[q] = j => pc'[q] \notin Busy
    BY <1>1, <1>3, Zenon DEF Pinned
  <2>2. pc'[p] = "iderw" /\ \A q \in Proc : q # p => pc'[q] = pc[q]
    BY <1>1, Zenon DEF IInv, TypeInv
  <2>3. j # b[p]
    BY <2>1, <2>2, Zenon DEF Busy
  <2>q. QED  BY <1>2, <2>1, <2>2, <2>3, Zenon DEF Pinned
<1>4. PinInv'
  BY <1>3, PinKept, Zenon
<1>q. QED  BY <1>2, <1>4, Zenon DEF IInv

(* log_write() pins the buffer, which the log has room for.                *)
LEMMA PinStep ==
  ASSUME BcacheAssumption, FiniteFacts, IInv, NEW p \in Proc, NEW v \in Val, Pin(p, v)
  PROVE  IInv'
<1> DEFINE i == b[p]
<1>0. Put(p, v, "release")
  BY Zenon DEF Pin, Goto, driver, Put
<1>1. /\ pc' = [pc EXCEPT ![p] = "release"] /\ b' = b
      /\ bufs[i].dirty \/ Cardinality(Dirty) < MaxPinned
  BY Zenon DEF Pin, Goto
<1>2. /\ TypeInv' /\ ListInv' /\ RefInv' /\ LockInv' /\ FlagInv'
      /\ QueueExact' /\ WaitInv' /\ DataInv' /\ i \in Bufs
      /\ \A j \in Bufs : j # i => bufs'[j] = bufs[j]
      /\ \A q \in Proc : b[q] = i /\ pc[q] \in Busy => FALSE
  BY <1>0, WriteStep, Zenon
<1>3. pc'[p] = "release" /\ \A q \in Proc : q # p => pc'[q] = pc[q]
  BY <1>1, Zenon DEF IInv, TypeInv
<1>4. ASSUME NEW j \in Pinned', j # i PROVE j \in Pinned
  BY <1>1, <1>2, <1>3, <1>4, Zenon DEF Pinned, Busy
<1>5. CASE bufs[i].dirty
  <2>1. i \in Pinned
    BY <1>2, <1>5, Zenon DEF Pinned
  <2>q. QED  BY <1>2, <1>4, <2>1, PinKept, Zenon DEF IInv
<1>6. CASE ~bufs[i].dirty /\ Cardinality(Dirty) < MaxPinned
  <2>0. Pinned \subseteq Dirty /\ i \notin Dirty /\ Dirty \subseteq Bufs
    BY <1>6, Zenon DEF Pinned, Dirty
  <2>a. ASSUME NEW j \in Pinned', j # i PROVE j \in Dirty
    BY <1>4, <2>0, <2>a, Zenon
  <2>1. Pinned' \subseteq Dirty \cup {i} /\ i \notin Dirty /\ Dirty \subseteq Bufs
    BY <2>0, <2>a, Zenon
  <2>2. IsFiniteSet(Dirty)
    <3>1. IsFiniteSet(Bufs)
      BY DEF Bufs, BcacheAssumption, FiniteFacts, IntervalFact
    <3>q. QED  BY <2>1, <3>1, Zenon DEF FiniteFacts, SubsetFact
  <2>3. IsFiniteSet(Dirty \cup {i}) /\ Cardinality(Dirty \cup {i}) = Cardinality(Dirty) + 1
    BY <2>1, <2>2, Zenon DEF FiniteFacts, AddFact
  <2>4. Cardinality(Pinned') <= Cardinality(Dirty) + 1
    BY <2>1, <2>3, Zenon DEF FiniteFacts, SubsetFact
  <2>5. Cardinality(Dirty) \in Nat /\ Cardinality(Pinned') \in Nat
    BY <2>1, <2>2, <2>3, Zenon DEF FiniteFacts, SubsetFact, SizeFact
  <2>6. PinInv'
    BY <1>6, <2>4, <2>5 DEF PinInv, BcacheAssumption
  <2>q. QED  BY <1>2, <2>6, Zenon DEF IInv
<1>q. QED  BY <1>1, <1>5, <1>6, Zenon

-----------------------------------------------------------------------------
(* A buffer nobody refers to is in nobody's hands.                         *)
LEMMA Unused ==
  ASSUME BcacheAssumption, FiniteFacts, IInv, NEW i \in Bufs, bufs[i].refcnt = 0
  PROVE  /\ Users(i) = {} /\ bufs[i].lock = None
         /\ \A q \in Proc : b[q] # i
<1>1. IsFiniteSet(Users(i)) /\ Cardinality(Users(i)) = 0
  BY Zenon DEF Users, BcacheAssumption, IInv, RefInv, FiniteFacts, SubsetFact
<1>2. Users(i) = {}
  BY <1>1, Zenon DEF FiniteFacts, EmptyFact
<1>3. \A q \in Proc : b[q] # i
  BY <1>2, Zenon DEF Users
<1>4. bufs[i].lock \in Proc \cup {None}
  BY Zenon DEF IInv, TypeInv, Buffer
<1>q. QED  BY <1>2, <1>3, <1>4, Zenon DEF IInv, LockInv

(* One more process refers to a buffer.                                    *)
LEMMA OneMore ==
  ASSUME BcacheAssumption, FiniteFacts, IInv, NEW p \in Proc, NEW i \in Bufs, b[p] = None,
         b' = [b EXCEPT ![p] = i]
  PROVE  /\ Cardinality(Users(i)') = Cardinality(Users(i)) + 1
         /\ \A j \in Bufs : j # i => Users(j)' = Users(j)
<1>1. /\ Users(i)' = Users(i) \cup {p} /\ p \notin Users(i)
      /\ \A j \in Bufs : j # i => Users(j)' = Users(j)
  BY DEF IInv, TypeInv, Users, BcacheAssumption
<1>2. IsFiniteSet(Users(i))
  BY Zenon DEF Users, BcacheAssumption, FiniteFacts, SubsetFact
<1>q. QED  BY <1>1, <1>2, Zenon DEF FiniteFacts, AddFact

(* bget() finds the block in a buffer.                                     *)
LEMMA HitStep ==
  ASSUME BcacheAssumption, FiniteFacts, IInv, NEW p \in Proc, NEW n \in Block, NEW i \in Bufs,
         pc[p] = "run", bufs[i].blockno = n,
         pc' = [pc EXCEPT ![p] = "lock"], b' = [b EXCEPT ![p] = i], blk' = [blk EXCEPT ![p] = n],
         bufs' = [bufs EXCEPT ![i] = [bufs[i] EXCEPT !.refcnt = bufs[i].refcnt + 1]],
         UNCHANGED <<list, queue, active, disk, last>>
  PROVE  IInv'
<1>1. b[p] = None
  BY Zenon DEF IInv, RefInv
<1>2. /\ \A j \in Bufs : j # i => bufs'[j] = bufs[j]
      /\ bufs'[i] = [bufs[i] EXCEPT !.refcnt = bufs[i].refcnt + 1]
  BY Zenon DEF IInv, TypeInv, Buffer
<1>3. bufs'[i].refcnt = bufs[i].refcnt + 1 /\ \A j \in Bufs : Still(j)
  BY <1>2 DEF IInv, TypeInv, Buffer, Still
<1>4. TypeInv'
  <2>1. bufs[i].refcnt + 1 \in Nat
    BY DEF IInv, TypeInv, Buffer
  <2>2. bufs'[i] \in Buffer
    BY <1>2, <2>1, CountTyped, Zenon DEF IInv, TypeInv
  <2>3. bufs' \in [Bufs -> Buffer]
    BY <1>2, <2>2, Zenon DEF IInv, TypeInv
  <2>q. QED  BY <2>3, Zenon DEF IInv, TypeInv, PC
<1>5. ListInv'
  BY Zenon DEF IInv, ListInv
<1>6. /\ \A q \in Proc : q # p => pc'[q] = pc[q] /\ b'[q] = b[q] /\ blk'[q] = blk[q]
      /\ pc'[p] = "lock" /\ b'[p] = i /\ blk'[p] = n
  BY Zenon DEF IInv, TypeInv
<1>7. RefInv'
  <2>0. /\ Cardinality(Users(i)') = Cardinality(Users(i)) + 1
        /\ \A j \in Bufs : j # i => Users(j)' = Users(j)
    BY <1>1, OneMore, Zenon
  <2>1. ASSUME NEW j \in Bufs PROVE bufs'[j].refcnt = Cardinality(Users(j)')
    <3>1. CASE j = i
      BY <1>3, <2>0, <3>1, Zenon DEF IInv, RefInv
    <3>2. CASE j # i
      BY <1>2, <2>0, <3>2, Zenon DEF IInv, RefInv
    <3>q. QED  BY <3>1, <3>2, Zenon
  <2>2. \A j, k \in Bufs : bufs'[j].blockno = bufs'[k].blockno /\ bufs'[j].blockno # None => j = k
    BY <1>3 DEF IInv, RefInv, Still
  <2>3. \A q \in Proc : b[q] # None => b[q] \in Bufs
    BY Zenon DEF IInv, TypeInv
  <2>4. \A q \in Proc :
          /\ pc'[q] \in {"run", "panic"} => b'[q] = None
          /\ pc'[q] \notin {"run", "panic"} => b'[q] \in Bufs /\ blk'[q] \in Block
          /\ b'[q] # None => bufs'[b'[q]].blockno = blk'[q]
    BY <1>3, <1>6, <2>3 DEF IInv, RefInv, Still
  <2>q. QED  BY <2>1, <2>2, <2>4, Zenon DEF RefInv
<1>8. LockInv'
  BY <1>1, <1>3, <1>6 DEF IInv, TypeInv, LockInv, Locked, BcacheAssumption, Buffer, RefInv, Still
<1>9. FlagInv'
  BY <1>3, <1>6 DEF IInv, FlagInv, Done, RefInv, Still
<1>10. QueueExact' /\ WaitInv'
  <2>1. \A q \in Proc : pc[q] \in Waiting => q # p /\ b[q] \in Bufs
    BY Zenon DEF IInv, RefInv, Waiting
  <2>2. \A q \in Proc : pc[q] = "asleep" => Queued(b[q])
    BY Zenon DEF IInv, WaitInv
  <2>3. pc'[p] \notin Waiting
    BY <1>6, Zenon DEF Waiting
  <2>q. QED  BY <1>3, <1>6, <2>1, <2>2, <2>3, QueueKept, Zenon
<1>11. DataInv'
  BY <1>3 DEF IInv, DataInv, Still
<1>12. PinInv'
  <2>1. Pinned' \subseteq Pinned
    BY <1>1, <1>3, <1>6 DEF Pinned, Busy, Still, BcacheAssumption
  <2>q. QED  BY <2>1, PinKept, Zenon
<1>q. QED  BY <1>4, <1>5, <1>7, <1>8, <1>9, <1>10, <1>11, <1>12, Zenon DEF IInv

(* bget() recycles a clean buffer that nobody refers to.                   *)
LEMMA RecycleStep ==
  ASSUME BcacheAssumption, FiniteFacts, IInv, NEW p \in Proc, NEW n \in Block, NEW i \in Bufs,
         pc[p] = "run", \A j \in Bufs : bufs[j].blockno # n, bufs[i].refcnt = 0, ~bufs[i].dirty,
         pc' = [pc EXCEPT ![p] = "lock"], b' = [b EXCEPT ![p] = i], blk' = [blk EXCEPT ![p] = n],
         bufs' = [bufs EXCEPT ![i] =
           [bufs[i] EXCEPT !.blockno = n, !.refcnt = 1, !.valid = FALSE, !.dirty = FALSE]],
         UNCHANGED <<list, queue, active, disk, last>>
  PROVE  IInv'
<1>1. b[p] = None /\ bufs[i].lock = None /\ \A q \in Proc : b[q] # i
  BY Unused, Zenon DEF IInv, RefInv
<1>2. /\ \A j \in Bufs : j # i => bufs'[j] = bufs[j]
      /\ bufs'[i] = [bufs[i] EXCEPT !.blockno = n, !.refcnt = 1, !.valid = FALSE, !.dirty = FALSE]
  BY Zenon DEF IInv, TypeInv, Buffer
<1>3. /\ bufs'[i].blockno = n /\ bufs'[i].refcnt = 1 /\ bufs'[i].valid = FALSE
      /\ bufs'[i].dirty = FALSE /\ bufs'[i].lock = None
  BY <1>1, <1>2 DEF IInv, TypeInv, Buffer
<1>4. TypeInv'
  <2>1. bufs'[i] \in Buffer
    BY <1>2, RecycledTyped, Zenon DEF IInv, TypeInv
  <2>2. bufs' \in [Bufs -> Buffer]
    BY <1>2, <2>1, Zenon DEF IInv, TypeInv
  <2>q. QED  BY <2>2, Zenon DEF IInv, TypeInv, PC
<1>5. ListInv'
  BY Zenon DEF IInv, ListInv
<1>6. /\ \A q \in Proc : q # p => pc'[q] = pc[q] /\ b'[q] = b[q] /\ blk'[q] = blk[q]
      /\ pc'[p] = "lock" /\ b'[p] = i /\ blk'[p] = n
  BY Zenon DEF IInv, TypeInv
<1>7. RefInv'
  <2>0. /\ Cardinality(Users(i)') = Cardinality(Users(i)) + 1
        /\ \A j \in Bufs : j # i => Users(j)' = Users(j)
    BY <1>1, OneMore, Zenon
  <2>1. ASSUME NEW j \in Bufs PROVE bufs'[j].refcnt = Cardinality(Users(j)')
    <3>1. CASE j = i
      BY <1>3, <2>0, <3>1 DEF IInv, RefInv
    <3>2. CASE j # i
      BY <1>2, <2>0, <3>2 DEF IInv, RefInv
    <3>q. QED  BY <3>1, <3>2, Zenon
  <2>2. \A j, k \in Bufs : bufs'[j].blockno = bufs'[k].blockno /\ bufs'[j].blockno # None => j = k
    BY <1>2, <1>3 DEF IInv, RefInv
  <2>3. \A q \in Proc : b[q] # None => b[q] \in Bufs
    BY Zenon DEF IInv, TypeInv
  <2>4. \A q \in Proc :
          /\ pc'[q] \in {"run", "panic"} => b'[q] = None
          /\ pc'[q] \notin {"run", "panic"} => b'[q] \in Bufs /\ blk'[q] \in Block
          /\ b'[q] # None => bufs'[b'[q]].blockno = blk'[q]
    BY <1>1, <1>2, <1>3, <1>6, <2>3 DEF IInv, RefInv
  <2>q. QED  BY <2>1, <2>2, <2>4, Zenon DEF RefInv
<1>8. LockInv'
  BY <1>1, <1>2, <1>3, <1>6 DEF IInv, TypeInv, LockInv, Locked, BcacheAssumption, Buffer, RefInv
<1>9. FlagInv'
  BY <1>1, <1>2, <1>3, <1>6 DEF IInv, FlagInv, Done, RefInv
<1>10. QueueExact' /\ WaitInv'
  <2>1. \A q \in Proc : pc[q] \in Waiting => q # p /\ b[q] \in Bufs /\ b[q] # i
    BY <1>1, Zenon DEF IInv, RefInv, Waiting
  <2>2. \A q \in Proc : pc[q] = "asleep" => Queued(b[q])
    BY Zenon DEF IInv, WaitInv
  <2>3. pc'[p] \notin Waiting
    BY <1>6, Zenon DEF Waiting
  <2>q. QED  BY <1>2, <1>6, <2>1, <2>2, <2>3, QueueKept, Zenon DEF Still
<1>11. DataInv'
  BY <1>2, <1>3 DEF IInv, DataInv
<1>12. PinInv'
  <2>1. Pinned' \subseteq Pinned
    BY <1>1, <1>2, <1>3, <1>6 DEF Pinned, Busy, BcacheAssumption
  <2>q. QED  BY <2>1, PinKept, Zenon
<1>q. QED  BY <1>4, <1>5, <1>7, <1>8, <1>9, <1>10, <1>11, <1>12, Zenon DEF IInv

(* bget() with no buffer to take.                                          *)
LEMMA FullStep ==
  ASSUME BcacheAssumption, FiniteFacts, IInv, NEW p \in Proc, NEW n \in Block,
         pc[p] = "run", pc' = [pc EXCEPT ![p] = "panic"], blk' = [blk EXCEPT ![p] = n],
         UNCHANGED <<bufs, list, queue, active, disk, b, last>>
  PROVE  IInv'
<1>1. b[p] = None
  BY Zenon DEF IInv, RefInv
<1>2. /\ \A q \in Proc : q # p => pc'[q] = pc[q] /\ blk'[q] = blk[q]
      /\ pc'[p] = "panic" /\ blk'[p] = n
  BY Zenon DEF IInv, TypeInv
<1>3. TypeInv' /\ ListInv'
  BY Zenon DEF IInv, TypeInv, ListInv, PC
<1>4. RefInv'
  BY <1>1, <1>2 DEF IInv, RefInv, Users
<1>5. LockInv'
  BY <1>1, <1>2 DEF IInv, LockInv, Locked
<1>6. FlagInv'
  BY <1>2, Zenon DEF IInv, FlagInv, Done
<1>7. QueueExact' /\ WaitInv'
  <2>1. \A q \in Proc : Still(b[q]) /\ (pc[q] = "asleep" => Queued(b[q]))
    BY Zenon DEF Still, IInv, WaitInv
  <2>2. pc[p] \notin Waiting /\ pc'[p] \notin Waiting
    BY <1>2, Zenon DEF Waiting
  <2>q. QED  BY <1>2, <2>1, <2>2, QueueKept, Zenon
<1>8. DataInv'
  BY Zenon DEF IInv, DataInv
<1>9. PinInv'
  <2>1. Pinned' \subseteq Pinned
    BY <1>2, Zenon DEF Pinned, Busy
  <2>q. QED  BY <2>1, PinKept, Zenon
<1>q. QED  BY <1>3, <1>4, <1>5, <1>6, <1>7, <1>8, <1>9, Zenon DEF IInv

LEMMA BgetStep ==
  ASSUME BcacheAssumption, FiniteFacts, IInv, NEW p \in Proc, NEW n \in Block, Bget(p, n)
  PROVE  IInv'
<1> DEFINE cached == {i \in Bufs : bufs[i].blockno = n}
           free == {k \in Bufs : Reusable(list[k])}
<1>1. /\ pc[p] = "run" /\ blk' = [blk EXCEPT ![p] = n]
      /\ UNCHANGED <<list, queue, active, disk, last>>
  BY Zenon DEF Bget, driver
<1>2. CASE cached = {} /\ free = {}
  <2>1. pc' = [pc EXCEPT ![p] = "panic"] /\ UNCHANGED <<bufs, b>>
    BY <1>2, Zenon DEF Bget, Goto
  <2>q. QED  BY <1>1, <2>1, FullStep, Zenon
<1>3. CASE cached # {}
  <2>1. PICK i \in Bufs : /\ bufs[i].blockno = n /\ Take(p, i)
                          /\ bufs' = [bufs EXCEPT ![i] = [bufs[i] EXCEPT !.refcnt = bufs[i].refcnt + 1]]
    BY <1>3, Zenon DEF Bget
  <2>q. QED  BY <1>1, <2>1, HitStep, Zenon DEF Take, Goto
<1>4. CASE cached = {} /\ free # {}
  <2>1. PICK k \in free :
          /\ Take(p, list[k])
          /\ bufs' = [bufs EXCEPT ![list[k]] = [bufs[list[k]] EXCEPT
               !.blockno = n, !.refcnt = 1, !.valid = FALSE, !.dirty = FALSE]]
    BY <1>4, Zenon DEF Bget
  <2>2. list[k] \in Bufs /\ bufs[list[k]].refcnt = 0 /\ ~bufs[list[k]].dirty
    BY Zenon DEF Reusable, IInv, TypeInv
  <2>3. \A j \in Bufs : bufs[j].blockno # n
    BY <1>4, Zenon
  <2>q. QED  BY <1>1, <2>1, <2>2, <2>3, RecycleStep, Zenon DEF Take, Goto
<1>q. QED  BY <1>2, <1>3, <1>4, Zenon

-----------------------------------------------------------------------------
(* The test at the start of iderw() succeeds.                              *)
LEMMA NoDriverPanic ==
  ASSUME IInv, NEW p \in Proc, pc[p] = "iderw"
  PROVE  ~Done(b[p]) /\ bufs[b[p]].lock = p
BY Zenon DEF IInv, FlagInv, LockInv, Locked

(* iderw() appends to the queue.                                           *)
LEMMA IderwStep ==
  ASSUME BcacheAssumption, FiniteFacts, IInv, NEW p \in Proc, Iderw(p)
  PROVE  IInv'
<1> DEFINE i == b[p]
<1>1. /\ pc[p] = "iderw" /\ ~MemDisk /\ i \in Bufs /\ bufs[i].lock = p /\ ~Done(i)
  BY NoDriverPanic, Zenon DEF Iderw, IInv, RefInv
<1>2. /\ queue' = Append(queue, i) /\ active' = IF queue = <<>> THEN Request(i) ELSE active
      /\ pc' = [pc EXCEPT ![p] = "asleep"] /\ UNCHANGED <<bufs, list, disk, blk, b, last>>
  BY <1>1, Zenon DEF Iderw, Goto, Start
<1>3. pc'[p] = "asleep" /\ \A q \in Proc : q # p => pc'[q] = pc[q]
  BY <1>2, Zenon DEF IInv, TypeInv
<1>4. /\ queue \in Seq(Bufs) /\ queue' \in Seq(Bufs) /\ Len(queue') = Len(queue) + 1
      /\ \A k \in 1 .. Len(queue) : queue'[k] = queue[k]
      /\ queue'[Len(queue) + 1] = i /\ Len(queue) \in Nat
  BY <1>1, <1>2 DEF IInv, TypeInv
<1>5. TypeInv' /\ ListInv'
  BY <1>2, <1>4, Zenon DEF IInv, TypeInv, ListInv, PC
<1>6. RefInv'
  BY <1>1, <1>2, <1>3, SMTT(60) DEF IInv, RefInv, Users
<1>7. LockInv'
  BY <1>1, <1>2, <1>3, SMTT(60) DEF IInv, LockInv, Locked
<1>8. FlagInv'
  BY <1>2, <1>3, Zenon DEF IInv, FlagInv, Done
<1>9. \A k \in 1 .. Len(queue) : queue[k] # i
  BY <1>1, NotQueued, Zenon DEF Queued, Locked, Waiting
<1>10. QueueExact'
  <2>1. Request(i) # Idle
    BY <1>1, Zenon DEF Request, Idle, BcacheAssumption
  <2>2. queue' # <<>> /\ active' # Idle
    BY <1>2, <1>4, <2>1 DEF IInv, QueueExact
  <2>3. active' = Request(queue[1])'
    <3>1. CASE queue = <<>>
      BY <1>2, <1>4, <3>1, SMTT(60) DEF Request
    <3>2. CASE queue # <<>>
      <4>1. 1 \in 1 .. Len(queue)
        BY <1>4, <3>2
      <4>q. QED  BY <1>2, <1>4, <3>2, <4>1, Zenon DEF IInv, QueueExact, Request
    <3>q. QED  BY <3>1, <3>2, Zenon
  <2>4. \A j, k \in 1 .. Len(queue') : queue'[j] = queue'[k] => j = k
    BY <1>4, <1>9 DEF IInv, QueueExact
  <2>5. ASSUME NEW k \in 1 .. Len(queue')
        PROVE  \E q \in Proc : b[q] = queue'[k] /\ bufs[queue'[k]].lock = q /\ pc'[q] \in {"asleep", "check"}
    <3>1. CASE k = Len(queue) + 1
      BY <1>1, <1>3, <1>4, <3>1, Zenon
    <3>2. CASE k \in 1 .. Len(queue)
      <4>1. PICK q \in Proc : b[q] = queue[k] /\ bufs[queue[k]].lock = q /\ pc[q] \in {"asleep", "check"}
        BY <3>2, Zenon DEF IInv, QueueExact
      <4>2. q # p
        BY <1>1, <4>1, Zenon
      <4>q. QED  BY <1>3, <1>4, <3>2, <4>1, <4>2, Zenon
    <3>q. QED  BY <1>4, <3>1, <3>2
  <2>q. QED  BY <1>2, <2>2, <2>3, <2>4, <2>5, Zenon DEF QueueExact
<1>11. WaitInv'
  <2>1. \A k \in 1 .. Len(queue') : ~Done(queue[k])'
    BY <1>1, <1>2, <1>4 DEF IInv, WaitInv, Done
  <2>2. \A j : Queued(j) => Queued(j)'
    BY <1>4 DEF Queued
  <2>3. Queued(i)'
    BY <1>2, <1>4, SMTT(60) DEF Queued
  <2>4. \A q \in Proc : /\ pc'[q] = "asleep" => Queued(b[q])'
                        /\ pc'[q] = "check" => Queued(b[q])' \/ Done(b[q])'
    BY <1>2, <1>3, <2>2, <2>3, Zenon DEF IInv, WaitInv, Done
  <2>q. QED  BY <1>1, <1>2, <2>1, <2>4, Zenon DEF WaitInv
<1>12. DataInv'
  BY <1>2, Zenon DEF IInv, DataInv
<1>13. PinInv'
  <2>1. Pinned' \subseteq Pinned
    BY <1>1, <1>2, <1>3, Zenon DEF Pinned, Busy
  <2>q. QED  BY <2>1, PinKept, Zenon
<1>q. QED  BY <1>5, <1>6, <1>7, <1>8, <1>10, <1>11, <1>12, <1>13, Zenon DEF IInv

-----------------------------------------------------------------------------
(* A request is served: the data is copied, in the direction of the dirty  *)
(* flag, and the buffer is valid and clean.                                *)
Serve(p, v, i) ==
  /\ bufs[i].dirty => v = bufs[i].data
  /\ ~bufs[i].dirty => v = disk[blk[p]] \/ (Faulty /\ v = bufs[i].data)
  /\ disk' = IF bufs[i].dirty THEN [disk EXCEPT ![blk[p]] = bufs[i].data] ELSE disk
  /\ bufs' = [bufs EXCEPT ![i] = [bufs[i] EXCEPT !.data = v, !.valid = TRUE, !.dirty = FALSE]]
  /\ UNCHANGED <<list, blk, b, last>>

(* What holds once it is, but for the queue.                               *)
Served(p, i) ==
  /\ bufs' \in [Bufs -> Buffer] /\ disk' \in [Block -> Val]
  /\ ListInv' /\ RefInv' /\ LockInv' /\ FlagInv' /\ DataInv' /\ PinInv'
  /\ Done(i)' /\ \A j \in Bufs : j # i => bufs'[j] = bufs[j]
  /\ bufs'[i].lock = p

(* It keeps what is not about the queue.                                   *)
LEMMA ServeStep ==
  ASSUME BcacheAssumption, FiniteFacts, IInv, NEW p \in Proc, NEW v, NEW i, i = b[p], Serve(p, v, i),
         pc[p] \in Busy, pc'[p] \in {"hold", "check"},
         \A q \in Proc : q # p => pc'[q] = pc[q]
  PROVE  Served(p, i)
<1>1. i \in Bufs /\ blk[p] \in Block /\ bufs[i].blockno = blk[p] /\ bufs[i].lock = p
  BY DEF IInv, RefInv, LockInv, Locked, Busy, BcacheAssumption
<1>2. bufs[i] \in Buffer /\ bufs[i].data \in Val /\ v \in Val
  BY <1>1 DEF Serve, IInv, TypeInv, Buffer
<1>3. /\ \A j \in Bufs : j # i => bufs'[j] = bufs[j]
      /\ bufs'[i] = [bufs[i] EXCEPT !.data = v, !.valid = TRUE, !.dirty = FALSE]
      /\ UNCHANGED <<list, blk, b, last>>
  BY <1>1, Zenon DEF Serve, IInv, TypeInv
<1>4. /\ bufs'[i].blockno = bufs[i].blockno /\ bufs'[i].refcnt = bufs[i].refcnt
      /\ bufs'[i].lock = bufs[i].lock /\ bufs'[i].data = v
      /\ bufs'[i].valid = TRUE /\ bufs'[i].dirty = FALSE
  BY <1>2, <1>3, Zenon DEF Buffer
<1>5. bufs' \in [Bufs -> Buffer]
  <2>1. bufs'[i] \in Buffer
    BY <1>2, <1>3, Zenon DEF Buffer
  <2>q. QED  BY <1>1, <1>3, <2>1, Zenon DEF Serve, IInv, TypeInv
<1>6. disk' \in [Block -> Val] /\ \A n \in Block : disk'[n] = IF bufs[i].dirty /\ n = blk[p] THEN bufs[i].data ELSE disk[n]
  BY <1>1, <1>2, Zenon DEF Serve, IInv, TypeInv
<1>7. ListInv'
  BY <1>3, Zenon DEF IInv, ListInv
<1>a. \A j \in Bufs : /\ bufs'[j].blockno = bufs[j].blockno /\ bufs'[j].refcnt = bufs[j].refcnt
                      /\ bufs'[j].lock = bufs[j].lock
  BY <1>3, <1>4, Zenon
<1>b. \A q \in Proc : /\ pc'[q] \notin {"run", "panic"} <=> pc[q] \notin {"run", "panic"}
                      /\ pc'[q] \in Locked <=> pc[q] \in Locked
                      /\ b[q] # None => b[q] \in Bufs
  BY Zenon DEF Locked, Busy, IInv, TypeInv
<1>8. RefInv'
  <2>1. \A q \in Proc : b[q] # None => bufs'[b[q]].blockno = blk[q]
    BY <1>a, <1>b, Zenon DEF IInv, RefInv
  <2>2. \A j \in Bufs : Users(j)' = Users(j)
    BY <1>3, Zenon DEF Users
  <2>3. ASSUME NEW j \in Bufs PROVE bufs'[j].refcnt = Cardinality(Users(j)')
    <3>1. bufs'[j].refcnt = bufs[j].refcnt /\ bufs[j].refcnt = Cardinality(Users(j))
      BY <1>a, Zenon DEF IInv, RefInv
    <3>q. QED  BY <2>2, <3>1
  <2>4. ASSUME NEW j \in Bufs, NEW k \in Bufs, bufs'[j].blockno = bufs'[k].blockno, bufs'[j].blockno # None
        PROVE  j = k
    <3>1. bufs[j].blockno = bufs[k].blockno /\ bufs[j].blockno # None
      BY <1>a, <2>4
    <3>q. QED  BY <3>1, Zenon DEF IInv, RefInv
  <2>5. \A q \in Proc : /\ pc'[q] \in {"run", "panic"} => b'[q] = None
                        /\ pc'[q] \notin {"run", "panic"} => b'[q] \in Bufs /\ blk'[q] \in Block
    BY <1>3, <1>b, Zenon DEF IInv, RefInv
  <2>q. QED  BY <1>3, <2>1, <2>3, <2>4, <2>5, Zenon DEF RefInv
<1>9. LockInv'
  <2>1. \A q \in Proc : pc'[q] \in Locked => bufs'[b[q]].lock = q
    BY <1>a, <1>b DEF IInv, LockInv, RefInv, Locked
  <2>2. \A j \in Bufs : bufs[j].lock # None => bufs[j].lock \in Proc
    BY Zenon DEF IInv, TypeInv, Buffer
  <2>q. QED  BY <1>3, <1>a, <1>b, <2>1, <2>2, SMTT(60) DEF IInv, LockInv
<1>10. FlagInv'
  <2>1. \A j \in Bufs : /\ bufs'[j].dirty => bufs'[j].valid
                        /\ bufs'[j].valid => bufs'[j].blockno \in Block
    BY <1>1, <1>3, <1>4, Zenon DEF IInv, FlagInv
  <2>2. \A q \in Proc : q # p /\ pc[q] \in Locked => b[q] # i /\ b[q] \in Bufs
    BY Alone, Zenon DEF IInv, RefInv, Locked, Busy
  <2>3. ASSUME NEW q \in Proc
        PROVE  /\ pc'[q] \in {"hold", "release"} => bufs'[b[q]].valid
               /\ pc'[q] = "iderw" => ~(bufs'[b[q]].valid /\ ~bufs'[b[q]].dirty)
    <3>1. CASE q = p
      BY <1>4, <3>1, Zenon
    <3>2. CASE q # p
      BY <1>3, <2>2, <3>2 DEF IInv, FlagInv, Done, Locked
    <3>q. QED  BY <3>1, <3>2, Zenon
  <2>q. QED  BY <1>3, <2>1, <2>3, Zenon DEF FlagInv, Done
<1>11. DataInv'
  <2>1. \A j \in Bufs : bufs[j].valid /\ j # i => bufs[j].blockno \in Block /\ bufs[j].blockno # blk[p]
    BY <1>1 DEF IInv, FlagInv, RefInv, BcacheAssumption
  <2>2. \A n \in Block : disk'[n] = last[n] \/ \E j \in Bufs : bufs'[j].blockno = n /\ bufs'[j].dirty
    <3>1. disk'[blk[p]] = last[blk[p]]
      <4>1. CASE bufs[i].dirty
        BY <1>1, <1>6, <4>1, SMTT(60) DEF IInv, DataInv
      <4>2. CASE ~bufs[i].dirty
        BY <1>1, <1>6, <4>2, SMTT(60) DEF IInv, DataInv, RefInv, BcacheAssumption
      <4>q. QED  BY <4>1, <4>2, Zenon
    <3>2. \A n \in Block : n # blk[p] => disk'[n] = disk[n]
      BY <1>6, Zenon
    <3>q. QED  BY <1>1, <1>3, <3>1, <3>2 DEF IInv, DataInv
  <2>3. ~Faulty => v = last[blk[p]]
    BY <1>1 DEF Serve, IInv, DataInv, RefInv, BcacheAssumption
  <2>4. ASSUME NEW j \in Bufs
        PROVE  /\ bufs'[j].dirty => bufs'[j].data = last[bufs'[j].blockno]
               /\ ~Faulty /\ bufs'[j].valid => bufs'[j].data = last[bufs'[j].blockno]
    <3>1. CASE j = i
      BY <1>1, <1>4, <2>3, <3>1, Zenon
    <3>2. CASE j # i
      BY <1>3, <3>2, Zenon DEF IInv, DataInv
    <3>q. QED  BY <3>1, <3>2, Zenon
  <2>q. QED  BY <1>3, <2>2, <2>4, Zenon DEF DataInv
<1>12. PinInv'
  <2>1. Pinned' \subseteq Pinned
    BY <1>3, <1>4, Zenon DEF Pinned
  <2>q. QED  BY <2>1, PinKept, Zenon
<1>q. QED  BY <1>1, <1>3, <1>4, <1>5, <1>6, <1>7, <1>8, <1>9, <1>10, <1>11, <1>12, Zenon DEF Served, Done

(* iderw() of memide.c.                                                    *)
LEMMA MemIderwStep ==
  ASSUME BcacheAssumption, FiniteFacts, IInv, NEW p \in Proc, MemIderw(p)
  PROVE  IInv'
<1>0. PICK i : i = b[p]
  BY Zenon
<1>1. pc[p] = "iderw" /\ MemDisk /\ bufs[i].lock = p /\ ~Done(i)
  BY <1>0, NoDriverPanic, Zenon DEF MemIderw, Done
<1>2. /\ pc' = [pc EXCEPT ![p] = "hold"]
      /\ UNCHANGED <<list, queue, active, blk, b, last>>
  BY <1>0, <1>1, Zenon DEF MemIderw, Goto
<1>a. PICK v : v = IF bufs[i].dirty THEN bufs[i].data ELSE disk[blk[p]]
  BY Zenon
<1>b. Serve(p, v, i)
  BY <1>0, <1>1, <1>a, Zenon DEF MemIderw, Serve
<1>3. pc' \in [Proc -> PC] /\ pc'[p] = "hold" /\ \A q \in Proc : q # p => pc'[q] = pc[q]
  BY <1>2, Zenon DEF IInv, TypeInv, PC
<1>4. /\ bufs' \in [Bufs -> Buffer] /\ disk' \in [Block -> Val]
      /\ ListInv' /\ RefInv' /\ LockInv' /\ FlagInv' /\ DataInv' /\ PinInv'
      /\ Done(i)' /\ \A j \in Bufs : j # i => bufs'[j] = bufs[j]
      /\ bufs'[i].lock = p
  <2>1. pc[p] \in Busy /\ pc'[p] \in {"hold", "check"}
    BY <1>1, <1>3, Zenon DEF Busy
  <2>2. \A q \in Proc : q # p => pc'[q] = pc[q]
    BY <1>3, Zenon
  <2>3. Served(p, i)
    BY <1>0, <1>b, <2>1, <2>2, ServeStep, Zenon
  <2>q. QED  BY <2>3, Zenon DEF Served
<1>5. TypeInv'
  BY <1>2, <1>3, <1>4, Zenon DEF IInv, TypeInv
<1>6. QueueExact' /\ WaitInv'
  <2>1. queue = <<>>
    BY <1>1, Zenon DEF IInv, WaitInv
  <2>2. \A q \in Proc : ~Queued(b[q])
    BY <2>1, SMTT(60) DEF Queued
  <2>3. \A q \in Proc : pc[q] \in Waiting => q # p /\ b[q] \in Bufs /\ b[q] # i
    BY <1>0, <1>1, Alone, Zenon DEF IInv, RefInv, Waiting, Locked
  <2>4. \A q \in Proc : pc[q] \in Waiting => b'[q] = b[q] /\ Still(b[q])
    BY <1>2, <1>4, <2>3, Zenon DEF Still
  <2>5. \A q \in Proc : pc'[q] \in Waiting => pc[q] \in Waiting /\ (pc'[q] = "asleep" => Queued(b[q]))
    BY <1>3, Zenon DEF IInv, WaitInv, Waiting
  <2>q. QED  BY <1>2, <2>2, <2>4, <2>5, QueueKept, Zenon
<1>q. QED  BY <1>4, <1>5, <1>6, Zenon DEF IInv

(* ideintr() serves the first request and starts the next.                 *)
LEMMA IdeintrStep ==
  ASSUME BcacheAssumption, FiniteFacts, IInv, NEW ok \in BOOLEAN, Faulty \/ ok, Ideintr(ok)
  PROVE  IInv'
<1> DEFINE N == Len(queue)
<1>0. PICK i : i = queue[1]
  BY Zenon
<1>1. /\ queue \in Seq(Bufs) /\ queue # <<>> /\ N \in Nat /\ N >= 1 /\ Head(queue) = i /\ 1 \in 1 .. N
      /\ i \in Bufs
  BY <1>0 DEF Ideintr, IInv, TypeInv
<1>2. PICK p \in Proc : b[p] = i /\ bufs[i].lock = p /\ pc[p] \in Waiting
  BY <1>0, <1>1, SMTT(60) DEF IInv, QueueExact, Waiting
<1>3. bufs[i].blockno = blk[p] /\ active = Request(i)
  BY <1>0, <1>1, <1>2 DEF IInv, RefInv, QueueExact, BcacheAssumption
<1>4. /\ active.write = bufs[i].dirty /\ active.blockno = blk[p] /\ active.data = bufs[i].data
  BY <1>3, Zenon DEF Request
<1>5. /\ queue' = Tail(queue)
      /\ active' = IF Len(queue) > 1 THEN Request(queue[2]) ELSE Idle
      /\ pc' = [q \in Proc |-> IF pc[q] = "asleep" /\ b[q] = i THEN "check" ELSE pc[q]]
      /\ UNCHANGED <<list, blk, b, last>>
  BY <1>1, Zenon DEF Ideintr
<1>a. PICK v : v = IF bufs[i].dirty \/ ~ok THEN bufs[i].data ELSE disk[blk[p]]
  BY Zenon
<1>6. Serve(p, v, i)
  BY <1>1, <1>4, <1>a, Zenon DEF Ideintr, Arrives, Serve, IInv, TypeInv
<1>7. \A q \in Proc : q # p /\ pc[q] \in Waiting => b[q] # i
  BY <1>2, Alone, Zenon DEF Waiting, Locked
<1>8. /\ pc' \in [Proc -> PC] /\ pc'[p] = "check" /\ \A q \in Proc : q # p => pc'[q] = pc[q]
  BY <1>2, <1>5, <1>7, Zenon DEF IInv, TypeInv, PC, Waiting
<1>9. /\ bufs' \in [Bufs -> Buffer] /\ disk' \in [Block -> Val]
      /\ ListInv' /\ RefInv' /\ LockInv' /\ FlagInv' /\ DataInv' /\ PinInv'
      /\ Done(i)' /\ \A j \in Bufs : j # i => bufs'[j] = bufs[j]
      /\ bufs'[i].lock = p
  <2>1. pc[p] \in Busy /\ pc'[p] \in {"hold", "check"}
    BY <1>2, <1>8, Zenon DEF Busy, Waiting
  <2>3. Served(p, i)
    BY <1>2, <1>6, <1>8, <2>1, ServeStep, Zenon
  <2>q. QED  BY <2>3, Zenon DEF Served
<1>10. /\ queue' \in Seq(Bufs) /\ Len(queue') = N - 1
       /\ \A k \in 1 .. N - 1 : queue'[k] = queue[k + 1] /\ k + 1 \in 1 .. N /\ k + 1 # 1
  BY <1>1, <1>5, SMTT(60)
<1>11. TypeInv'
  BY <1>5, <1>8, <1>9, <1>10, Zenon DEF IInv, TypeInv
<1>12. \A k \in 1 .. N - 1 : queue'[k] # i /\ queue'[k] \in Bufs /\ bufs'[queue'[k]] = bufs[queue'[k]]
  <2>1. ASSUME NEW k \in 1 .. N - 1 PROVE queue[k + 1] # i /\ queue[k + 1] \in Bufs
    <3>1. k + 1 \in 1 .. N /\ k + 1 # 1
      BY <1>10, Zenon
    <3>2. \A j \in 1 .. N : queue[j] \in Bufs
      BY <1>1
    <3>q. QED  BY <1>0, <1>1, <3>1, <3>2, Zenon DEF IInv, QueueExact
  <2>q. QED  BY <1>9, <1>10, <2>1, Zenon
<1>13. QueueExact'
  <2>1. ASSUME NEW k \in 1 .. Len(queue')
        PROVE  \E q \in Proc :
                 b[q] = queue'[k] /\ bufs'[queue'[k]].lock = q /\ pc'[q] \in {"asleep", "check"}
    <3>1. PICK q \in Proc :
            b[q] = queue[k + 1] /\ bufs[queue[k + 1]].lock = q /\ pc[q] \in {"asleep", "check"}
      BY <1>10, SMTT(60) DEF IInv, QueueExact
    <3>2. q # p /\ b[q] = queue'[k] /\ bufs'[queue'[k]].lock = q
      BY <1>2, <1>10, <1>12, <3>1
    <3>q. QED  BY <1>8, <3>1, <3>2, Zenon
  <2>2. \A j, k \in 1 .. Len(queue') : queue'[j] = queue'[k] => j = k
    <3>1. SUFFICES ASSUME NEW j \in 1 .. N - 1, NEW k \in 1 .. N - 1, queue'[j] = queue'[k]
                   PROVE  j = k
      BY <1>10, Zenon
    <3>2. j + 1 = k + 1
      BY <1>10, <3>1, Zenon DEF IInv, QueueExact
    <3>q. QED  BY <1>1, <3>2
  <2>3. CASE N > 1
    <3>1. 1 \in 1 .. N - 1 /\ queue'[1] = queue[2] /\ queue' # <<>>
      BY <1>1, <1>10, <2>3, SMTT(60)
    <3>2. active' = Request(queue[1])'
      BY <1>5, <1>12, <2>3, <3>1, Zenon DEF Request
    <3>3. queue'[1] \in Bufs /\ active'.buf = queue'[1]
      BY <1>12, <3>1, <3>2, Zenon DEF Request
    <3>4. active' # Idle
      BY <3>3 DEF Idle, BcacheAssumption
    <3>q. QED  BY <1>5, <2>1, <2>2, <3>1, <3>2, <3>4, ZenonT(60) DEF QueueExact
  <2>4. CASE ~(N > 1)
    <3>1. queue' = <<>> /\ active' = Idle
      BY <1>1, <1>5, <1>10, <2>4, SMTT(60)
    <3>q. QED  BY <1>5, <2>1, <2>2, <3>1, Zenon DEF QueueExact
  <2>q. QED  BY <2>3, <2>4, Zenon
<1>14. WaitInv'
  <2>1. \A k \in 1 .. Len(queue') : ~Done(queue[k])'
    BY <1>10, <1>12, ZenonT(60) DEF IInv, WaitInv, Done
  <2>2. ASSUME NEW q \in Proc, q # p, pc[q] \in Waiting
        PROVE  b[q] \in Bufs /\ bufs'[b[q]] = bufs[b[q]] /\ (Queued(b[q]) => Queued(b[q])')
    <3>1. b[q] \in Bufs /\ b[q] # i
      BY <1>7, <2>2, Zenon DEF IInv, RefInv, Waiting
    <3>2. ASSUME NEW k \in 1 .. N, queue[k] = b[q]
          PROVE  k - 1 \in 1 .. N - 1 /\ queue'[k - 1] = b[q]
      <4>1. k # 1 /\ k - 1 \in 1 .. N - 1 /\ (k - 1) + 1 = k
        BY <1>0, <1>1, <3>1, <3>2
      <4>q. QED  BY <1>10, <3>2, <4>1, Zenon
    <3>q. QED  BY <1>5, <1>9, <1>10, <3>1, <3>2, Zenon DEF Queued
  <2>3. ASSUME NEW q \in Proc
        PROVE  /\ pc'[q] = "asleep" => Queued(b[q])'
               /\ pc'[q] = "check" => Queued(b[q])' \/ Done(b[q])'
    <3>1. CASE q = p
      BY <1>2, <1>5, <1>8, <1>9, <3>1, Zenon DEF Done
    <3>2. CASE q # p
      BY <1>5, <1>8, <2>2, <3>2, Zenon DEF IInv, WaitInv, Waiting, Done
    <3>q. QED  BY <3>1, <3>2, Zenon
  <2>4. MemDisk => FALSE
    BY <1>1, Zenon DEF IInv, WaitInv
  <2>q. QED  BY <1>5, <2>1, <2>3, <2>4, Zenon DEF WaitInv
<1>q. QED  BY <1>9, <1>11, <1>13, <1>14, Zenon DEF IInv

-----------------------------------------------------------------------------
LEMMA InitInv ==
  ASSUME BcacheAssumption, FiniteFacts, Init
  PROVE  IInv
<1>1. InitDisk[CHOOSE x \in Block : TRUE] \in Val
  BY Zenon DEF BcacheAssumption
<1>2. /\ \A i \in Bufs : /\ bufs[i] \in Buffer /\ bufs[i].blockno = None /\ bufs[i].refcnt = 0
                         /\ ~bufs[i].valid /\ ~bufs[i].dirty /\ bufs[i].lock = None
      /\ bufs \in [Bufs -> Buffer]
  BY <1>1, Zenon DEF Init, Buffer
<1>3. list \in [Bufs -> Bufs] /\ ListInv
  <2>1. \A i \in Bufs : NBUF + 1 - i \in Bufs /\ NBUF + 1 - (NBUF + 1 - i) = i
    BY DEF Bufs, BcacheAssumption
  <2>q. QED  BY <2>1, Zenon DEF Init, ListInv
<1>4. TypeInv
  BY <1>2, <1>3 DEF Init, TypeInv, PC, BcacheAssumption
<1>5. RefInv
  <2>1. \A i \in Bufs : Users(i) = {}
    BY Zenon DEF Init, Users, BcacheAssumption
  <2>q. QED  BY <1>2, <2>1, Zenon DEF Init, RefInv, FiniteFacts, EmptyFact
<1>6. LockInv /\ FlagInv
  BY <1>2, Zenon DEF Init, LockInv, FlagInv, Locked
<1>7. QueueExact /\ WaitInv
  BY SMTT(60) DEF Init, QueueExact, WaitInv
<1>8. DataInv
  BY <1>2, Zenon DEF Init, DataInv
<1>9. PinInv
  <2>1. Pinned = {}
    BY <1>2, Zenon DEF Pinned
  <2>q. QED  BY <2>1 DEF PinInv, BcacheAssumption, FiniteFacts, EmptyFact
<1>q. QED  BY <1>3, <1>4, <1>5, <1>6, <1>7, <1>8, <1>9, Zenon DEF IInv

LEMMA NextInv ==
  ASSUME BcacheAssumption, FiniteFacts, IInv, [Next]_vars
  PROVE  IInv'
<1>1. CASE UNCHANGED vars
  <2>1. UNCHANGED <<bufs, list, queue, active, disk, pc, blk, b, last>>
    BY <1>1, Zenon DEF vars, driver
  <2>2. TypeInv' /\ ListInv' /\ LockInv'
    BY <2>1, Zenon DEF IInv, TypeInv, ListInv, LockInv
  <2>3. RefInv' /\ DataInv'
    BY <2>1, SMTT(60) DEF IInv, RefInv, Users, DataInv
  <2>4. FlagInv' /\ WaitInv'
    BY <2>1, Zenon DEF IInv, FlagInv, WaitInv, Queued, Done
  <2>5. QueueExact'
    BY <2>1, Zenon DEF IInv, QueueExact, Request
  <2>6. PinInv'
    BY <2>1, Zenon DEF IInv, PinInv, Pinned
  <2>q. QED  BY <2>2, <2>3, <2>4, <2>5, <2>6, Zenon DEF IInv
<1>2. CASE Interrupt
  <2>1. PICK ok \in IF Faulty THEN BOOLEAN ELSE {TRUE} : Ideintr(ok)
    BY <1>2, Zenon DEF Interrupt
  <2>2. ok \in BOOLEAN /\ (Faulty \/ ok)
    BY Zenon
  <2>q. QED  BY <2>1, <2>2, IdeintrStep, Zenon
<1>3. ASSUME NEW p \in Proc, Step(p) \/ Kill(p) \/ (\E n \in Block : Bget(p, n))
                               \/ (\E v \in Val : Bwrite(p, v) \/ Pin(p, v))
      PROVE  IInv'
  BY <1>3, AcquireStep, LeaveStep, UnlockStep, BrelseStep, IderwStep, CheckStep, MemIderwStep,
     KillStep, BgetStep, BwriteStep, PinStep, Zenon DEF Step
<1>q. QED  BY <1>1, <1>2, <1>3, Zenon DEF Next

(* The library's theorems about finite sets, for the counting above.       *)
INSTANCE FiniteSetTheorems

LEMMA Finite == FiniteFacts
<1>1. SizeFact /\ EmptyFact /\ SingletonFact
  BY FS_CardinalityType, FS_EmptySet, FS_Singleton, Zenon DEF SizeFact, EmptyFact, SingletonFact
<1>2. AddFact /\ RemoveFact
  BY FS_AddElement, FS_RemoveElement, Zenon DEF AddFact, RemoveFact
<1>3. SubsetFact /\ UnionFact
  BY FS_Subset, FS_Union, Zenon DEF SubsetFact, UnionFact
<1>4. IntervalFact /\ ProductFact
  BY FS_Interval, FS_Product, Zenon DEF IntervalFact, ProductFact
<1>q. QED  BY <1>1, <1>2, <1>3, <1>4, Zenon DEF FiniteFacts

(* The cache and the driver keep their invariant, whatever disk errors     *)
(* there are and however few buffers.                                      *)
THEOREM Invariance == ASSUME BcacheAssumption PROVE Spec => []IInv
<1>1. Init => IInv
  BY InitInv, Finite, Zenon
<1>2. IInv /\ [Next]_vars => IInv'
  BY NextInv, Finite, Zenon
<1>q. QED  BY <1>1, <1>2, PTL DEF Spec

(* bget() never has a block in two buffers nor miscounts, and a buffer in  *)
(* use keeps its block.                                                    *)
THEOREM CacheExactHolds == ASSUME BcacheAssumption PROVE Spec => []CacheExact
<1>1. IInv => CacheExact
  BY Zenon DEF IInv, RefInv, CacheExact, Users
<1>q. QED  BY <1>1, Invariance, PTL

(* bread() returns what was written last, if the disk reads without error. *)
THEOREM ReadsLastHolds == ASSUME BcacheAssumption, ~Faulty PROVE Spec => []ReadsLast
<1>1. IInv => ReadsLast
  <2>1. SUFFICES ASSUME IInv, NEW p \in Proc, pc[p] = "hold"
                 PROVE  bufs[b[p]].data = last[blk[p]] /\ bufs[b[p]].lock = p
    BY Zenon DEF ReadsLast
  <2>2. b[p] \in Bufs /\ bufs[b[p]].valid /\ bufs[b[p]].blockno = blk[p]
    BY <2>1, Zenon DEF IInv, RefInv, FlagInv, BcacheAssumption
  <2>q. QED  BY <2>1, <2>2, SMTT(60) DEF IInv, DataInv, LockInv, Locked
<1>q. QED  BY <1>1, Invariance, PTL

(* What was written is on the disk or in a buffer that bget() leaves alone *)
(* until it is.                                                            *)
THEOREM NothingLostHolds == ASSUME BcacheAssumption PROVE Spec => []NothingLost
<1>1. IInv => NothingLost
  BY Zenon DEF IInv, DataInv, NothingLost
<1>q. QED  BY <1>1, Invariance, PTL

(* idequeue and the controller agree, and each request has its waiter.     *)
THEOREM QueueExactHolds == ASSUME BcacheAssumption PROVE Spec => []QueueExact
<1>1. IInv => QueueExact
  BY Zenon DEF IInv
<1>q. QED  BY <1>1, Invariance, PTL

(* bget() finds a buffer when there are more than the other processes and  *)
(* the log can have in use.                                                *)
LEMMA BufferLeft ==
  ASSUME BcacheAssumption, IInv, NBUF >= Cardinality(Proc) + MaxPinned,
         NEW p \in Proc, b[p] = None
  PROVE  \E k \in Bufs : Reusable(list[k])
<1> DEFINE others == Proc \ {p}
           used == {b[q] : q \in others}
<1>1. SUFFICES ASSUME \A k \in Bufs : ~Reusable(list[k])  PROVE FALSE
  BY Zenon
<1>2. Bufs \subseteq used \cup Pinned
  <2>1. SUFFICES ASSUME NEW i \in Bufs, i \notin Pinned  PROVE i \in used
    BY Zenon
  <2>2. bufs[i].refcnt # 0 \/ bufs[i].dirty
    BY <1>1, Zenon DEF IInv, ListInv, Reusable
  <2>3. CASE bufs[i].refcnt # 0
    <3>1. Users(i) # {}
      BY <2>3, FS_EmptySet, Zenon DEF IInv, RefInv
    <3>q. QED  BY <3>1, Zenon DEF Users, BcacheAssumption
  <2>4. CASE bufs[i].dirty
    BY <2>1, <2>4, Zenon DEF Pinned, BcacheAssumption
  <2>q. QED  BY <2>2, <2>3, <2>4, Zenon
<1>3. IsFiniteSet(others) /\ Cardinality(others) = Cardinality(Proc) - 1 /\ Cardinality(Proc) \in Nat
  BY FS_RemoveElement, FS_CardinalityType, Zenon DEF BcacheAssumption
<1>4. IsFiniteSet(used) /\ Cardinality(used) <= Cardinality(others)
  <2>1. [q \in others |-> b[q]] \in Surjection(others, used)
    BY Zenon DEF Surjection
  <2>q. QED  BY <1>3, <2>1, FS_Surjection, Zenon
<1>5. IsFiniteSet(Bufs) /\ Cardinality(Bufs) = NBUF /\ NBUF \in Nat
  BY FS_Interval, SMTT(60) DEF Bufs, BcacheAssumption
<1>6. IsFiniteSet(Pinned)
  BY <1>5, FS_Subset, Zenon DEF Pinned
<1>7. IsFiniteSet(used \cup Pinned) /\ Cardinality(used \cup Pinned) <= Cardinality(used) + Cardinality(Pinned)
  <2>1. IsFiniteSet(used \cap Pinned) /\ Cardinality(used \cap Pinned) \in Nat
    BY <1>6, FS_Subset, FS_CardinalityType, Zenon
  <2>2. Cardinality(used) \in Nat /\ Cardinality(Pinned) \in Nat
    BY <1>4, <1>6, FS_CardinalityType, Zenon
  <2>q. QED  BY <1>4, <1>6, <2>1, <2>2, FS_Union
<1>8. NBUF <= Cardinality(used \cup Pinned)
  BY <1>2, <1>5, <1>7, FS_Subset, Zenon
<1>9. /\ Cardinality(used \cup Pinned) \in Nat /\ Cardinality(used) \in Nat
      /\ Cardinality(Pinned) \in Nat /\ Cardinality(others) \in Nat
  BY <1>3, <1>4, <1>6, <1>7, FS_CardinalityType, Zenon
<1>q. QED  BY <1>3, <1>4, <1>5, <1>7, <1>8, <1>9 DEF IInv, PinInv, BcacheAssumption

(* With a buffer for every process and every pinned block, bget() and      *)
(* iderw() never panic.                                                    *)
THEOREM NoPanicHolds ==
  ASSUME BcacheAssumption, NBUF >= Cardinality(Proc) + MaxPinned
  PROVE  Spec => []NoPanic
<1>1. Init => NoPanic
  BY Zenon DEF Init, NoPanic
<1>2. ASSUME IInv, NoPanic, [Next]_vars PROVE NoPanic'
  <2>1. \A p \in Proc : pc[p] = "run" => b[p] = None
    BY <1>2, Zenon DEF IInv, RefInv
  <2>2. pc \in [Proc -> PC]
    BY <1>2, Zenon DEF IInv, TypeInv
  <2>3. CASE UNCHANGED vars
    BY <1>2, <2>3, Zenon DEF vars, NoPanic
  <2>4. CASE Interrupt
    BY <1>2, <2>4, Zenon DEF Interrupt, Ideintr, NoPanic
  <2>5. ASSUME NEW p \in Proc, Step(p) \/ Kill(p)  PROVE NoPanic'
    <3>1. pc[p] = "iderw" => ~Done(b[p]) /\ bufs[b[p]].lock = p
      BY <1>2, NoDriverPanic, Zenon
    <3>2. \E l \in PC \ {"panic"} : pc' = [pc EXCEPT ![p] = l]
      BY <2>5, <3>1, Zenon DEF Step, Kill, Acquire, Leave, Unlock, Brelse, Iderw, Check, MemIderw, Goto, PC
    <3>q. QED  BY <1>2, <2>2, <3>2, Zenon DEF NoPanic
  <2>6. ASSUME NEW p \in Proc, NEW n \in Block, Bget(p, n)  PROVE NoPanic'
    <3>1. \E k \in Bufs : Reusable(list[k])
      BY <1>2, <2>1, <2>6, BufferLeft, Zenon DEF Bget
    <3>2. pc' = [pc EXCEPT ![p] = "lock"]
      BY <2>6, <3>1, Zenon DEF Bget, Take, Goto
    <3>q. QED  BY <1>2, <2>2, <3>2, Zenon DEF NoPanic
  <2>7. ASSUME NEW p \in Proc, NEW v \in Val, Bwrite(p, v) \/ Pin(p, v)  PROVE NoPanic'
    <3>1. \E l \in PC \ {"panic"} : pc' = [pc EXCEPT ![p] = l]
      BY <2>7, Zenon DEF Bwrite, Pin, Goto, PC
    <3>q. QED  BY <1>2, <2>2, <3>1, Zenon DEF NoPanic
  <2>q. QED  BY <1>2, <2>3, <2>4, <2>5, <2>6, <2>7, Zenon DEF Next
<1>q. QED  BY <1>1, <1>2, Invariance, PTL DEF Spec
=============================================================================
