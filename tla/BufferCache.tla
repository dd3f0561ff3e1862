---------------------------- MODULE BufferCache -----------------------------
(***************************************************************************)
(* The buffer cache (bio.c) over the disk driver (ide.c, or memide.c in    *)
(* the memory-disk kernel): processes bread() a block, change it, bwrite() *)
(* it or leave it pinned for the log, and brelse() it.                     *)
(*                                                                         *)
(* The critical sections of bcache.lock and idelock are single steps.      *)
(* Waiting for a buffer's sleep lock is a guard (Sleeplock).  sleep() in   *)
(* iderw() can end early, because kill() wakes any sleeper.                *)
(***************************************************************************)
EXTENDS Naturals, Sequences, FiniteSets

CONSTANTS Proc, Block, Val,
          NBUF,        \* param.h
          None,        \* no process, no block, no buffer
          InitDisk,    \* the disk at boot
          MaxPinned,   \* the log pins at most this many buffers
          Faulty,      \* the disk may report an error for a read
          MemDisk      \* the kernel is linked with memide.c, not ide.c

Bufs == 1 .. NBUF

BcacheAssumption ==
  /\ NBUF \in Nat \ {0} /\ MaxPinned \in Nat
  /\ Faulty \in BOOLEAN /\ MemDisk \in BOOLEAN
  /\ IsFiniteSet(Proc) /\ Block # {} /\ InitDisk \in [Block -> Val]
  /\ None \notin Proc /\ None \notin Block /\ None \notin Bufs

VARIABLES bufs,       \* bcache.buf
          list,       \* the buffers from bcache.head.next on
          queue,      \* idequeue
          active,     \* the request the controller works on
          disk,
          pc, blk, b, \* a process: where it is, its block, its buffer
          last        \* ghost: what was last written to the block

driver == <<queue, active, disk>>
vars == <<bufs, list, driver, pc, blk, b, last>>

\* The controller has nothing to do.
Idle == [buf |-> None]

Init ==
  /\ bufs = [i \in Bufs |-> [blockno |-> None, refcnt |-> 0, valid |-> FALSE,
                             dirty |-> FALSE, data |-> InitDisk[CHOOSE x \in Block : TRUE],
                             lock |-> None]]
  /\ list = [i \in Bufs |-> NBUF + 1 - i]
  /\ queue = <<>> /\ active = Idle /\ disk = InitDisk
  /\ pc = [p \in Proc |-> "run"]
  /\ blk = [p \in Proc |-> None] /\ b = [p \in Proc |-> None]
  /\ last = InitDisk

Goto(p, l) == pc' = [pc EXCEPT ![p] = l]

Dirty == {i \in Bufs : bufs[i].dirty}

-----------------------------------------------------------------------------
(* Mutant: bget() recycles buffers that are pinned for the log.            *)
ReusablePinned(i) == bufs[i].refcnt = 0

Reusable(i) == bufs[i].refcnt = 0 /\ ~bufs[i].dirty

Take(p, i) == b' = [b EXCEPT ![p] = i] /\ Goto(p, "lock")

\* bget(): the buffer of the block, or the least recently used free one.
Bget(p, n) ==
  LET cached == {i \in Bufs : bufs[i].blockno = n}
      free == {k \in Bufs : Reusable(list[k])}
  IN /\ pc[p] = "run"
     /\ blk' = [blk EXCEPT ![p] = n]
     /\ IF cached = {} /\ free = {}
          THEN Goto(p, "panic") /\ UNCHANGED <<bufs, b>>
          ELSE \/ \E i \in cached :
                    Take(p, i) /\ bufs' = [bufs EXCEPT ![i].refcnt = @ + 1]
               \/ /\ cached = {}
                  /\ \E k \in free :
                       /\ \A j \in free : j <= k
                       /\ Take(p, list[k])
                       /\ bufs' = [bufs EXCEPT ![list[k]] =
                            [@ EXCEPT !.blockno = n, !.refcnt = 1, !.valid = FALSE,
                                      !.dirty = FALSE]]
     /\ UNCHANGED <<list, driver, last>>

\* acquiresleep(&b->lock); bread() then reads a buffer that is not valid.
Acquire(p) ==
  /\ pc[p] = "lock" /\ bufs[b[p]].lock = None
  /\ bufs' = [bufs EXCEPT ![b[p]].lock = p]
  /\ Goto(p, IF bufs[b[p]].valid THEN "hold" ELSE "iderw")
  /\ UNCHANGED <<list, driver, blk, b, last>>

\* The caller changes the data and calls bwrite().
Bwrite(p, v) ==
  /\ pc[p] = "hold"
  /\ bufs' = [bufs EXCEPT ![b[p]].data = v, ![b[p]].dirty = TRUE]
  /\ last' = [last EXCEPT ![blk[p]] = v]
  /\ Goto(p, "iderw")
  /\ UNCHANGED <<list, driver, blk, b>>

\* The caller changes the data and calls log_write(), which pins the buffer;
\* the commit will bread() and bwrite() it.
Pin(p, v) ==
  /\ pc[p] = "hold"
  /\ bufs[b[p]].dirty \/ Cardinality(Dirty) < MaxPinned
  /\ bufs' = [bufs EXCEPT ![b[p]].data = v, ![b[p]].dirty = TRUE]
  /\ last' = [last EXCEPT ![blk[p]] = v]
  /\ Goto(p, "release")
  /\ UNCHANGED <<list, driver, blk, b>>

\* The caller only reads.
Leave(p) ==
  /\ pc[p] = "hold" /\ Goto(p, "release")
  /\ UNCHANGED <<bufs, list, driver, blk, b, last>>

\* brelse() unlocks first, and only then takes bcache.lock.
Unlock(p) ==
  /\ pc[p] = "release"
  /\ bufs' = [bufs EXCEPT ![b[p]].lock = None]
  /\ Goto(p, "brelse")
  /\ UNCHANGED <<list, driver, blk, b, last>>

(* Mutant: brelse() frees the buffer although others refer to it.          *)
DropAll(i) == 0

(* Mutant: brelse() forgets to drop the reference.                         *)
KeepAll(i) == bufs[i].refcnt

Drop(i) == bufs[i].refcnt - 1

\* brelse() puts a buffer that nobody refers to any more at the front.
MoveToFront(i) ==
  LET at == CHOOSE k \in Bufs : list[k] = i
  IN [k \in Bufs |-> IF k = 1 THEN i ELSE IF k <= at THEN list[k - 1] ELSE list[k]]

Brelse(p) ==
  /\ pc[p] = "brelse"
  /\ bufs' = [bufs EXCEPT ![b[p]].refcnt = Drop(b[p])]
  /\ list' = IF Drop(b[p]) = 0 THEN MoveToFront(b[p]) ELSE list
  /\ b' = [b EXCEPT ![p] = None] /\ blk' = [blk EXCEPT ![p] = None]
  /\ Goto(p, "run")
  /\ UNCHANGED <<driver, last>>

-----------------------------------------------------------------------------
Done(i) == bufs[i].valid /\ ~bufs[i].dirty

Request(i) ==
  [buf |-> i, blockno |-> bufs[i].blockno, write |-> bufs[i].dirty, data |-> bufs[i].data]

(* Mutant: iderw() starts the disk even when it is busy.                   *)
StartAlways(i) == active' = Request(i)

\* iderw() calls idestart() only for a queue that was empty.
Start(i) == active' = IF queue = <<>> THEN Request(i) ELSE active

\* iderw() of ide.c, up to its sleep().
Iderw(p) ==
  /\ pc[p] = "iderw" /\ ~MemDisk
  /\ IF Done(b[p]) \/ bufs[b[p]].lock # p
       THEN Goto(p, "panic") /\ UNCHANGED driver
       ELSE /\ queue' = Append(queue, b[p])
            /\ Start(b[p])
            /\ Goto(p, "asleep")
            /\ UNCHANGED disk
  /\ UNCHANGED <<bufs, list, blk, b, last>>

(* Mutant: iderw() does not test the flags again after sleep().            *)
CheckOnce(p) ==
  /\ pc[p] = "check"
  /\ Goto(p, "hold")
  /\ UNCHANGED <<bufs, list, driver, blk, b, last>>

\* The while loop around sleep() in iderw().
Check(p) ==
  /\ pc[p] = "check"
  /\ Goto(p, IF Done(b[p]) THEN "hold" ELSE "asleep")
  /\ UNCHANGED <<bufs, list, driver, blk, b, last>>

\* kill() wakes whoever sleeps.
Kill(p) ==
  /\ pc[p] = "asleep"
  /\ Goto(p, "check")
  /\ UNCHANGED <<bufs, list, driver, blk, b, last>>

\* The data a finished request leaves in the buffer: insl() is skipped when
\* the drive reports an error.
Arrives(i, ok) ==
  IF bufs[i].dirty \/ ~ok THEN bufs[i].data ELSE disk[active.blockno]

(* Mutant: ideintr() does not start the next request.                      *)
IdeintrStops(ok) ==
  LET i == Head(queue) IN
  /\ queue # <<>> /\ active # Idle
  /\ disk' = IF active.write THEN [disk EXCEPT ![active.blockno] = active.data] ELSE disk
  /\ bufs' = [bufs EXCEPT ![i].data = Arrives(i, ok), ![i].valid = TRUE, ![i].dirty = FALSE]
  /\ queue' = Tail(queue)
  /\ active' = Idle
  /\ pc' = [p \in Proc |-> IF pc[p] = "asleep" /\ b[p] = i THEN "check" ELSE pc[p]]
  /\ UNCHANGED <<list, blk, b, last>>

\* The controller finishes its request and interrupts: ideintr().
Ideintr(ok) ==
  LET i == Head(queue) IN
  /\ queue # <<>> /\ active # Idle
  /\ disk' = IF active.write THEN [disk EXCEPT ![active.blockno] = active.data] ELSE disk
  /\ bufs' = [bufs EXCEPT ![i].data = Arrives(i, ok), ![i].valid = TRUE, ![i].dirty = FALSE]
  /\ queue' = Tail(queue)
  /\ active' = IF Len(queue) > 1 THEN Request(queue[2]) ELSE Idle
  /\ pc' = [p \in Proc |-> IF pc[p] = "asleep" /\ b[p] = i THEN "check" ELSE pc[p]]
  /\ UNCHANGED <<list, blk, b, last>>

\* iderw() of memide.c copies at once.
MemIderw(p) ==
  LET i == b[p] IN
  /\ pc[p] = "iderw" /\ MemDisk
  /\ IF Done(i) \/ bufs[i].lock # p
       THEN Goto(p, "panic") /\ UNCHANGED <<bufs, disk>>
       ELSE /\ disk' = IF bufs[i].dirty THEN [disk EXCEPT ![blk[p]] = bufs[i].data] ELSE disk
            /\ bufs' = [bufs EXCEPT ![i].data = IF bufs[i].dirty THEN @ ELSE disk[blk[p]],
                                    ![i].valid = TRUE, ![i].dirty = FALSE]
            /\ Goto(p, "hold")
  /\ UNCHANGED <<list, queue, active, blk, b, last>>

-----------------------------------------------------------------------------
Interrupt == \E ok \in IF Faulty THEN BOOLEAN ELSE {TRUE} : Ideintr(ok)

Step(p) ==
  Acquire(p) \/ Leave(p) \/ Unlock(p) \/ Brelse(p) \/ Iderw(p) \/ Check(p) \/ MemIderw(p)

Next ==
  \/ \E p \in Proc :
       \/ Step(p) \/ Kill(p)
       \/ \E n \in Block : Bget(p, n)
       \/ \E v \in Val : Bwrite(p, v) \/ Pin(p, v)
  \/ Interrupt

Spec == Init /\ [][Next]_vars

\* Processes run, the disk answers, a sleep lock is not always taken by others
\* and nobody writes one buffer for ever.
Fairness ==
  /\ WF_vars(Interrupt)
  /\ \A p \in Proc : WF_vars(Step(p)) /\ SF_vars(Acquire(p)) /\ SF_vars(Leave(p))

FairSpec == Spec /\ Fairness

-----------------------------------------------------------------------------
(* No block is in two buffers, a reference count is the number of          *)
(* processes between bget() and brelse(), and the buffer a process refers  *)
(* to goes on holding its block.                                           *)
CacheExact ==
  /\ \A i, j \in Bufs : bufs[i].blockno = bufs[j].blockno /\ bufs[i].blockno # None => i = j
  /\ \A i \in Bufs : bufs[i].refcnt = Cardinality({p \in Proc : b[p] = i})
  /\ \A p \in Proc : b[p] # None => bufs[b[p]].blockno = blk[p]

(* bread() returns the contents of the block: what was written to it last, *)
(* whoever wrote it and wherever it is now.                                *)
ReadsLast ==
  \A p \in Proc : pc[p] = "hold" => bufs[b[p]].data = last[blk[p]] /\ bufs[b[p]].lock = p

(* A write is on the disk or in a buffer that cannot be recycled.          *)
NothingLost ==
  \A n \in Block : disk[n] = last[n] \/ \E i \in Bufs :
    bufs[i].blockno = n /\ bufs[i].dirty /\ bufs[i].data = last[n]

(* The controller works on the first buffer of the queue, every queued     *)
(* buffer is locked by the one process waiting for it, and the queue       *)
(* repeats nothing.                                                        *)
QueueExact ==
  /\ (active = Idle) = (queue = <<>>)
  /\ queue # <<>> => active = Request(queue[1])
  /\ \A j, k \in 1 .. Len(queue) : queue[j] = queue[k] => j = k
  /\ \A k \in 1 .. Len(queue) : \E p \in Proc :
       b[p] = queue[k] /\ bufs[queue[k]].lock = p /\ pc[p] \in {"asleep", "check"}

(* With a buffer for every process and every pinned block, the driver and  *)
(* the cache never panic.                                                  *)
NoPanic == \A p \in Proc : pc[p] # "panic"

(* bread() and bwrite() return.                                            *)
BreadReturns == \A p \in Proc : (pc[p] \in {"lock", "asleep"}) ~> (pc[p] = "hold")
=============================================================================
