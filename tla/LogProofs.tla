----------------------------- MODULE LogProofs ------------------------------
(***************************************************************************)
(* What log.c guarantees, proved for any number of processes and blocks    *)
(* and any size of the log: the committed state survives crashes, sleepers *)
(* in begin_op() have a reason to sleep, the list of blocks fits, and the  *)
(* log implements the transactions of LogAbs.  The results assume of the   *)
(* callers what param.h asks of them: a call writes at most MAXOPBLOCKS    *)
(* different blocks.                                                       *)
(***************************************************************************)
EXTENDS Log, FiniteFacts, TLAPS

Booting == {"up", "readhead", "install", "erase"}
Committer == {"log", "head", "install", "erase", "done"}

TypeOK ==
  /\ disk \in [Block -> Val] /\ cache \in [Block -> Val \union {NoBuf}]
  /\ slot \in [1 .. LOGSIZE -> Val \union {NoBuf}]
  /\ hdr \in Seq(Block) /\ lh \in Seq(Block) /\ dirty \in SUBSET Block
  /\ outstanding \in Nat /\ committing \in BOOLEAN /\ tail \in Nat
  /\ pc \in [Proc -> PC] /\ wrote \in [Proc -> SUBSET Block]
  /\ buf \in [Proc -> Block \union {NoBuf}]
  /\ boot \in Booting

Logged(b) == \E k \in 1 .. Len(lh) : lh[k] = b

\* The calls counted in log.outstanding.
InOp == {p \in Proc : pc[p] \in {"op", "append", "panic"}}

CountInv == IsFiniteSet(InOp) /\ outstanding = Cardinality(InOp)

\* While one process commits, every other is outside begin_op() .. end_op();
\* nobody runs before recovery is over.
PhaseInv ==
  /\ \A p \in Proc : pc[p] \in Committer =>
       committing /\ \A q \in Proc : q # p => pc[q] \in {"run", "begin", "asleep"}
  /\ committing => \E p \in Proc : pc[p] \in Committer
  /\ boot # "up" => ~committing /\ \A p \in Proc : pc[p] = "run"

\* What a call has written is logged, but for the block in its hands.
WroteInv ==
  \A p \in Proc :
    /\ IsFiniteSet(wrote[p]) /\ Cardinality(wrote[p]) <= OpBlocks
    /\ pc[p] = "op" => \A b \in wrote[p] : Logged(b)
    /\ pc[p] = "append" => buf[p] \in wrote[p] /\ \A b \in wrote[p] : b = buf[p] \/ Logged(b)

\* The blocks the calls in progress may still add to the log: for a call
\* that wrote n blocks the numbers above n, and n itself while the last of
\* them is not logged yet.
Claims ==
  {c \in InOp \X (1 .. MAXOPBLOCKS) :
     \/ pc[c[1]] \in {"op", "append"} /\ c[2] > Cardinality(wrote[c[1]])
     \/ pc[c[1]] = "append" /\ ~Logged(buf[c[1]]) /\ c[2] = Cardinality(wrote[c[1]])}

SpaceInv == IsFiniteSet(Claims) /\ Len(lh) + Cardinality(Claims) <= LOGSIZE

\* What the two counts say, for the proofs that need no more of them.
CountedInv ==
  /\ outstanding = 0 <=> InOp = {}
  /\ outstanding = 1 => \A p, q \in InOp : p = q
  /\ Len(lh) <= LOGSIZE

\* The two lists of block numbers.
ListInv ==
  /\ \A j, k \in 1 .. Len(lh) : lh[j] = lh[k] => j = k
  /\ \A j, k \in 1 .. Len(hdr) : hdr[j] = hdr[k] => j = k
  /\ Len(hdr) <= LOGSIZE /\ \A k \in 1 .. Len(hdr) : slot[k] \in Val

\* When the header on disk names the log's blocks.
HdrInv ==
  /\ boot = "up" /\ (\A p \in Proc : pc[p] \notin {"install", "erase"}) => hdr = <<>>
  /\ \A p \in Proc : pc[p] \in {"install", "erase"} => hdr = lh
  /\ boot \in {"install", "erase"} => hdr = lh
  /\ boot = "readhead" \/ (\E p \in Proc : pc[p] = "done") => lh = <<>>
  /\ boot = "up" /\ outstanding = 0 /\ ~committing => lh = <<>>

\* The cache against the disk, block by block.
CacheInv ==
  /\ \A b \in Block :
       /\ b \in dirty => cache[b] # NoBuf /\ Logged(b)
       /\ InUse(b) => cache[b] # NoBuf
       /\ b \notin dirty /\ ~InUse(b) => cache[b] \in {NoBuf, disk[b]}
  /\ boot = "up" /\ (\A p \in Proc : pc[p] \notin {"install", "erase"})
       => \A k \in 1 .. Len(lh) : lh[k] \in dirty
  /\ boot # "up" => dirty = {}

\* How far the loops of write_log() and install_trans() have come.
CopyInv ==
  /\ \A p \in Proc :
       /\ pc[p] = "log" => tail <= Len(lh) /\ \A k \in 1 .. tail : slot[k] = Contents(lh[k])
       /\ pc[p] \in {"head", "install"} => \A k \in 1 .. Len(lh) : slot[k] = Contents(lh[k])
       /\ pc[p] = "install" =>
            /\ tail <= Len(lh)
            /\ \A k \in 1 .. Len(lh) : lh[k] \in dirty <=> k > tail
            /\ \A k \in 1 .. tail : disk[lh[k]] = slot[k]
       /\ pc[p] = "erase" => dirty = {} /\ \A k \in 1 .. Len(lh) : disk[lh[k]] = slot[k]
  /\ boot = "readhead" => tail = 0
  /\ boot = "install" => tail <= Len(lh) /\ \A k \in 1 .. tail : disk[lh[k]] = slot[k]
  /\ boot = "erase" => \A k \in 1 .. Len(lh) : disk[lh[k]] = slot[k]

IInv ==
  /\ TypeOK /\ CountInv /\ PhaseInv /\ WroteInv /\ SpaceInv /\ CountedInv
  /\ ListInv /\ HdrInv /\ CacheInv /\ CopyInv

-----------------------------------------------------------------------------
\* The actions of Log with an IF, split into their branches.
BeginSleep(p) ==
  /\ pc[p] = "begin" /\ (committing \/ NoSpace)
  /\ pc' = [pc EXCEPT ![p] = "asleep"]
  /\ UNCHANGED <<diskVars, memVars, buf, wrote, tail, boot>>

BeginTake(p) ==
  /\ pc[p] = "begin" /\ ~committing /\ ~NoSpace
  /\ pc' = [pc EXCEPT ![p] = "op"]
  /\ outstanding' = outstanding + 1
  /\ wrote' = [wrote EXCEPT ![p] = {}]
  /\ UNCHANGED <<diskVars, cache, dirty, lh, committing, buf, tail, boot>>

EndMore(p) ==
  /\ pc[p] = "op" /\ ~committing /\ outstanding # 1
  /\ pc' = [WakeLog(pc) EXCEPT ![p] = "run"]
  /\ outstanding' = outstanding - 1
  /\ wrote' = [wrote EXCEPT ![p] = {}]
  /\ tail' = 0
  /\ UNCHANGED <<diskVars, cache, dirty, lh, committing, buf, boot>>

EndLast(p) ==
  /\ pc[p] = "op" /\ ~committing /\ outstanding = 1
  /\ pc' = [pc EXCEPT ![p] = IF lh = <<>> THEN "done" ELSE "log"]
  /\ committing' = TRUE
  /\ outstanding' = 0
  /\ wrote' = [wrote EXCEPT ![p] = {}]
  /\ tail' = 0
  /\ UNCHANGED <<diskVars, cache, dirty, lh, buf, boot>>

WriteLogBlock(p) ==
  /\ pc[p] = "log" /\ tail < Len(lh)
  /\ slot' = [slot EXCEPT ![tail + 1] = Contents(lh[tail + 1])]
  /\ tail' = tail + 1
  /\ UNCHANGED <<disk, hdr, memVars, callVars, boot>>

WriteLogEnd(p) ==
  /\ pc[p] = "log" /\ ~(tail < Len(lh))
  /\ pc' = [pc EXCEPT ![p] = "head"]
  /\ UNCHANGED <<diskVars, memVars, buf, wrote, tail, boot>>

InstallBlock(p) ==
  /\ pc[p] = "install" /\ tail < Len(lh)
  /\ InstallTrans
  /\ UNCHANGED <<slot, hdr, lh, outstanding, committing, callVars, boot>>

InstallEnd(p) ==
  /\ pc[p] = "install" /\ ~(tail < Len(lh))
  /\ pc' = [pc EXCEPT ![p] = "erase"]
  /\ UNCHANGED <<diskVars, memVars, buf, wrote, tail, boot>>

RecoverBlock ==
  /\ boot = "install" /\ tail < Len(lh)
  /\ InstallTrans
  /\ UNCHANGED <<slot, hdr, lh, outstanding, committing, callVars, boot>>

RecoverEnd ==
  /\ boot = "install" /\ ~(tail < Len(lh))
  /\ boot' = "erase"
  /\ UNCHANGED <<diskVars, memVars, callVars, tail>>

\* Every step, branch by branch.
Branch(p) ==
  \/ Call(p) \/ BeginSleep(p) \/ BeginTake(p) \/ LogWrite(p) \/ EndMore(p) \/ EndLast(p)
  \/ WriteLogBlock(p) \/ WriteLogEnd(p) \/ WriteHead(p) \/ InstallBlock(p) \/ InstallEnd(p)
  \/ Erase(p) \/ CommitDone(p) \/ \E b \in Block, v \in Val : Modify(p, b, v)

Boots == Crash \/ ReadHead \/ RecoverBlock \/ RecoverEnd \/ RecoverErase

(* A step of Log is one of the branches: end_op() never finds another      *)
(* commit in progress.                                                     *)
LEMMA NextBranches ==
  ASSUME TypeOK, PhaseInv, Next
  PROVE  (\E p \in Proc : Branch(p)) \/ (\E b \in Block : Recycle(b)) \/ Boots
<1>. USE DEF Goto, diskVars, memVars, callVars
<1>1. ASSUME NEW p \in Proc, BeginOp(p) PROVE Branch(p)
  BY <1>1, Zenon DEF BeginOp, Branch, BeginSleep, BeginTake
<1>2. ASSUME NEW p \in Proc, EndOp(p) PROVE Branch(p)
  <2>1. ~committing
    BY <1>2, Zenon DEF EndOp, PhaseInv, Committer
  <2>2. outstanding = 1 => outstanding' = 0
    BY <1>2 DEF EndOp
  <2>q. QED  BY <1>2, <2>1, <2>2, Zenon DEF EndOp, Branch, EndMore, EndLast
<1>3. ASSUME NEW p \in Proc, WriteLog(p) PROVE Branch(p)
  BY <1>3, Zenon DEF WriteLog, Branch, WriteLogBlock, WriteLogEnd
<1>4. ASSUME NEW p \in Proc, Install(p) PROVE Branch(p)
  BY <1>4, Zenon DEF Install, Branch, InstallBlock, InstallEnd
<1>5. ASSUME RecoverInstall PROVE Boots
  BY <1>5, Zenon DEF RecoverInstall, Boots, RecoverBlock, RecoverEnd
<1>q. QED  BY <1>1, <1>2, <1>3, <1>4, <1>5, Zenon DEF Next, Step, Recover, Branch, Boots

(* A block always has contents.                                            *)
LEMMA ContentsType ==
  ASSUME TypeOK, NEW b \in Block
  PROVE  Contents(b) \in Val /\ Contents(b) # NoBuf
  BY LogAssumption, Zenon DEF TypeOK, Contents

(* A block of the log that install_trans() copies.                         *)
LEMMA InstallType ==
  ASSUME IInv, tail < Len(lh), hdr = lh
  PROVE  /\ tail + 1 \in 1 .. Len(lh) /\ tail + 1 \in 1 .. LOGSIZE
         /\ lh[tail + 1] \in Block /\ slot[tail + 1] \in Val
<1>1. tail + 1 \in 1 .. Len(lh) /\ Len(lh) \in Nat /\ Len(lh) <= LOGSIZE
  BY DEF IInv, TypeOK, ListInv
<1>q. QED  BY <1>1, LogAssumption DEF IInv, TypeOK, ListInv

(* The variables keep their types.                                         *)
LEMMA TypeStep ==
  ASSUME IInv, Next
  PROVE  TypeOK'
<1>. USE DEF Goto, diskVars, memVars, callVars, PC, Booting
<1>0. TypeOK /\ PhaseInv
  BY Zenon DEF IInv
<1>1. ASSUME NEW p \in Proc, Branch(p) PROVE TypeOK'
  <2>1. CASE Call(p) \/ BeginSleep(p) \/ WriteLogEnd(p) \/ InstallEnd(p)
    BY <1>0, <2>1, Zenon DEF TypeOK, Call, BeginSleep, WriteLogEnd, InstallEnd
  <2>2. CASE BeginTake(p)
    BY <1>0, <2>2 DEF TypeOK, BeginTake
  <2>3. CASE LogWrite(p)
    <3>1. buf[p] \in Block
      BY <1>0, <2>3, Zenon DEF LogWrite, IInv, WroteInv, TypeOK
    <3>q. QED  BY <1>0, <2>3, <3>1 DEF TypeOK, LogWrite
  <2>4. CASE EndMore(p)
    <3>1. outstanding' \in Nat
      <4>1. p \in InOp
        BY <2>4, Zenon DEF EndMore, InOp
      <4>2. outstanding # 0
        BY <4>1, Zenon DEF IInv, CountedInv
      <4>q. QED  BY <1>0, <2>4, <4>2 DEF TypeOK, EndMore
    <3>2. pc' \in [Proc -> PC]
      BY <1>0, <2>4, Zenon DEF TypeOK, EndMore, WakeLog
    <3>q. QED  BY <1>0, <2>4, <3>1, <3>2, Zenon DEF TypeOK, EndMore
  <2>5. CASE EndLast(p)
    BY <1>0, <2>5, Zenon DEF TypeOK, EndLast
  <2>6. CASE WriteLogBlock(p)
    <3>1. lh[tail + 1] \in Block
      BY <1>0, <2>6 DEF TypeOK, WriteLogBlock
    <3>2. Contents(lh[tail + 1]) \in Val
      BY <1>0, <3>1, ContentsType, Zenon
    <3>3. slot' \in [1 .. LOGSIZE -> Val \union {NoBuf}]
      BY <1>0, <2>6, <3>2, Zenon DEF TypeOK, WriteLogBlock
    <3>4. tail' \in Nat
      BY <1>0, <2>6 DEF TypeOK, WriteLogBlock
    <3>q. QED  BY <1>0, <2>6, <3>3, <3>4, Zenon DEF TypeOK, WriteLogBlock
  <2>7. CASE WriteHead(p)
    BY <1>0, <2>7, Zenon DEF TypeOK, WriteHead
  <2>8. CASE InstallBlock(p)
    <3>1. hdr = lh /\ tail < Len(lh)
      BY <2>8, Zenon DEF InstallBlock, IInv, HdrInv
    <3>2. lh[tail + 1] \in Block /\ slot[tail + 1] \in Val
      BY <3>1, InstallType, Zenon
    <3>q. QED  BY <1>0, <2>8, <3>2 DEF TypeOK, InstallBlock, InstallTrans
  <2>9. CASE Erase(p)
    BY <1>0, <2>9 DEF TypeOK, Erase
  <2>10. CASE CommitDone(p)
    BY <1>0, <2>10, Zenon DEF TypeOK, CommitDone, WakeLog
  <2>11. ASSUME NEW b \in Block, NEW v \in Val, Modify(p, b, v) PROVE TypeOK'
    BY <1>0, <2>11, Zenon DEF TypeOK, Modify
  <2>q. QED  BY <1>1, <2>1, <2>2, <2>3, <2>4, <2>5, <2>6, <2>7, <2>8, <2>9, <2>10, <2>11, Zenon DEF Branch
<1>2. ASSUME NEW b \in Block, Recycle(b) PROVE TypeOK'
  BY <1>0, <1>2, Zenon DEF TypeOK, Recycle
<1>3. CASE Boots
  <2>1. CASE Crash
    <3>1. lh' \in Seq(Block) /\ tail' \in Nat /\ outstanding' \in Nat
      BY <2>1 DEF Crash
    <3>q. QED  BY <1>0, <2>1, <3>1, Zenon DEF TypeOK, Crash
  <2>2. CASE ReadHead
    BY <1>0, <2>2, Zenon DEF TypeOK, ReadHead
  <2>3. CASE RecoverBlock
    <3>1. hdr = lh /\ tail < Len(lh)
      BY <2>3, Zenon DEF RecoverBlock, IInv, HdrInv
    <3>2. lh[tail + 1] \in Block /\ slot[tail + 1] \in Val
      BY <3>1, InstallType, Zenon
    <3>q. QED  BY <1>0, <2>3, <3>2 DEF TypeOK, RecoverBlock, InstallTrans
  <2>4. CASE RecoverEnd
    BY <1>0, <2>4, Zenon DEF TypeOK, RecoverEnd
  <2>5. CASE RecoverErase
    <3>1. <<>> \in Seq(Block)
      OBVIOUS
    <3>q. QED  BY <1>0, <2>5, <3>1, Zenon DEF TypeOK, RecoverErase
  <2>q. QED  BY <1>3, <2>1, <2>2, <2>3, <2>4, <2>5, Zenon DEF Boots
<1>q. QED  BY <1>0, <1>1, <1>2, <1>3, NextBranches, Zenon

(* The last call in progress is alone, so its commit is, too.              *)
LEMMA LastAlone ==
  ASSUME IInv, NEW p \in Proc, pc[p] = "op", outstanding = 1
  PROVE  InOp = {p}
<1>1. p \in InOp
  BY Zenon DEF InOp
<1>2. \A q \in InOp : q = p
  BY <1>1, Zenon DEF IInv, CountedInv
<1>q. QED  BY <1>1, <1>2, Zenon

(* One process commits at a time, and alone.                               *)
LEMMA PhaseStep ==
  ASSUME IInv, Next
  PROVE  PhaseInv'
<1>. USE DEF Goto, diskVars, memVars, callVars
<1>0. TypeOK /\ PhaseInv
  BY Zenon DEF IInv
<1>1. ASSUME pc' = pc, boot' = boot, committing' = committing PROVE PhaseInv'
  BY <1>0, <1>1, Zenon DEF PhaseInv
<1>2. ASSUME NEW p \in Proc, Branch(p) PROVE PhaseInv'
  <2>0. boot = "up"
    BY <1>0, <1>2, Zenon DEF PhaseInv, Branch, Call, BeginSleep, BeginTake, LogWrite, EndMore, EndLast,
       WriteLogBlock, WriteLogEnd, WriteHead, InstallBlock, InstallEnd, Erase, CommitDone, Modify
  <2>1. CASE Call(p) \/ BeginSleep(p)
    BY <1>0, <2>0, <2>1 DEF TypeOK, PhaseInv, Committer, Call, BeginSleep
  <2>2. CASE BeginTake(p)
    BY <1>0, <2>0, <2>2, Zenon DEF TypeOK, PhaseInv, Committer, BeginTake
  <2>3. CASE LogWrite(p) \/ \E b \in Block, v \in Val : Modify(p, b, v)
    <3>1. /\ pc[p] \in {"op", "append"} /\ pc'[p] \in {"op", "append", "panic"}
          /\ \A q \in Proc : q # p => pc'[q] = pc[q]
          /\ committing' = committing /\ boot' = boot
      BY <1>0, <2>3, Zenon DEF TypeOK, LogWrite, Modify
    <3>q. QED  BY <1>0, <2>0, <3>1, Zenon DEF PhaseInv, Committer
  <2>4. CASE EndMore(p)
    BY <1>0, <2>0, <2>4, Zenon DEF TypeOK, PhaseInv, Committer, EndMore, WakeLog
  <2>5. CASE EndLast(p)
    <3>1. \A q \in Proc : q # p => pc[q] \in {"run", "begin", "asleep"}
      <4>1. InOp = {p}
        BY <2>5, LastAlone, Zenon DEF EndLast
      <4>q. QED  BY <1>0, <2>5, <4>1, Zenon DEF InOp, PhaseInv, Committer, TypeOK, PC, EndLast
    <3>q. QED  BY <1>0, <2>0, <2>5, <3>1, Zenon DEF TypeOK, PhaseInv, Committer, EndLast
  <2>6. CASE WriteLogBlock(p) \/ InstallBlock(p)
    BY <1>1, <2>6, Zenon DEF WriteLogBlock, InstallBlock
  <2>7. CASE WriteLogEnd(p) \/ WriteHead(p) \/ InstallEnd(p) \/ Erase(p)
    BY <1>0, <2>0, <2>7 DEF TypeOK, PhaseInv, Committer, WriteLogEnd, WriteHead, InstallEnd, Erase
  <2>8. CASE CommitDone(p)
    BY <1>0, <2>0, <2>8, Zenon DEF TypeOK, PhaseInv, Committer, CommitDone, WakeLog
  <2>q. QED  BY <1>2, <2>1, <2>2, <2>3, <2>4, <2>5, <2>6, <2>7, <2>8, ZenonT(60) DEF Branch
<1>3. CASE \E b \in Block : Recycle(b)
  BY <1>1, <1>3, Zenon DEF Recycle
<1>4. CASE Boots
  <2>1. CASE Crash
    <3>1. committing' = FALSE /\ \A q \in Proc : pc'[q] = "run"
      BY <2>1, Zenon DEF Crash
    <3>q. QED  BY <3>1, Zenon DEF PhaseInv, Committer
  <2>2. CASE ReadHead \/ RecoverBlock \/ RecoverEnd \/ RecoverErase
    <3>1. boot # "up" /\ pc' = pc /\ committing' = committing
      BY <2>2, Zenon DEF ReadHead, RecoverBlock, RecoverEnd, RecoverErase
    <3>q. QED  BY <1>0, <3>1, Zenon DEF PhaseInv, Committer
  <2>q. QED  BY <1>4, <2>1, <2>2, Zenon DEF Boots
<1>q. QED  BY <1>0, <1>2, <1>3, <1>4, NextBranches, Zenon

(* While a call is in progress nobody commits.                             *)
LEMMA NoCommit ==
  ASSUME IInv, NEW p \in Proc, pc[p] \in {"op", "append"}
  PROVE  /\ boot = "up" /\ ~committing /\ outstanding \in Nat /\ outstanding # 0
         /\ \A q \in Proc : pc[q] \notin Committer
<1>1. boot = "up" /\ ~committing /\ \A q \in Proc : pc[q] \notin Committer
  BY Zenon DEF IInv, PhaseInv, Committer
<1>2. p \in InOp
  BY Zenon DEF InOp
<1>3. outstanding # 0
  BY <1>2, Zenon DEF IInv, CountedInv
<1>q. QED  BY <1>1, <1>3, Zenon DEF IInv, TypeOK

(* While a process commits no call is in progress and no buffer is used.   *)
LEMMA CommitAlone ==
  ASSUME IInv, NEW p \in Proc, pc[p] \in Committer
  PROVE  /\ boot = "up" /\ committing /\ outstanding = 0
         /\ \A q \in Proc : q # p => pc[q] \in {"run", "begin", "asleep"}
         /\ \A b : ~InUse(b)
<1>1. /\ boot = "up" /\ committing
      /\ \A q \in Proc : q # p => pc[q] \in {"run", "begin", "asleep"}
  BY Zenon DEF IInv, PhaseInv, Committer
<1>2. InOp = {}
  BY <1>1, Zenon DEF InOp, Committer
<1>3. outstanding = 0
  BY <1>2, Zenon DEF IInv, CountedInv
<1>4. \A b : ~InUse(b)
  BY <1>1, Zenon DEF InUse, Committer
<1>q. QED  BY <1>1, <1>3, <1>4, Zenon

(* While the machine boots no process runs.                                *)
LEMMA BootAlone ==
  ASSUME IInv, boot # "up"
  PROVE  ~committing /\ outstanding = 0 /\ (\A q \in Proc : pc[q] = "run") /\ \A b : ~InUse(b)
<1>1. ~committing /\ \A q \in Proc : pc[q] = "run"
  BY Zenon DEF IInv, PhaseInv
<1>2. InOp = {}
  BY <1>1, Zenon DEF InOp
<1>3. outstanding = 0
  BY <1>2, Zenon DEF IInv, CountedInv
<1>q. QED  BY <1>1, <1>3, Zenon DEF InUse

(* What log_write() makes of the list of blocks.                           *)
LEMMA LogWriteList ==
  ASSUME IInv, NEW p \in Proc, LogWrite(p)
  PROVE  /\ pc[p] = "append" /\ buf[p] \in Block
         /\ \/ Logged(buf[p]) /\ lh' = lh
            \/ /\ ~Logged(buf[p]) /\ Len(lh') = Len(lh) + 1
               /\ \A k \in 1 .. Len(lh) : lh'[k] = lh[k]
               /\ lh'[Len(lh) + 1] = buf[p]
         /\ \A b : Logged(b)' <=> Logged(b) \/ b = buf[p]
<1>0. TypeOK /\ WroteInv
  BY Zenon DEF IInv
<1>1. pc[p] = "append" /\ buf[p] \in Block /\ lh \in Seq(Block)
  BY <1>0, Zenon DEF LogWrite, WroteInv, TypeOK
<1>2. CASE Logged(buf[p])
  <2>1. lh' = lh
    BY <1>2, Zenon DEF LogWrite, Logged
  <2>q. QED  BY <1>1, <1>2, <2>1, Zenon DEF Logged
<1>3. CASE ~Logged(buf[p])
  <2>1. lh' = Append(lh, buf[p])
    BY <1>3, Zenon DEF LogWrite, Logged
  <2>2. /\ Len(lh') = Len(lh) + 1 /\ Len(lh) \in Nat
        /\ \A k \in 1 .. Len(lh) : lh'[k] = lh[k]
        /\ lh'[Len(lh) + 1] = buf[p]
    BY <1>1, <2>1
  <2>3. \A b : Logged(b)' <=> Logged(b) \/ b = buf[p]
    BY <2>2 DEF Logged
  <2>q. QED  BY <1>1, <1>3, <2>2, <2>3, Zenon
<1>q. QED  BY <1>2, <1>3, Zenon

(* Neither list names a block twice, and the header on disk names only     *)
(* blocks that were copied to the log.                                     *)
LEMMA ListStep ==
  ASSUME IInv, Next
  PROVE  ListInv'
<1>. USE DEF Goto, diskVars, memVars, callVars
<1>0. TypeOK /\ PhaseInv /\ ListInv /\ HdrInv /\ CopyInv /\ SpaceInv
  BY Zenon DEF IInv
<1>a. Len(lh) \in Nat /\ Len(hdr) \in Nat /\ LOGSIZE \in Nat
  BY <1>0, LogAssumption DEF TypeOK
<1>1. ASSUME lh' = lh, hdr' = hdr, slot' = slot PROVE ListInv'
  BY <1>0, <1>1, Zenon DEF ListInv
<1>2. ASSUME NEW p \in Proc, Branch(p) PROVE ListInv'
  <2>1. CASE \/ Call(p) \/ BeginSleep(p) \/ BeginTake(p) \/ EndMore(p) \/ EndLast(p)
             \/ WriteLogEnd(p) \/ InstallEnd(p) \/ CommitDone(p) \/ InstallBlock(p)
             \/ \E b \in Block, v \in Val : Modify(p, b, v)
    BY <1>1, <2>1, Zenon DEF Call, BeginSleep, BeginTake, EndMore, EndLast, WriteLogEnd, InstallEnd,
       CommitDone, InstallBlock, Modify
  <2>2. CASE LogWrite(p)
    <3>1. hdr' = hdr /\ slot' = slot
      BY <2>2, Zenon DEF LogWrite
    <3>2. \A j, k \in 1 .. Len(lh') : lh'[j] = lh'[k] => j = k
      <4>0. \A j, k \in 1 .. Len(lh) : lh[j] = lh[k] => j = k
        BY <1>0, Zenon DEF ListInv
      <4>1. CASE lh' = lh
        BY <4>0, <4>1, Zenon
      <4>2. ASSUME ~Logged(buf[p]), Len(lh') = Len(lh) + 1,
                   \A k \in 1 .. Len(lh) : lh'[k] = lh[k], lh'[Len(lh) + 1] = buf[p]
            PROVE  \A j, k \in 1 .. Len(lh') : lh'[j] = lh'[k] => j = k
        <5>1. \A k \in 1 .. Len(lh) : lh[k] # buf[p]
          BY <4>2, Zenon DEF Logged
        <5>2. \A k \in 1 .. Len(lh') : k \in 1 .. Len(lh) \/ k = Len(lh) + 1
          BY <1>a, <4>2
        <5>q. QED  BY <4>0, <4>2, <5>1, <5>2, Zenon
      <4>q. QED  BY <2>2, <4>1, <4>2, LogWriteList, Zenon
    <3>q. QED  BY <1>0, <3>1, <3>2, Zenon DEF ListInv
  <2>3. CASE WriteLogBlock(p)
    <3>1. hdr = <<>>
      <4>1. pc[p] = "log" /\ boot = "up" /\ \A q \in Proc : q # p => pc[q] \in {"run", "begin", "asleep"}
        BY <2>3, CommitAlone, Zenon DEF Committer, WriteLogBlock
      <4>q. QED  BY <1>0, <4>1, Zenon DEF HdrInv
    <3>2. lh' = lh /\ hdr' = hdr
      BY <2>3, Zenon DEF WriteLogBlock
    <3>3. Len(hdr') = 0 /\ 1 .. Len(hdr') = {}
      BY <3>1, <3>2
    <3>4. \A j, k \in 1 .. Len(lh') : lh'[j] = lh'[k] => j = k
      BY <1>0, <3>2, Zenon DEF ListInv
    <3>q. QED  BY <1>a, <3>3, <3>4 DEF ListInv
  <2>4. CASE WriteHead(p)
    <3>1. hdr' = lh /\ lh' = lh /\ slot' = slot /\ pc[p] = "head"
      BY <2>4, Zenon DEF WriteHead
    <3>2. \A k \in 1 .. Len(lh) : lh[k] \in Block /\ slot[k] = Contents(lh[k])
      BY <1>0, <3>1 DEF CopyInv, TypeOK
    <3>3. \A b \in Block : Contents(b) \in Val
      BY <1>0, ContentsType, Zenon
    <3>4. Len(lh) <= LOGSIZE
      BY Zenon DEF IInv, CountedInv
    <3>5. \A k \in 1 .. Len(lh) : slot[k] \in Val
      BY <3>2, <3>3, Zenon
    <3>q. QED  BY <1>0, <3>1, <3>4, <3>5, Zenon DEF ListInv
  <2>5. CASE Erase(p)
    BY <1>a, <2>5 DEF ListInv, Erase
  <2>q. QED  BY <1>2, <2>1, <2>2, <2>3, <2>4, <2>5, Zenon DEF Branch
<1>3. CASE \E b \in Block : Recycle(b)
  BY <1>1, <1>3, Zenon DEF Recycle
<1>4. CASE Boots
  <2>1. CASE Crash
    BY <1>0, <1>a, <2>1, SMTT(60) DEF ListInv, Crash
  <2>2. CASE ReadHead
    BY <1>0, <1>a, <2>2, Zenon DEF ListInv, ReadHead
  <2>3. CASE RecoverBlock \/ RecoverEnd
    BY <1>1, <2>3, Zenon DEF RecoverBlock, RecoverEnd
  <2>4. CASE RecoverErase
    BY <1>a, <2>4 DEF ListInv, RecoverErase
  <2>q. QED  BY <1>4, <2>1, <2>2, <2>3, <2>4, Zenon DEF Boots
<1>q. QED  BY <1>0, <1>2, <1>3, <1>4, NextBranches, Zenon

(* The header on disk names blocks only from its write to its erasure.     *)
LEMMA HdrStep ==
  ASSUME IInv, Next
  PROVE  HdrInv'
<1>. USE DEF Goto, diskVars, memVars, callVars
<1>0. TypeOK /\ PhaseInv /\ HdrInv
  BY Zenon DEF IInv
<1>1. ASSUME lh' = lh, hdr' = hdr, boot' = boot,
             outstanding' = 0 /\ ~committing' => outstanding = 0 /\ ~committing,
             \A q \in Proc : pc'[q] \in {"install", "erase"} <=> pc[q] \in {"install", "erase"},
             \A q \in Proc : pc'[q] = "done" => pc[q] = "done" \/ lh = <<>>
      PROVE  HdrInv'
  BY <1>0, <1>1, Zenon DEF HdrInv
<1>2. ASSUME NEW p \in Proc, Branch(p) PROVE HdrInv'
  <2>1. CASE Call(p) \/ BeginSleep(p) \/ WriteLogBlock(p) \/ WriteLogEnd(p)
    <3>1. lh' = lh /\ hdr' = hdr /\ boot' = boot /\ outstanding' = outstanding /\ committing' = committing
      BY <2>1, Zenon DEF Call, BeginSleep, WriteLogBlock, WriteLogEnd
    <3>2. \A q \in Proc : pc'[q] \in {"install", "erase", "done"} \/ pc[q] \in {"install", "erase", "done"}
                            => pc'[q] = pc[q]
      BY <1>0, <2>1, Zenon DEF TypeOK, Call, BeginSleep, WriteLogBlock, WriteLogEnd
    <3>q. QED  BY <1>1, <3>1, <3>2, Zenon
  <2>2. CASE InstallBlock(p) \/ InstallEnd(p)
    <3>1. lh' = lh /\ hdr' = hdr /\ boot' = boot /\ outstanding' = outstanding /\ committing' = committing
      BY <2>2, Zenon DEF InstallBlock, InstallEnd
    <3>2. \A q \in Proc : /\ pc'[q] \in {"install", "erase"} <=> pc[q] \in {"install", "erase"}
                          /\ pc'[q] = "done" => pc[q] = "done"
      BY <1>0, <2>2, Zenon DEF TypeOK, InstallBlock, InstallEnd
    <3>q. QED  BY <1>1, <3>1, <3>2, Zenon
  <2>3. CASE BeginTake(p) \/ EndMore(p) \/ \E b \in Block, v \in Val : Modify(p, b, v)
    <3>1. lh' = lh /\ hdr' = hdr /\ boot' = boot
      BY <2>3, Zenon DEF BeginTake, EndMore, Modify
    <3>2. outstanding' # 0
      BY <1>0, <2>3, NoCommit, SMTT(60) DEF TypeOK, BeginTake, EndMore, Modify
    <3>3. \A q \in Proc : pc'[q] \in {"install", "erase", "done"} \/ pc[q] \in {"install", "erase", "done"}
                            => pc'[q] = pc[q]
      BY <1>0, <2>3, Zenon DEF TypeOK, BeginTake, EndMore, Modify, WakeLog
    <3>q. QED  BY <1>1, <3>1, <3>2, <3>3, Zenon
  <2>4. CASE LogWrite(p)
    <3>1. /\ boot = "up" /\ outstanding # 0 /\ \A q \in Proc : pc[q] \notin Committer
      BY <2>4, NoCommit, Zenon DEF LogWrite
    <3>2. /\ hdr' = hdr /\ boot' = boot /\ outstanding' = outstanding
          /\ \A q \in Proc : pc'[q] = pc[q] \/ pc'[q] = "op"
      BY <1>0, <2>4, Zenon DEF LogWrite, TypeOK
    <3>q. QED  BY <1>0, <3>1, <3>2, Zenon DEF HdrInv, Committer
  <2>5. CASE EndLast(p)
    <3>1. lh' = lh /\ hdr' = hdr /\ boot' = boot /\ committing'
      BY <2>5, Zenon DEF EndLast
    <3>2. \A q \in Proc : /\ pc'[q] \in {"install", "erase"} <=> pc[q] \in {"install", "erase"}
                          /\ pc'[q] = "done" => pc[q] = "done" \/ lh = <<>>
      BY <1>0, <2>5, Zenon DEF TypeOK, EndLast
    <3>q. QED  BY <1>1, <3>1, <3>2, Zenon
  <2>6. CASE WriteHead(p)
    <3>1. /\ boot = "up" /\ committing /\ pc[p] = "head"
          /\ \A q \in Proc : q # p => pc[q] \in {"run", "begin", "asleep"}
      BY <2>6, CommitAlone, Zenon DEF WriteHead, Committer
    <3>2. /\ boot' = boot /\ committing' = committing /\ hdr' = lh /\ lh' = lh /\ pc'[p] = "install"
          /\ \A q \in Proc : q # p => pc'[q] = pc[q]
      BY <1>0, <2>6, Zenon DEF WriteHead, TypeOK
    <3>q. QED  BY <3>1, <3>2, Zenon DEF HdrInv
  <2>7. CASE Erase(p)
    BY <2>7, Zenon DEF HdrInv, Erase
  <2>8. CASE CommitDone(p)
    <3>1. /\ boot = "up" /\ pc[p] = "done"
          /\ \A q \in Proc : q # p => pc[q] \in {"run", "begin", "asleep"}
      BY <2>8, CommitAlone, Zenon DEF CommitDone, Committer
    <3>2. /\ boot' = boot /\ hdr' = hdr /\ lh' = lh
          /\ \A q \in Proc : pc'[q] \in {"run", "begin"}
      BY <1>0, <2>8, <3>1, Zenon DEF CommitDone, TypeOK, WakeLog
    <3>3. lh = <<>> /\ hdr = <<>>
      BY <1>0, <3>1, Zenon DEF HdrInv
    <3>q. QED  BY <3>1, <3>2, <3>3, Zenon DEF HdrInv
  <2>q. QED  BY <1>2, <2>1, <2>2, <2>3, <2>4, <2>5, <2>6, <2>7, <2>8, Zenon DEF Branch
<1>3. CASE \E b \in Block : Recycle(b)
  BY <1>1, <1>3 DEF Recycle
<1>4. CASE Boots
  <2>1. CASE Crash
    BY <2>1, Zenon DEF HdrInv, Crash
  <2>2. CASE ReadHead \/ RecoverBlock \/ RecoverEnd
    <3>1. boot' \in {"install", "erase"} /\ lh' = hdr /\ hdr' = hdr /\ pc' = pc /\ \A q \in Proc : pc[q] = "run"
      BY <1>0, <2>2, BootAlone, Zenon DEF HdrInv, ReadHead, RecoverBlock, RecoverEnd
    <3>q. QED  BY <3>1, Zenon DEF HdrInv
  <2>3. CASE RecoverErase
    BY <2>3, Zenon DEF HdrInv, RecoverErase
  <2>q. QED  BY <1>4, <2>1, <2>2, <2>3, Zenon DEF Boots
<1>q. QED  BY <1>0, <1>2, <1>3, <1>4, NextBranches, Zenon

(* One turn of install_trans() changes one block, the next of the list.    *)
LEMMA InstallEffect ==
  ASSUME IInv, tail < Len(lh), InstallTrans
  PROVE  /\ tail \in Nat /\ Len(lh) \in Nat /\ tail + 1 \in 1 .. Len(lh) /\ tail' = tail + 1
         /\ lh[tail + 1] \in Block /\ dirty' = dirty \ {lh[tail + 1]}
         /\ disk'[lh[tail + 1]] = slot[tail + 1] /\ cache'[lh[tail + 1]] = slot[tail + 1]
         /\ \A c \in Block : c # lh[tail + 1] => disk'[c] = disk[c] /\ cache'[c] = cache[c]
         /\ \A k \in 1 .. Len(lh) : lh[k] \in Block /\ (lh[k] = lh[tail + 1] => k = tail + 1)
<1>0. TypeOK /\ ListInv
  BY Zenon DEF IInv
<1>1. tail \in Nat /\ Len(lh) \in Nat /\ tail + 1 \in 1 .. Len(lh)
  BY <1>0, SMTT(60) DEF TypeOK
<1>2. \A k \in 1 .. Len(lh) : lh[k] \in Block /\ (lh[k] = lh[tail + 1] => k = tail + 1)
  BY <1>0, <1>1 DEF TypeOK, ListInv
<1>q. QED  BY <1>0, <1>1, <1>2, Zenon DEF TypeOK, InstallTrans

(* What the buffer cache may hold of a block.                              *)
LEMMA CacheStep ==
  ASSUME IInv, Next
  PROVE  CacheInv'
<1>. USE DEF Goto, diskVars, memVars, callVars
<1>0. TypeOK /\ PhaseInv /\ CacheInv
  BY Zenon DEF IInv
<1>1. ASSUME cache' = cache, dirty' = dirty, lh' = lh, disk' = disk, boot' = boot, buf' = buf,
             \A q \in Proc : pc'[q] \in {"append", "panic"} <=> pc[q] \in {"append", "panic"},
             \A q \in Proc : pc[q] \in {"install", "erase"} => pc'[q] \in {"install", "erase"}
      PROVE  CacheInv'
  <2>1. \A b : (InUse(b)' <=> InUse(b)) /\ (Logged(b)' <=> Logged(b))
    BY <1>1, Zenon DEF InUse, Logged
  <2>q. QED  BY <1>0, <1>1, <2>1, Zenon DEF CacheInv
<1>2. ASSUME NEW p \in Proc, Branch(p) PROVE CacheInv'
  <2>1. CASE \/ Call(p) \/ BeginSleep(p) \/ BeginTake(p) \/ EndLast(p)
             \/ WriteLogEnd(p) \/ WriteHead(p) \/ InstallEnd(p)
    <3>1. cache' = cache /\ dirty' = dirty /\ lh' = lh /\ disk' = disk /\ boot' = boot /\ buf' = buf
      BY <2>1, Zenon DEF Call, BeginSleep, BeginTake, EndLast, WriteLogEnd, WriteHead, InstallEnd
    <3>2. \A q \in Proc : /\ pc'[q] \in {"append", "panic"} <=> pc[q] \in {"append", "panic"}
                          /\ pc[q] \in {"install", "erase"} => pc'[q] \in {"install", "erase"}
      BY <1>0, <2>1, Zenon DEF TypeOK, Call, BeginSleep, BeginTake, EndLast, WriteLogEnd, WriteHead, InstallEnd
    <3>q. QED  BY <1>1, <3>1, <3>2, Zenon
  <2>2. CASE EndMore(p) \/ CommitDone(p) \/ WriteLogBlock(p)
    <3>1. cache' = cache /\ dirty' = dirty /\ lh' = lh /\ disk' = disk /\ boot' = boot /\ buf' = buf
      BY <2>2, Zenon DEF EndMore, CommitDone, WriteLogBlock
    <3>2. \A q \in Proc : /\ pc'[q] \in {"append", "panic"} <=> pc[q] \in {"append", "panic"}
                          /\ pc[q] \in {"install", "erase"} => pc'[q] \in {"install", "erase"}
      BY <1>0, <2>2, Zenon DEF TypeOK, EndMore, CommitDone, WriteLogBlock, WakeLog
    <3>q. QED  BY <1>1, <3>1, <3>2, Zenon
  <2>3. ASSUME NEW b \in Block, NEW v \in Val, Modify(p, b, v) PROVE CacheInv'
    <3>1. /\ pc[p] = "op" /\ buf'[p] = b /\ pc'[p] \in {"append", "panic"}
          /\ \A q \in Proc : q # p => pc'[q] = pc[q] /\ buf'[q] = buf[q]
          /\ cache'[b] = v /\ \A c \in Block : c # b => cache'[c] = cache[c]
      BY <1>0, <2>3, Zenon DEF TypeOK, Modify
    <3>2. dirty' = dirty /\ lh' = lh /\ disk' = disk /\ boot' = boot
      BY <2>3, Zenon DEF Modify
    <3>3. InUse(b)' /\ \A c : c # b => (InUse(c)' <=> InUse(c))
      BY <3>1, Zenon DEF InUse
    <3>4. \A c : Logged(c)' <=> Logged(c)
      BY <3>2, Zenon DEF Logged
    <3>5. boot = "up" /\ \A q \in Proc : pc[q] \notin {"install", "erase"}
      BY <3>1, NoCommit, Zenon DEF Committer
    <3>6. v # NoBuf
      BY LogAssumption, Zenon
    <3>q. QED  BY <1>0, <3>1, <3>2, <3>3, <3>4, <3>5, <3>6, Zenon DEF CacheInv
  <2>4. CASE LogWrite(p)
    <3>1. /\ pc[p] = "append" /\ pc'[p] = "op"
          /\ \A q \in Proc : q # p => pc'[q] = pc[q] /\ buf'[q] = buf[q]
          /\ dirty' = dirty \union {buf[p]}
          /\ cache' = cache /\ disk' = disk /\ boot' = boot
      BY <1>0, <2>4, Zenon DEF TypeOK, LogWrite
    <3>2. InUse(buf[p]) /\ \A c : (InUse(c)' => InUse(c)) /\ (c # buf[p] => (InUse(c)' <=> InUse(c)))
      BY <3>1, Zenon DEF InUse
    <3>3. buf[p] \in Block /\ \A c : Logged(c)' <=> Logged(c) \/ c = buf[p]
      BY <2>4, LogWriteList, Zenon
    <3>4. boot = "up" /\ \A q \in Proc : pc[q] \notin {"install", "erase"}
      BY <3>1, NoCommit, Zenon DEF Committer
    <3>5. \A c : Logged(c) => c \in dirty
      BY <1>0, <3>4, Zenon DEF CacheInv, Logged
    <3>6. \A c : Logged(c)' => c \in dirty'
      BY <3>1, <3>3, <3>5, Zenon
    <3>7. \A k \in 1 .. Len(lh') : lh'[k] \in dirty'
      BY <3>6, Zenon DEF Logged
    <3>8. \A c \in Block : /\ c \in dirty' => cache'[c] # NoBuf /\ Logged(c)'
                           /\ InUse(c)' => cache'[c] # NoBuf
                           /\ c \notin dirty' /\ ~InUse(c)' => cache'[c] \in {NoBuf, disk'[c]}
      BY <1>0, <3>1, <3>2, <3>3, Zenon DEF CacheInv
    <3>q. QED  BY <3>1, <3>4, <3>7, <3>8, Zenon DEF CacheInv
  <2>5. CASE InstallBlock(p)
    <3>1. pc[p] = "install" /\ pc' = pc /\ buf' = buf /\ lh' = lh /\ boot' = boot
      BY <2>5, Zenon DEF InstallBlock
    <3>2. boot = "up" /\ \A b : ~InUse(b)
      BY <3>1, CommitAlone, Zenon DEF Committer
    <3>3. \A b : ~InUse(b)' /\ (Logged(b)' <=> Logged(b))
      BY <3>1, <3>2, Zenon DEF InUse, Logged
    <3>q. QED  BY <1>0, <2>5, <3>1, <3>2, <3>3, InstallEffect, Zenon DEF CacheInv, InstallBlock
  <2>6. CASE Erase(p)
    <3>1. dirty = {} /\ dirty' = dirty /\ lh' = <<>> /\ cache' = cache /\ disk' = disk /\ boot' = boot
      BY <2>6, Zenon DEF Erase, IInv, CopyInv
    <3>2. boot = "up" /\ \A b : ~InUse(b)
      BY <2>6, CommitAlone, Zenon DEF Committer, Erase
    <3>3. \A b : ~InUse(b)'
      BY <1>0, <2>6, <3>2, Zenon DEF InUse, Erase, TypeOK
    <3>4. \A b \in Block : /\ b \notin dirty' /\ ~InUse(b)'
                           /\ cache'[b] \in {NoBuf, disk'[b]}
      BY <1>0, <3>1, <3>2, <3>3, Zenon DEF CacheInv
    <3>5. \A k \in 1 .. Len(lh') : FALSE
      BY <3>1, SMTT(60)
    <3>q. QED  BY <3>1, <3>2, <3>4, <3>5, Zenon DEF CacheInv
  <2>q. QED  BY <1>2, <2>1, <2>2, <2>3, <2>4, <2>5, <2>6, ZenonT(60) DEF Branch
<1>3. ASSUME NEW b \in Block, Recycle(b) PROVE CacheInv'
  <2>1. /\ b \notin dirty /\ ~InUse(b) /\ cache'[b] = NoBuf /\ \A c \in Block : c # b => cache'[c] = cache[c]
        /\ disk' = disk /\ dirty' = dirty /\ boot' = boot /\ lh' = lh /\ pc' = pc /\ buf' = buf
    BY <1>0, <1>3, Zenon DEF TypeOK, Recycle
  <2>2. \A c : (InUse(c)' <=> InUse(c)) /\ (Logged(c)' <=> Logged(c))
    BY <2>1, Zenon DEF InUse, Logged
  <2>q. QED  BY <1>0, <2>1, <2>2, Zenon DEF CacheInv
<1>4. CASE Boots
  <2>1. CASE Crash
    <3>1. /\ \A c \in Block : cache'[c] = NoBuf
          /\ dirty' = {} /\ boot' = "readhead" /\ \A q \in Proc : pc'[q] = "run"
      BY <2>1, Zenon DEF Crash
    <3>2. \A c : ~InUse(c)'
      BY <3>1, Zenon DEF InUse
    <3>q. QED  BY <3>1, <3>2, Zenon DEF CacheInv
  <2>2. ASSUME boot # "up", dirty' = {}, pc' = pc, boot' # "up" \/ lh' = <<>>,
               \A c \in Block : (cache'[c] = cache[c] /\ disk'[c] = disk[c]) \/ cache'[c] = disk'[c]
        PROVE  CacheInv'
    <3>1. dirty = {} /\ \A c : ~InUse(c)
      BY <1>0, <2>2, BootAlone, Zenon DEF CacheInv
    <3>2. \A c : ~InUse(c)'
      BY <2>2, BootAlone, Zenon DEF InUse
    <3>q. QED  BY <1>0, <2>2, <3>1, <3>2, SMTT(60) DEF CacheInv
  <2>3. dirty = {} \/ boot = "up"
    BY <1>0, Zenon DEF CacheInv
  <2>4. CASE ReadHead \/ RecoverEnd \/ RecoverErase
    <3>1. boot # "up" /\ dirty' = dirty /\ pc' = pc /\ cache' = cache /\ disk' = disk /\ (boot' # "up" \/ lh' = <<>>)
      BY <2>4, Zenon DEF ReadHead, RecoverEnd, RecoverErase
    <3>q. QED  BY <2>2, <2>3, <3>1, Zenon
  <2>5. CASE RecoverBlock
    <3>1. boot # "up" /\ boot' = boot /\ pc' = pc
      BY <2>5, Zenon DEF RecoverBlock
    <3>2. /\ dirty' = dirty \ {lh[tail + 1]}
          /\ \A c \in Block : (cache'[c] = cache[c] /\ disk'[c] = disk[c]) \/ cache'[c] = disk'[c]
      BY <2>5, InstallEffect, Zenon DEF RecoverBlock
    <3>q. QED  BY <2>2, <2>3, <3>1, <3>2, Zenon
  <2>q. QED  BY <1>4, <2>1, <2>4, <2>5, Zenon DEF Boots
<1>q. QED  BY <1>0, <1>2, <1>3, <1>4, NextBranches, Zenon

(* How far the loops of a commit and of a recovery have come.              *)
LEMMA CopyStep ==
  ASSUME IInv, Next
  PROVE  CopyInv'
<1>. USE DEF Goto, diskVars, memVars, callVars
<1>0. TypeOK /\ PhaseInv /\ CacheInv /\ CopyInv
  BY Zenon DEF IInv
<1>a. tail \in Nat /\ Len(lh) \in Nat /\ \A k \in 1 .. Len(lh) : lh[k] \in Block
  BY <1>0 DEF TypeOK
<1>1. ASSUME boot' = "up", \A q \in Proc : pc'[q] \notin {"log", "head", "install", "erase"}
      PROVE  CopyInv'
  BY <1>1, Zenon DEF CopyInv
<1>2. ASSUME disk' = disk, slot' = slot, lh' = lh, dirty' = dirty, tail' = tail, boot' = boot,
             \A c \in Block : Contents(c)' = Contents(c),
             \A q \in Proc : pc'[q] \in {"log", "head", "install", "erase"} => pc'[q] = pc[q]
      PROVE  CopyInv'
  <2>1. \A k \in 1 .. Len(lh) : Contents(lh[k])' = Contents(lh[k])
    BY <1>a, <1>2, Zenon
  <2>q. QED  BY <1>0, <1>a, <1>2, <2>1 DEF CopyInv
<1>3. ASSUME NEW p \in Proc, Branch(p) PROVE CopyInv'
  <2>1. CASE Call(p) \/ BeginSleep(p)
    <3>1. /\ disk' = disk /\ slot' = slot /\ lh' = lh /\ dirty' = dirty /\ tail' = tail /\ boot' = boot
          /\ cache' = cache
      BY <2>1, Zenon DEF Call, BeginSleep
    <3>2. \A c \in Block : Contents(c)' = Contents(c)
      BY <3>1, Zenon DEF Contents
    <3>3. \A q \in Proc : pc'[q] \in {"log", "head", "install", "erase"} => pc'[q] = pc[q]
      BY <1>0, <2>1, Zenon DEF TypeOK, Call, BeginSleep
    <3>q. QED  BY <1>2, <3>1, <3>2, <3>3, Zenon
  <2>2. CASE BeginTake(p)
    <3>1. boot = "up" /\ \A q \in Proc : pc[q] \notin Committer
      BY <1>0, <2>2, Zenon DEF PhaseInv, BeginTake
    <3>2. boot' = boot /\ \A q \in Proc : pc'[q] = pc[q] \/ pc'[q] = "op"
      BY <1>0, <2>2, Zenon DEF TypeOK, BeginTake
    <3>q. QED  BY <1>1, <3>1, <3>2, Zenon DEF Committer
  <2>3. CASE LogWrite(p) \/ EndMore(p) \/ \E b \in Block, v \in Val : Modify(p, b, v)
    <3>1. boot = "up" /\ \A q \in Proc : pc[q] \notin Committer
      BY <2>3, NoCommit, Zenon DEF LogWrite, EndMore, Modify
    <3>2. boot' = boot /\ \A q \in Proc : pc'[q] = pc[q] \/ pc'[q] \in {"op", "run", "begin", "append", "panic"}
      BY <1>0, <2>3, Zenon DEF TypeOK, LogWrite, EndMore, Modify, WakeLog
    <3>q. QED  BY <1>1, <3>1, <3>2, Zenon DEF Committer
  <2>4. CASE CommitDone(p) \/ Erase(p)
    <3>1. boot = "up" /\ \A q \in Proc : q # p => pc[q] \in {"run", "begin", "asleep"}
      BY <2>4, CommitAlone, Zenon DEF CommitDone, Erase, Committer
    <3>2. boot' = boot /\ \A q \in Proc : pc'[q] \in {"run", "begin", "asleep", "done"}
      BY <1>0, <2>4, <3>1, Zenon DEF TypeOK, CommitDone, Erase, WakeLog
    <3>q. QED  BY <1>1, <3>1, <3>2, Zenon
  <2>5. CASE EndLast(p)
    <3>1. boot = "up" /\ \A q \in Proc : pc[q] \notin Committer
      BY <2>5, NoCommit, Zenon DEF EndLast
    <3>2. /\ boot' = boot /\ tail' = 0 /\ lh' = lh
          /\ \A q \in Proc : pc'[q] = pc[q] \/ pc'[q] \in {"log", "done"}
      BY <1>0, <2>5, Zenon DEF TypeOK, EndLast
    <3>q. QED  BY <1>a, <3>1, <3>2 DEF CopyInv, Committer
  <2>6. CASE WriteLogBlock(p)
    <3>1. boot = "up" /\ pc[p] = "log" /\ \A q \in Proc : q # p => pc[q] \in {"run", "begin", "asleep"}
      BY <2>6, CommitAlone, Zenon DEF WriteLogBlock, Committer
    <3>2. pc' = pc /\ boot' = boot /\ lh' = lh /\ tail' = tail + 1 /\ cache' = cache /\ disk' = disk /\ tail < Len(lh)
      BY <2>6, Zenon DEF WriteLogBlock
    <3>3. Len(lh) <= LOGSIZE /\ LOGSIZE \in Nat
      BY LogAssumption, Zenon DEF IInv, CountedInv
    <3>4. /\ slot'[tail + 1] = Contents(lh[tail + 1])
          /\ \A k \in 1 .. tail : slot'[k] = slot[k]
      BY <1>0, <1>a, <2>6, <3>2, <3>3 DEF TypeOK, WriteLogBlock
    <3>5. \A k \in 1 .. Len(lh) : Contents(lh[k])' = Contents(lh[k])
      BY <3>2, Zenon DEF Contents
    <3>6. \A k \in 1 .. tail : slot[k] = Contents(lh[k])
      BY <1>0, <3>1, Zenon DEF CopyInv
    <3>7. tail' <= Len(lh') /\ \A k \in 1 .. tail' : slot'[k] = Contents(lh[k])
      BY <1>a, <3>2, <3>4, <3>6
    <3>8. tail' <= Len(lh') /\ \A k \in 1 .. tail' : slot'[k] = Contents(lh[k])'
      BY <1>a, <3>2, <3>5, <3>7, SMTT(60)
    <3>q. QED  BY <3>1, <3>2, <3>8, Zenon DEF CopyInv
  <2>7. CASE WriteLogEnd(p)
    <3>1. boot = "up" /\ pc[p] = "log" /\ \A q \in Proc : q # p => pc[q] \in {"run", "begin", "asleep"}
      BY <2>7, CommitAlone, Zenon DEF WriteLogEnd, Committer
    <3>2. /\ boot' = boot /\ lh' = lh /\ slot' = slot /\ cache' = cache /\ disk' = disk /\ ~(tail < Len(lh))
          /\ pc'[p] = "head" /\ \A q \in Proc : q # p => pc'[q] = pc[q]
      BY <1>0, <2>7, Zenon DEF TypeOK, WriteLogEnd
    <3>3. \A k \in 1 .. Len(lh) : Contents(lh[k])' = Contents(lh[k])
      BY <3>2, Zenon DEF Contents
    <3>4. \A k \in 1 .. Len(lh) : slot[k] = Contents(lh[k])
      BY <1>0, <1>a, <3>1, <3>2, SMTT(60) DEF CopyInv
    <3>q. QED  BY <3>1, <3>2, <3>3, <3>4, Zenon DEF CopyInv
  <2>8. CASE WriteHead(p)
    <3>1. boot = "up" /\ pc[p] = "head" /\ \A q \in Proc : q # p => pc[q] \in {"run", "begin", "asleep"}
      BY <2>8, CommitAlone, Zenon DEF WriteHead, Committer
    <3>2. /\ boot' = boot /\ lh' = lh /\ slot' = slot /\ cache' = cache /\ disk' = disk /\ dirty' = dirty
          /\ tail' = 0 /\ pc'[p] = "install" /\ \A q \in Proc : q # p => pc'[q] = pc[q]
      BY <1>0, <2>8, Zenon DEF TypeOK, WriteHead
    <3>3. \A k \in 1 .. Len(lh) : Contents(lh[k])' = Contents(lh[k])
      BY <3>2, Zenon DEF Contents
    <3>4. \A k \in 1 .. Len(lh) : slot[k] = Contents(lh[k]) /\ lh[k] \in dirty
      BY <1>0, <3>1, Zenon DEF CopyInv, CacheInv
    <3>q. QED  BY <1>a, <3>1, <3>2, <3>3, <3>4 DEF CopyInv
  <2>9. CASE InstallBlock(p)
    <3>1. boot = "up" /\ pc[p] = "install" /\ \A q \in Proc : q # p => pc[q] \in {"run", "begin", "asleep"}
      BY <2>9, CommitAlone, Zenon DEF InstallBlock, Committer
    <3>2. boot' = boot /\ lh' = lh /\ slot' = slot /\ pc' = pc /\ tail < Len(lh) /\ InstallTrans
      BY <2>9, Zenon DEF InstallBlock
    <3>3. /\ \A k \in 1 .. Len(lh) : slot[k] = Contents(lh[k])
          /\ \A k \in 1 .. Len(lh) : lh[k] \in dirty <=> k > tail
          /\ \A k \in 1 .. tail : disk[lh[k]] = slot[k]
      BY <1>0, <3>1, Zenon DEF CopyInv
    <3>4. \A k \in 1 .. Len(lh) : slot'[k] = Contents(lh[k])'
      BY <3>2, <3>3, InstallEffect, SMTT(60) DEF Contents
    <3>5. \A k \in 1 .. Len(lh) : lh[k] \in dirty' <=> k > tail'
      BY <3>2, <3>3, InstallEffect
    <3>6. tail' <= Len(lh) /\ \A k \in 1 .. tail' : disk'[lh[k]] = slot[k]
      BY <3>2, <3>3, InstallEffect, SMTT(60)
    <3>q. QED  BY <3>1, <3>2, <3>4, <3>5, <3>6, Zenon DEF CopyInv
  <2>10. CASE InstallEnd(p)
    <3>1. boot = "up" /\ pc[p] = "install" /\ \A q \in Proc : q # p => pc[q] \in {"run", "begin", "asleep"}
      BY <2>10, CommitAlone, Zenon DEF InstallEnd, Committer
    <3>2. /\ boot' = boot /\ lh' = lh /\ slot' = slot /\ disk' = disk /\ dirty' = dirty /\ ~(tail < Len(lh))
          /\ pc'[p] = "erase" /\ \A q \in Proc : q # p => pc'[q] = pc[q]
      BY <1>0, <2>10, Zenon DEF TypeOK, InstallEnd
    <3>3. /\ \A k \in 1 .. Len(lh) : lh[k] \notin dirty /\ disk[lh[k]] = slot[k]
      <4>1. /\ tail <= Len(lh)
            /\ \A k \in 1 .. Len(lh) : lh[k] \in dirty <=> k > tail
            /\ \A k \in 1 .. tail : disk[lh[k]] = slot[k]
        BY <1>0, <3>1, Zenon DEF CopyInv
      <4>2. tail = Len(lh)
        BY <1>a, <3>2, <4>1
      <4>3. \A k \in 1 .. Len(lh) : ~(k > tail)
        BY <1>a, <4>2, SMTT(60)
      <4>q. QED  BY <4>1, <4>2, <4>3, Zenon
    <3>4. dirty = {}
      BY <1>0, <3>3, SMTT(60) DEF TypeOK, CacheInv, Logged
    <3>q. QED  BY <3>1, <3>2, <3>3, <3>4, Zenon DEF CopyInv
  <2>q. QED  BY <1>3, <2>1, <2>2, <2>3, <2>4, <2>5, <2>6, <2>7, <2>8, <2>9, <2>10, Zenon DEF Branch
<1>4. ASSUME NEW b \in Block, Recycle(b) PROVE CopyInv'
  <2>1. /\ b \notin dirty /\ ~InUse(b) /\ cache[b] # NoBuf
        /\ cache'[b] = NoBuf /\ \A c \in Block : c # b => cache'[c] = cache[c]
        /\ disk' = disk /\ slot' = slot /\ dirty' = dirty /\ boot' = boot /\ lh' = lh /\ pc' = pc /\ tail' = tail
    BY <1>0, <1>4, Zenon DEF TypeOK, Recycle
  <2>2. \A c \in Block : Contents(c)' = Contents(c)
    BY <1>0, <2>1, Zenon DEF CacheInv, Contents
  <2>q. QED  BY <1>2, <2>1, <2>2, Zenon
<1>5. CASE Boots
  <2>1. CASE Crash
    BY <2>1, Zenon DEF CopyInv, Crash
  <2>2. CASE ReadHead
    <3>1. boot = "readhead" /\ tail' = tail /\ boot' = "install" /\ pc' = pc /\ lh' = hdr /\ Len(hdr) \in Nat
      BY <1>0, <2>2, SMTT(60) DEF ReadHead, TypeOK
    <3>2. tail = 0 /\ \A q \in Proc : pc[q] = "run"
      BY <1>0, <3>1, BootAlone, Zenon DEF CopyInv
    <3>q. QED  BY <3>1, <3>2 DEF CopyInv
  <2>3. CASE RecoverBlock
    <3>1. boot = "install" /\ boot' = boot /\ lh' = lh /\ slot' = slot /\ pc' = pc /\ tail < Len(lh) /\ InstallTrans
      BY <2>3, Zenon DEF RecoverBlock
    <3>2. \A q \in Proc : pc[q] = "run"
      BY <3>1, BootAlone, Zenon
    <3>3. \A k \in 1 .. tail : disk[lh[k]] = slot[k]
      BY <1>0, <3>1, Zenon DEF CopyInv
    <3>4. tail' <= Len(lh) /\ \A k \in 1 .. tail' : disk'[lh[k]] = slot[k]
      BY <3>1, <3>3, InstallEffect
    <3>q. QED  BY <3>1, <3>2, <3>4, Zenon DEF CopyInv
  <2>4. CASE RecoverEnd
    <3>1. /\ boot = "install" /\ boot' = "erase" /\ lh' = lh /\ slot' = slot /\ disk' = disk /\ pc' = pc
          /\ ~(tail < Len(lh))
      BY <2>4, Zenon DEF RecoverEnd
    <3>2. \A q \in Proc : pc[q] = "run"
      BY <3>1, BootAlone, Zenon
    <3>3. \A k \in 1 .. Len(lh) : disk[lh[k]] = slot[k]
      BY <1>0, <1>a, <3>1 DEF CopyInv
    <3>q. QED  BY <3>1, <3>2, <3>3, Zenon DEF CopyInv
  <2>5. CASE RecoverErase
    <3>1. boot # "up" /\ boot' = "up" /\ pc' = pc
      BY <2>5, Zenon DEF RecoverErase
    <3>q. QED  BY <1>1, <3>1, BootAlone, Zenon
  <2>q. QED  BY <1>5, <2>1, <2>2, <2>3, <2>4, <2>5, Zenon DEF Boots
<1>q. QED  BY <1>0, <1>3, <1>4, <1>5, NextBranches, Zenon

-----------------------------------------------------------------------------
(* log.outstanding counts the calls in progress.                           *)
LEMMA CountStep ==
  ASSUME FiniteFacts, IInv, Next
  PROVE  CountInv'
<1>. USE DEF Goto, diskVars, memVars, callVars
<1>0. TypeOK /\ PhaseInv /\ CountInv
  BY Zenon DEF IInv
<1>1. ASSUME InOp' = InOp, outstanding' = outstanding PROVE CountInv'
  BY <1>0, <1>1, Zenon DEF CountInv
<1>2. ASSUME NEW p \in Proc, Branch(p) PROVE CountInv'
  <2>1. CASE Call(p) \/ BeginSleep(p) \/ WriteLogEnd(p) \/ InstallEnd(p) \/ WriteHead(p) \/ Erase(p)
    <3>1. InOp' = InOp /\ outstanding' = outstanding
      BY <1>0, <2>1, Zenon DEF TypeOK, InOp, Call, BeginSleep, WriteLogEnd, InstallEnd, WriteHead, Erase
    <3>q. QED  BY <1>1, <3>1, Zenon
  <2>2. CASE LogWrite(p) \/ \E b \in Block, v \in Val : Modify(p, b, v)
    <3>1. InOp' = InOp /\ outstanding' = outstanding
      BY <1>0, <2>2, Zenon DEF TypeOK, InOp, LogWrite, Modify
    <3>q. QED  BY <1>1, <3>1, Zenon
  <2>3. CASE CommitDone(p)
    <3>1. InOp' = InOp /\ outstanding' = outstanding
      BY <1>0, <2>3, Zenon DEF TypeOK, InOp, CommitDone, WakeLog
    <3>q. QED  BY <1>1, <3>1, Zenon
  <2>4. CASE WriteLogBlock(p) \/ InstallBlock(p)
    <3>1. InOp' = InOp /\ outstanding' = outstanding
      BY <2>4, Zenon DEF InOp, WriteLogBlock, InstallBlock
    <3>q. QED  BY <1>1, <3>1, Zenon
  <2>5. CASE BeginTake(p)
    <3>1. InOp' = InOp \union {p} /\ p \notin InOp
      BY <1>0, <2>5, Zenon DEF TypeOK, InOp, BeginTake
    <3>q. QED  BY <1>0, <2>5, <3>1, Zenon DEF CountInv, BeginTake, FiniteFacts, AddFact
  <2>6. CASE EndMore(p)
    <3>1. InOp' = InOp \ {p} /\ p \in InOp
      BY <1>0, <2>6, Zenon DEF TypeOK, InOp, EndMore, WakeLog
    <3>q. QED  BY <1>0, <2>6, <3>1, Zenon DEF CountInv, EndMore, FiniteFacts, RemoveFact
  <2>7. CASE EndLast(p)
    <3>1. InOp = {p}
      BY <2>7, LastAlone, Zenon DEF EndLast
    <3>2. InOp' = {} /\ outstanding' = 0
      BY <1>0, <2>7, <3>1, Zenon DEF TypeOK, InOp, EndLast
    <3>q. QED  BY <3>2, Zenon DEF CountInv, FiniteFacts, EmptyFact
  <2>q. QED  BY <1>2, <2>1, <2>2, <2>3, <2>4, <2>5, <2>6, <2>7, Zenon DEF Branch
<1>3. CASE \E b \in Block : Recycle(b)
  BY <1>1, <1>3, Zenon DEF Recycle, InOp
<1>4. CASE Boots
  <2>1. CASE Crash
    <3>1. InOp' = {} /\ outstanding' = 0
      BY <2>1, Zenon DEF Crash, InOp
    <3>q. QED  BY <3>1, Zenon DEF CountInv, FiniteFacts, EmptyFact
  <2>2. CASE ReadHead \/ RecoverBlock \/ RecoverEnd \/ RecoverErase
    BY <1>1, <2>2, Zenon DEF ReadHead, RecoverBlock, RecoverEnd, RecoverErase, InOp
  <2>q. QED  BY <1>4, <2>1, <2>2, Zenon DEF Boots
<1>q. QED  BY <1>0, <1>2, <1>3, <1>4, NextBranches, Zenon

(* A call's blocks are in the list, but for the one in its hands.          *)
LEMMA WroteStep ==
  ASSUME FiniteFacts, IInv, Next
  PROVE  WroteInv'
<1>. USE DEF Goto, diskVars, memVars, callVars
<1>0. TypeOK /\ PhaseInv /\ WroteInv
  BY Zenon DEF IInv
<1>1. ASSUME \A q \in Proc : wrote'[q] = wrote[q] \/ wrote'[q] = {},
             \A q \in Proc : pc'[q] \in {"op", "append"} =>
               pc'[q] = pc[q] /\ buf'[q] = buf[q] /\ lh' = lh /\ wrote'[q] = wrote[q]
      PROVE  WroteInv'
  <2>1. \A q \in Proc : IsFiniteSet(wrote'[q]) /\ Cardinality(wrote'[q]) <= OpBlocks
    <3>1. IsFiniteSet({}) /\ Cardinality({}) = 0
      BY Zenon DEF FiniteFacts, EmptyFact
    <3>2. Cardinality({}) <= OpBlocks
      BY <3>1, LogAssumption
    <3>q. QED  BY <1>0, <1>1, <3>1, <3>2, Zenon DEF WroteInv
  <2>2. \A q \in Proc : pc'[q] \in {"op", "append"} =>
          pc'[q] = pc[q] /\ buf'[q] = buf[q] /\ \A b : Logged(b)' <=> Logged(b)
    BY <1>1, Zenon DEF Logged
  <2>q. QED  BY <1>0, <1>1, <2>1, <2>2, Zenon DEF WroteInv
<1>2. ASSUME NEW p \in Proc, Branch(p) PROVE WroteInv'
  <2>1. CASE Call(p) \/ BeginSleep(p) \/ WriteLogEnd(p) \/ InstallEnd(p) \/ WriteHead(p)
    <3>1. wrote' = wrote /\ buf' = buf /\ lh' = lh
      BY <2>1, Zenon DEF Call, BeginSleep, WriteLogEnd, InstallEnd, WriteHead
    <3>2. \A q \in Proc : pc'[q] \in {"op", "append"} => pc'[q] = pc[q]
      BY <1>0, <2>1, Zenon DEF TypeOK, Call, BeginSleep, WriteLogEnd, InstallEnd, WriteHead
    <3>q. QED  BY <1>1, <3>1, <3>2, Zenon
  <2>2. CASE WriteLogBlock(p) \/ InstallBlock(p)
    BY <1>1, <2>2, Zenon DEF WriteLogBlock, InstallBlock
  <2>3. CASE CommitDone(p) \/ EndMore(p) \/ EndLast(p)
    <3>1. buf' = buf /\ lh' = lh /\ \A q \in Proc : wrote'[q] = wrote[q] \/ wrote'[q] = {}
      BY <1>0, <2>3, Zenon DEF TypeOK, CommitDone, EndMore, EndLast
    <3>2. \A q \in Proc : pc'[q] \in {"op", "append"} => pc'[q] = pc[q] /\ wrote'[q] = wrote[q]
      BY <1>0, <2>3, Zenon DEF TypeOK, CommitDone, EndMore, EndLast, WakeLog
    <3>q. QED  BY <1>1, <3>1, <3>2, Zenon
  <2>4. CASE Erase(p)
    <3>1. \A q \in Proc : pc'[q] \in {"run", "begin", "asleep", "done"}
      BY <1>0, <2>4, Zenon DEF TypeOK, PhaseInv, Committer, Erase
    <3>q. QED  BY <1>1, <2>4, <3>1, Zenon DEF Erase
  <2>5. CASE BeginTake(p)
    <3>1. wrote'[p] = {} /\ \A q \in Proc : q # p => wrote'[q] = wrote[q] /\ pc'[q] = pc[q]
      BY <1>0, <2>5, Zenon DEF TypeOK, BeginTake
    <3>2. buf' = buf /\ pc'[p] = "op" /\ \A b : Logged(b)' <=> Logged(b)
      BY <1>0, <2>5, Zenon DEF TypeOK, BeginTake, Logged
    <3>3. IsFiniteSet({}) /\ Cardinality({}) <= OpBlocks
      BY LogAssumption DEF FiniteFacts, EmptyFact
    <3>q. QED  BY <1>0, <3>1, <3>2, <3>3, Zenon DEF WroteInv
  <2>6. ASSUME NEW b \in Block, NEW v \in Val, Modify(p, b, v) PROVE WroteInv'
    <3>1. /\ wrote'[p] = wrote[p] \union {b} /\ buf'[p] = b /\ pc'[p] # "op"
          /\ pc[p] = "op" /\ (b \in wrote[p] \/ Cardinality(wrote[p]) < OpBlocks)
          /\ \A q \in Proc : q # p => wrote'[q] = wrote[q] /\ pc'[q] = pc[q] /\ buf'[q] = buf[q]
      BY <1>0, <2>6, Zenon DEF TypeOK, Modify
    <3>2. \A c : Logged(c)' <=> Logged(c)
      BY <2>6, Zenon DEF Modify, Logged
    <3>3. IsFiniteSet(wrote'[p]) /\ Cardinality(wrote'[p]) <= OpBlocks
      <4>1. CASE b \in wrote[p]
        <5>1. wrote'[p] = wrote[p]
          BY <3>1, <4>1, Zenon
        <5>q. QED  BY <1>0, <5>1, Zenon DEF WroteInv
      <4>2. CASE b \notin wrote[p]
        <5>1. IsFiniteSet(wrote[p])
          BY <1>0, Zenon DEF WroteInv
        <5>2. IsFiniteSet(wrote[p] \union {b}) /\ Cardinality(wrote[p] \union {b}) = Cardinality(wrote[p]) + 1
          BY <5>1, <4>2, Zenon DEF FiniteFacts, AddFact
        <5>3. Cardinality(wrote[p]) \in Nat
          BY <5>1, Zenon DEF FiniteFacts, SizeFact
        <5>q. QED  BY <3>1, <4>2, <5>2, <5>3, LogAssumption
      <4>q. QED  BY <4>1, <4>2, Zenon
    <3>q. QED  BY <1>0, <3>1, <3>2, <3>3, Zenon DEF WroteInv
  <2>7. CASE LogWrite(p)
    <3>1. /\ wrote' = wrote /\ pc[p] = "append" /\ pc'[p] = "op"
          /\ \A q \in Proc : q # p => pc'[q] = pc[q] /\ buf'[q] = buf[q]
      BY <1>0, <2>7, Zenon DEF TypeOK, LogWrite
    <3>2. \A c : Logged(c)' <=> Logged(c) \/ c = buf[p]
      BY <2>7, LogWriteList, Zenon
    <3>q. QED  BY <1>0, <3>1, <3>2, Zenon DEF WroteInv
  <2>q. QED  BY <1>2, <2>1, <2>2, <2>3, <2>4, <2>5, <2>6, <2>7, Zenon DEF Branch
<1>3. CASE \E b \in Block : Recycle(b)
  BY <1>1, <1>3, Zenon DEF Recycle
<1>4. CASE Boots
  <2>1. \A q \in Proc : pc'[q] = "run"
    BY <1>0, <1>4, Zenon DEF PhaseInv, Boots, Crash, ReadHead, RecoverBlock, RecoverEnd, RecoverErase
  <2>2. \A q \in Proc : wrote'[q] = wrote[q] \/ wrote'[q] = {}
    BY <1>4, Zenon DEF Boots, Crash, ReadHead, RecoverBlock, RecoverEnd, RecoverErase
  <2>q. QED  BY <1>1, <2>1, <2>2, Zenon
<1>q. QED  BY <1>0, <1>2, <1>3, <1>4, NextBranches, Zenon

(* The log keeps room for every block the calls in progress may still      *)
(* write, if a call writes no more than MAXOPBLOCKS.                       *)
LEMMA SpaceStep ==
  ASSUME FiniteFacts, IInv, Next, OpBlocks <= MAXOPBLOCKS
  PROVE  SpaceInv'
<1>. USE DEF Goto, diskVars, memVars, callVars
<1>0. TypeOK /\ PhaseInv /\ WroteInv /\ SpaceInv /\ ListInv
  BY Zenon DEF IInv
<1>a. IsFiniteSet(Claims) /\ Cardinality(Claims) \in Nat /\ Len(lh) + Cardinality(Claims) <= LOGSIZE
  BY <1>0, Zenon DEF SpaceInv, FiniteFacts, SizeFact
<1>b. Len(lh) \in Nat /\ Len(hdr) \in Nat /\ LOGSIZE \in Nat
  BY <1>0, LogAssumption DEF TypeOK
<1>c. ASSUME Claims' \subseteq Claims, lh' = lh PROVE SpaceInv'
  <2>1. Claims' \in SUBSET Claims
    BY <1>c, Zenon
  <2>2. IsFiniteSet(Claims') /\ Cardinality(Claims') <= Cardinality(Claims)
    BY <1>a, <2>1, Zenon DEF FiniteFacts, SubsetFact
  <2>3. Cardinality(Claims') \in Nat
    BY <2>2, Zenon DEF FiniteFacts, SizeFact
  <2>q. QED  BY <1>a, <1>b, <1>c, <2>2, <2>3 DEF SpaceInv
<1>d. ASSUME \A q \in Proc : pc'[q] \notin {"op", "append"}, Len(lh') <= LOGSIZE, Len(lh') \in Nat
      PROVE  SpaceInv'
  <2>1. Claims' = {}
    BY <1>d, Zenon DEF Claims, InOp
  <2>q. QED  BY <1>b, <1>d, <2>1 DEF SpaceInv, FiniteFacts, EmptyFact
<1>1. ASSUME lh' = lh,
             \A q \in Proc : pc'[q] \in {"op", "append"} =>
               pc'[q] = pc[q] /\ buf'[q] = buf[q] /\ wrote'[q] = wrote[q]
      PROVE  SpaceInv'
  <2>1. \A b : Logged(b)' <=> Logged(b)
    BY <1>1, Zenon DEF Logged
  <2>2. Claims' \subseteq Claims
    BY <1>1, <2>1, Zenon DEF Claims, InOp
  <2>q. QED  BY <1>1, <1>c, <2>2, Zenon
<1>2. ASSUME NEW p \in Proc, Branch(p) PROVE SpaceInv'
  <2>1. CASE Call(p) \/ BeginSleep(p) \/ WriteLogEnd(p) \/ InstallEnd(p) \/ WriteHead(p)
    <3>1. wrote' = wrote /\ buf' = buf /\ lh' = lh
      BY <2>1, Zenon DEF Call, BeginSleep, WriteLogEnd, InstallEnd, WriteHead
    <3>2. \A q \in Proc : pc'[q] \in {"op", "append"} => pc'[q] = pc[q]
      BY <1>0, <2>1, Zenon DEF TypeOK, Call, BeginSleep, WriteLogEnd, InstallEnd, WriteHead
    <3>q. QED  BY <1>1, <3>1, <3>2, Zenon
  <2>2. CASE WriteLogBlock(p) \/ InstallBlock(p)
    BY <1>1, <2>2, Zenon DEF WriteLogBlock, InstallBlock
  <2>3. CASE CommitDone(p) \/ EndMore(p) \/ EndLast(p)
    <3>1. buf' = buf /\ lh' = lh
      BY <2>3, Zenon DEF CommitDone, EndMore, EndLast
    <3>2. \A q \in Proc : pc'[q] \in {"op", "append"} => pc'[q] = pc[q] /\ wrote'[q] = wrote[q]
      BY <1>0, <2>3, Zenon DEF TypeOK, CommitDone, EndMore, EndLast, WakeLog
    <3>q. QED  BY <1>1, <3>1, <3>2, Zenon
  <2>4. CASE Erase(p)
    <3>1. \A q \in Proc : pc'[q] \in {"run", "begin", "asleep", "done"}
      BY <1>0, <2>4, Zenon DEF TypeOK, PhaseInv, Committer, Erase
    <3>2. Len(lh') = 0
      BY <2>4, Zenon DEF Erase
    <3>q. QED  BY <1>b, <1>d, <3>1, <3>2
  <2>5. CASE BeginTake(p)
    <3>1. CountInv' /\ outstanding' = outstanding + 1 /\ lh' = lh /\ outstanding \in Nat
      BY <1>0, <2>5, CountStep, Zenon DEF BeginTake, TypeOK
    <3>2. IsFiniteSet(InOp') /\ Cardinality(InOp') = outstanding + 1
      BY <3>1, Zenon DEF CountInv
    <3>3. IsFiniteSet(1 .. MAXOPBLOCKS) /\ Cardinality(1 .. MAXOPBLOCKS) = MAXOPBLOCKS
      BY LogAssumption DEF FiniteFacts, IntervalFact
    <3>4. /\ IsFiniteSet(InOp' \X (1 .. MAXOPBLOCKS))
          /\ Cardinality(InOp' \X (1 .. MAXOPBLOCKS)) = (outstanding + 1) * MAXOPBLOCKS
      <4>1. /\ IsFiniteSet(InOp' \X (1 .. MAXOPBLOCKS))
            /\ Cardinality(InOp' \X (1 .. MAXOPBLOCKS)) = Cardinality(InOp') * Cardinality(1 .. MAXOPBLOCKS)
        BY <3>2, <3>3, Zenon DEF FiniteFacts, ProductFact
      <4>q. QED  BY <3>2, <3>3, <4>1, Zenon
    <3>5. Claims' \in SUBSET (InOp' \X (1 .. MAXOPBLOCKS))
      BY Zenon DEF Claims
    <3>6. IsFiniteSet(Claims') /\ Cardinality(Claims') <= (outstanding + 1) * MAXOPBLOCKS
      BY <3>4, <3>5, Zenon DEF FiniteFacts, SubsetFact
    <3>7. Cardinality(Claims') \in Nat
      BY <3>6, Zenon DEF FiniteFacts, SizeFact
    <3>8. ~(Len(lh) + (outstanding + 1) * MAXOPBLOCKS > LOGSIZE)
      BY <2>5, Zenon DEF BeginTake, NoSpace
    <3>9. (outstanding + 1) * MAXOPBLOCKS \in Nat
      BY <3>1, LogAssumption
    <3>q. QED  BY <1>b, <3>1, <3>6, <3>7, <3>8, <3>9 DEF SpaceInv
  <2>6. ASSUME NEW b \in Block, NEW v \in Val, Modify(p, b, v) PROVE SpaceInv'
    <3>1. /\ wrote'[p] = wrote[p] \union {b} /\ buf'[p] = b /\ pc'[p] # "op" /\ pc[p] = "op"
          /\ \A q \in Proc : q # p => wrote'[q] = wrote[q] /\ pc'[q] = pc[q] /\ buf'[q] = buf[q]
          /\ lh' = lh
      BY <1>0, <2>6, Zenon DEF TypeOK, Modify
    <3>2. \A c : Logged(c)' <=> Logged(c)
      BY <3>1, Zenon DEF Logged
    <3>3. IsFiniteSet(wrote[p]) /\ Cardinality(wrote[p]) \in Nat
      BY <1>0, Zenon DEF WroteInv, FiniteFacts, SizeFact
    <3>4. \/ Cardinality(wrote'[p]) = Cardinality(wrote[p]) /\ Logged(b)
          \/ Cardinality(wrote'[p]) = Cardinality(wrote[p]) + 1
      <4>1. CASE b \in wrote[p]
        BY <1>0, <3>1, <4>1, ZenonT(60) DEF WroteInv
      <4>2. CASE b \notin wrote[p]
        <5>1. Cardinality(wrote[p] \union {b}) = Cardinality(wrote[p]) + 1
          BY <3>3, <4>2, Zenon DEF FiniteFacts, AddFact
        <5>q. QED  BY <3>1, <5>1, Zenon
      <4>q. QED  BY <4>1, <4>2, Zenon
    <3>5. ASSUME NEW c \in Claims' PROVE c \in Claims
      <4>1. c \in InOp' \X (1 .. MAXOPBLOCKS)
        BY Zenon DEF Claims
      <4>2. PICK q \in InOp', n \in 1 .. MAXOPBLOCKS : c = <<q, n>>
        BY <4>1
      <4>3. q \in Proc /\ q \in InOp
        BY <3>1, <4>2, Zenon DEF InOp
      <4>4. CASE q = p
        <5>1. \/ n > Cardinality(wrote'[p])
              \/ ~Logged(b) /\ n = Cardinality(wrote'[p])
          BY <3>1, <3>2, <4>2, <4>4, Zenon DEF Claims
        <5>2. n > Cardinality(wrote[p])
          BY <3>3, <3>4, <5>1, SMTT(60)
        <5>q. QED  BY <3>1, <4>2, <4>3, <4>4, <5>2, Zenon DEF Claims
      <4>5. CASE q # p
        BY <3>1, <3>2, <4>2, <4>3, <4>5, Zenon DEF Claims
      <4>q. QED  BY <4>4, <4>5, Zenon
    <3>q. QED  BY <1>c, <3>1, <3>5, Zenon
  <2>7. CASE LogWrite(p)
    <3>1. /\ wrote' = wrote /\ pc[p] = "append" /\ pc'[p] = "op"
          /\ \A q \in Proc : q # p => pc'[q] = pc[q] /\ buf'[q] = buf[q]
      BY <1>0, <2>7, Zenon DEF TypeOK, LogWrite
    <3>2. \A c : Logged(c)' <=> Logged(c) \/ c = buf[p]
      BY <2>7, LogWriteList, Zenon
    <3>3. ASSUME NEW c \in Claims'
          PROVE  c \in Claims /\ c # <<p, Cardinality(wrote[p])>>
      <4>1. c \in InOp' \X (1 .. MAXOPBLOCKS)
        BY Zenon DEF Claims
      <4>2. PICK q \in InOp', n \in 1 .. MAXOPBLOCKS : c = <<q, n>>
        BY <4>1
      <4>3. q \in Proc /\ q \in InOp
        BY <3>1, <4>2, Zenon DEF InOp
      <4>4. CASE q = p
        <5>1. n > Cardinality(wrote[p])
          BY <3>1, <4>2, <4>4, Zenon DEF Claims
        <5>2. IsFiniteSet(wrote[p]) /\ Cardinality(wrote[p]) \in Nat
          BY <1>0, Zenon DEF WroteInv, FiniteFacts, SizeFact
        <5>q. QED  BY <3>1, <4>2, <4>3, <4>4, <5>1, <5>2, LogAssumption, SMTT(60) DEF Claims
      <4>5. CASE q # p
        BY <3>1, <3>2, <4>2, <4>3, <4>5, Zenon DEF Claims
      <4>q. QED  BY <4>4, <4>5, Zenon
    <3>4. CASE Logged(buf[p])
      <4>1. lh' = lh
        BY <2>7, <3>4, LogWriteList, Zenon
      <4>q. QED  BY <1>c, <3>3, <4>1, Zenon
    <3>5. CASE ~Logged(buf[p])
      <4>. DEFINE x == <<p, Cardinality(wrote[p])>>
      <4>1. IsFiniteSet(wrote[p]) /\ Cardinality(wrote[p]) \in Nat /\ Cardinality(wrote[p]) <= OpBlocks
        BY <1>0, Zenon DEF WroteInv, FiniteFacts, SizeFact
      <4>2. Cardinality(wrote[p]) # 0
        BY <1>0, <3>1, <4>1, Zenon DEF WroteInv, FiniteFacts, EmptyFact
      <4>3. p \in InOp /\ Cardinality(wrote[p]) \in 1 .. MAXOPBLOCKS
        BY <3>1, <4>1, <4>2, LogAssumption, SMTT(60) DEF InOp
      <4>4. x \in Claims
        BY <3>1, <3>5, <4>3, Zenon DEF Claims
      <4>5. Claims' \in SUBSET (Claims \ {x})
        BY <3>3, Zenon
      <4>. HIDE DEF x
      <4>6. IsFiniteSet(Claims \ {x}) /\ Cardinality(Claims \ {x}) = Cardinality(Claims) - 1
        BY <1>a, <4>4, Zenon DEF FiniteFacts, RemoveFact
      <4>7. IsFiniteSet(Claims') /\ Cardinality(Claims') <= Cardinality(Claims) - 1
        BY <4>5, <4>6 DEF FiniteFacts, SubsetFact
      <4>8. Cardinality(Claims') \in Nat
        BY <4>7, Zenon DEF FiniteFacts, SizeFact
      <4>9. Len(lh') = Len(lh) + 1
        BY <2>7, <3>5, LogWriteList, Zenon
      <4>q. QED  BY <1>a, <1>b, <4>7, <4>8, <4>9 DEF SpaceInv
    <3>q. QED  BY <3>4, <3>5, Zenon
  <2>q. QED  BY <1>2, <2>1, <2>2, <2>3, <2>4, <2>5, <2>6, <2>7, Zenon DEF Branch
<1>3. CASE \E b \in Block : Recycle(b)
  BY <1>1, <1>3, Zenon DEF Recycle
<1>4. CASE Boots
  <2>1. \A q \in Proc : pc'[q] = "run"
    BY <1>0, <1>4, Zenon DEF PhaseInv, Boots, Crash, ReadHead, RecoverBlock, RecoverEnd, RecoverErase
  <2>2. Len(lh') \in Nat /\ Len(lh') <= LOGSIZE
    <3>1. lh' = <<>> \/ lh' = hdr \/ lh' = lh
      BY <1>4, Zenon DEF Boots, Crash, ReadHead, RecoverBlock, RecoverEnd, RecoverErase
    <3>q. QED  BY <1>0, <1>a, <1>b, <3>1 DEF ListInv
  <2>q. QED  BY <1>d, <2>1, <2>2, Zenon
<1>q. QED  BY <1>0, <1>2, <1>3, <1>4, NextBranches, Zenon

(* What the counts say of the calls in progress and of the list.           *)
LEMMA Counted ==
  FiniteFacts /\ TypeOK /\ CountInv /\ SpaceInv => CountedInv
<1>. SUFFICES ASSUME FiniteFacts, TypeOK, CountInv, SpaceInv PROVE CountedInv
  BY Zenon
<1>1. outstanding = 0 <=> InOp = {}
  BY Zenon DEF CountInv, FiniteFacts, EmptyFact
<1>2. ASSUME outstanding = 1, NEW p \in InOp, NEW q \in InOp PROVE p = q
  <2>1. PICK x : InOp = {x}
    BY <1>2, Zenon DEF CountInv, FiniteFacts, SingletonFact
  <2>q. QED  BY <2>1, Zenon
<1>3. Cardinality(Claims) \in Nat
  BY Zenon DEF SpaceInv, FiniteFacts, SizeFact
<1>4. Len(lh) <= LOGSIZE
  BY <1>3, LogAssumption DEF SpaceInv, TypeOK
<1>q. QED  BY <1>1, <1>2, <1>4, Zenon DEF CountedInv

(* The invariant holds when the machine starts on a fresh disk.            *)
LEMMA InitIInv ==
  ASSUME FiniteFacts, Init
  PROVE  IInv
<1>. USE DEF Init
<1>1. TypeOK
  <2>1. disk \in [Block -> Val] /\ cache \in [Block -> Val \union {NoBuf}]
    BY LogAssumption, Zenon
  <2>2. slot \in [1 .. LOGSIZE -> Val \union {NoBuf}]
    BY Zenon
  <2>3. hdr \in Seq(Block) /\ lh \in Seq(Block) /\ outstanding \in Nat /\ tail \in Nat
    OBVIOUS
  <2>4. /\ pc \in [Proc -> PC] /\ wrote \in [Proc -> SUBSET Block]
        /\ buf \in [Proc -> Block \union {NoBuf}]
    BY Zenon DEF PC
  <2>q. QED  BY <2>1, <2>2, <2>3, <2>4, Zenon DEF TypeOK, Booting
<1>2. InOp = {} /\ Claims = {}
  BY Zenon DEF InOp, Claims
<1>3. CountInv /\ SpaceInv
  BY <1>2, LogAssumption DEF CountInv, SpaceInv, FiniteFacts, EmptyFact
<1>4. WroteInv
  BY LogAssumption DEF WroteInv, FiniteFacts, EmptyFact
<1>5. PhaseInv /\ HdrInv
  BY Zenon DEF PhaseInv, Committer, HdrInv
<1>6. ListInv /\ CopyInv
  BY LogAssumption, SMTT(60) DEF ListInv, CopyInv
<1>7. CacheInv
  BY DEF CacheInv, InUse
<1>q. QED  BY <1>1, Counted, <1>3, <1>4, <1>5, <1>6, <1>7, Zenon DEF IInv

(* Every step keeps the invariant.                                         *)
LEMMA NextIInv ==
  ASSUME FiniteFacts, IInv, [Next]_vars, OpBlocks <= MAXOPBLOCKS
  PROVE  IInv'
<1>0. TypeOK' /\ CountInv' /\ SpaceInv' => CountedInv'
  <2>1. FiniteFacts' /\ TypeOK' /\ CountInv' /\ SpaceInv' => CountedInv'
    BY Counted, PTL
  <2>2. FiniteFacts'
    BY Zenon DEF FiniteFacts, SizeFact, EmptyFact, SingletonFact, AddFact, RemoveFact, SubsetFact,
           UnionFact, IntervalFact, ProductFact
  <2>q. QED  BY <2>1, <2>2, Zenon
<1>1. CASE Next
  <2>1. TypeOK' /\ CountInv' /\ PhaseInv' /\ WroteInv' /\ SpaceInv'
    BY <1>1, TypeStep, CountStep, PhaseStep, WroteStep, SpaceStep, Zenon
  <2>2. ListInv' /\ HdrInv' /\ CacheInv' /\ CopyInv'
    BY <1>1, ListStep, HdrStep, CacheStep, CopyStep, Zenon
  <2>q. QED  BY <1>0, <2>1, <2>2, Zenon DEF IInv
<1>2. CASE UNCHANGED vars
  <2>1. TypeOK' /\ CountInv'
    BY <1>2, Zenon DEF vars, diskVars, memVars, callVars, IInv, TypeOK, CountInv, InOp
  <2>2. PhaseInv' /\ WroteInv'
    BY <1>2, Zenon DEF vars, diskVars, memVars, callVars, IInv, PhaseInv, InOp, WroteInv, Logged
  <2>3. SpaceInv' /\ ListInv'
    BY <1>2, Zenon DEF vars, diskVars, memVars, callVars, IInv, SpaceInv, Claims, InOp, Logged, ListInv
  <2>4. HdrInv'
    BY <1>2, Zenon DEF vars, diskVars, memVars, callVars, IInv, HdrInv
  <2>5. CacheInv'
    BY <1>2, Zenon DEF vars, diskVars, memVars, callVars, IInv, CacheInv, InUse, Logged
  <2>6. CopyInv'
    BY <1>2, Zenon DEF vars, diskVars, memVars, callVars, IInv, CopyInv, Contents
  <2>q. QED  BY <1>0, <2>1, <2>2, <2>3, <2>4, <2>5, <2>6, Zenon DEF IInv
<1>q. QED  BY <1>1, <1>2, Zenon

-----------------------------------------------------------------------------
\* What a recovery makes of a block: the log's copy of a block the header
\* names, and the home block of any other.
RecoveredBlocks ==
  /\ \A k \in 1 .. Len(hdr) : hdr[k] \in Block /\ Recovered[hdr[k]] = slot[k]
  /\ \A b \in Block : (\A k \in 1 .. Len(hdr) : hdr[k] # b) => Recovered[b] = disk[b]
  /\ hdr = <<>> => Recovered = disk

(* Recovered is computed block by block, the header naming none twice.     *)
LEMMA RecoveredBlock == IInv => RecoveredBlocks
<1>. SUFFICES ASSUME IInv PROVE RecoveredBlocks
  BY Zenon
<1>1. ASSUME NEW k \in 1 .. Len(hdr) PROVE hdr[k] \in Block /\ Recovered[hdr[k]] = slot[k]
  <2>1. hdr[k] \in Block
    BY DEF IInv, TypeOK
  <2>2. \A j \in 1 .. Len(hdr) : hdr[j] = hdr[k] => j = k
    BY Zenon DEF IInv, ListInv
  <2>3. (CHOOSE j \in 1 .. Len(hdr) : hdr[j] = hdr[k]) = k
    BY <2>2, Zenon
  <2>q. QED  BY <2>1, <2>3, Zenon DEF Recovered
<1>2. \A b \in Block : (\A k \in 1 .. Len(hdr) : hdr[k] # b) => Recovered[b] = disk[b]
  BY Zenon DEF Recovered
<1>3. ASSUME hdr = <<>> PROVE Recovered = disk
  <2>1. \A b \in Block : Recovered[b] = disk[b]
    BY <1>2, <1>3
  <2>2. Recovered = [b \in Block |-> Recovered[b]] /\ disk = [b \in Block |-> disk[b]]
    BY Zenon DEF Recovered, IInv, TypeOK
  <2>q. QED  BY <2>1, <2>2, Zenon
<1>q. QED  BY <1>1, <1>2, <1>3, Zenon DEF RecoveredBlocks

(* A clean buffer that nobody uses shows what the disk holds.              *)
LEMMA CleanContents ==
  ASSUME IInv, NEW b \in Block, b \notin dirty, ~InUse(b)
  PROVE  Contents(b) = disk[b]
  BY Zenon DEF IInv, CacheInv, Contents

(* With no call in progress and no commit, everything written is on disk   *)
(* and the log is empty: what a crash then leaves is what the calls wrote. *)
LEMMA QuietIsDurable ==
  ASSUME IInv
  PROVE  Durable
<1>. SUFFICES ASSUME boot = "up", outstanding = 0, ~committing
              PROVE  Recovered = [b \in Block |-> Contents(b)] /\ lh = <<>> /\ dirty = {}
  BY Zenon DEF Durable
<1>1. InOp = {}
  BY Zenon DEF IInv, CountedInv
<1>2. lh = <<>> /\ hdr = <<>>
  BY Zenon DEF IInv, HdrInv, PhaseInv, Committer
<1>3. dirty = {}
  BY <1>2 DEF IInv, TypeOK, CacheInv, Logged
<1>4. \A b \in Block : ~InUse(b)
  BY <1>1, Zenon DEF InUse, InOp
<1>5. \A b \in Block : Contents(b) = disk[b]
  BY <1>3, <1>4, CleanContents, Zenon
<1>6. Recovered = disk /\ disk = [b \in Block |-> disk[b]]
  BY <1>2, RecoveredBlock, Zenon DEF RecoveredBlocks, IInv, TypeOK
<1>q. QED  BY <1>2, <1>3, <1>5, <1>6, Zenon

(* Every way out of a commit or of the last reservation wakes the calls    *)
(* asleep in begin_op().                                                   *)
LEMMA SleepStep ==
  ASSUME IInv, SleepsForReason, Next
  PROVE  SleepsForReason'
<1>. USE DEF Goto, diskVars, memVars, callVars
<1>0. TypeOK /\ PhaseInv
  BY Zenon DEF IInv
<1>a. outstanding \in Nat /\ Len(lh) \in Nat /\ LOGSIZE \in Nat /\ MAXOPBLOCKS \in Nat
  BY <1>0, LogAssumption DEF TypeOK
<1>1. ASSUME \A q \in Proc : pc'[q] # "asleep" PROVE SleepsForReason'
  BY <1>1, Zenon DEF SleepsForReason
<1>2. ASSUME committing' PROVE SleepsForReason'
  BY <1>2, Zenon DEF SleepsForReason
<1>3. ASSUME \A q \in Proc : pc'[q] = "asleep" => pc[q] = "asleep",
             committing' = committing, outstanding' = outstanding, lh' = lh
      PROVE  SleepsForReason'
  BY <1>3, Zenon DEF SleepsForReason, NoSpace
<1>4. ASSUME NEW p \in Proc, Branch(p) PROVE SleepsForReason'
  <2>1. CASE Call(p) \/ WriteLogBlock(p) \/ \E b \in Block, v \in Val : Modify(p, b, v)
    <3>1. \A q \in Proc : pc'[q] = "asleep" => pc[q] = "asleep"
      BY <1>0, <2>1, Zenon DEF TypeOK, Call, WriteLogBlock, Modify
    <3>2. committing' = committing /\ outstanding' = outstanding /\ lh' = lh
      BY <2>1, Zenon DEF Call, WriteLogBlock, Modify
    <3>q. QED  BY <1>3, <3>1, <3>2, Zenon
  <2>2. CASE WriteLogEnd(p) \/ WriteHead(p) \/ InstallBlock(p) \/ InstallEnd(p) \/ Erase(p) \/ EndLast(p)
    <3>1. committing'
      BY <2>2, CommitAlone DEF WriteLogEnd, WriteHead, InstallBlock, InstallEnd, Erase, EndLast, Committer
    <3>q. QED  BY <1>2, <3>1, Zenon
  <2>3. CASE EndMore(p) \/ CommitDone(p)
    <3>1. \A q \in Proc : pc'[q] # "asleep"
      BY <1>0, <2>3, Zenon DEF TypeOK, EndMore, CommitDone, WakeLog
    <3>q. QED  BY <1>1, <3>1, Zenon
  <2>4. CASE BeginSleep(p)
    <3>1. /\ \A q \in Proc : q # p => pc'[q] = pc[q]
          /\ committing' = committing /\ outstanding' = outstanding /\ lh' = lh
          /\ committing \/ NoSpace
      BY <1>0, <2>4, Zenon DEF TypeOK, BeginSleep
    <3>2. boot = "up"
      BY <1>0, <2>4, Zenon DEF PhaseInv, BeginSleep
    <3>3. ASSUME ~committing, outstanding = 0 PROVE FALSE
      <4>1. Len(lh) = 0
        BY <3>2, <3>3 DEF IInv, HdrInv
      <4>2. ~NoSpace
        BY <1>a, <3>3, <4>1, LogAssumption DEF NoSpace
      <4>q. QED  BY <3>1, <3>3, <4>2, Zenon
    <3>4. committing \/ (NoSpace /\ outstanding > 0)
      BY <1>a, <3>1, <3>3
    <3>5. committing' \/ (NoSpace' /\ outstanding' > 0)
      BY <3>1, <3>4, Zenon DEF NoSpace
    <3>q. QED  BY <3>5, Zenon DEF SleepsForReason
  <2>5. CASE BeginTake(p)
    <3>1. /\ \A q \in Proc : pc'[q] = "asleep" => pc[q] = "asleep"
          /\ committing' = committing /\ outstanding' = outstanding + 1 /\ lh' = lh
      BY <1>0, <2>5, Zenon DEF TypeOK, BeginTake
    <3>2. ~committing /\ ~NoSpace
      BY <2>5, Zenon DEF BeginTake
    <3>q. QED  BY <3>1, <3>2, <1>1, Zenon DEF SleepsForReason
  <2>6. CASE LogWrite(p)
    <3>1. /\ \A q \in Proc : pc'[q] = "asleep" => pc[q] = "asleep"
          /\ committing' = committing /\ outstanding' = outstanding
      BY <1>0, <2>6, Zenon DEF TypeOK, LogWrite
    <3>2. Len(lh') \in Nat /\ Len(lh') >= Len(lh)
      BY <1>a, <2>6, LogWriteList
    <3>3. (outstanding + 1) * MAXOPBLOCKS \in Nat
      BY <1>a
    <3>4. NoSpace => NoSpace'
      BY <1>a, <3>1, <3>2, <3>3 DEF NoSpace
    <3>q. QED  BY <3>1, <3>4, Zenon DEF SleepsForReason
  <2>q. QED  BY <1>4, <2>1, <2>2, <2>3, <2>4, <2>5, <2>6, Zenon DEF Branch
<1>5. CASE \E b \in Block : Recycle(b)
  BY <1>3, <1>5, Zenon DEF Recycle
<1>6. CASE Boots
  <2>1. \A q \in Proc : pc'[q] = "run"
    BY <1>0, <1>6, Zenon DEF PhaseInv, Boots, Crash, ReadHead, RecoverBlock, RecoverEnd, RecoverErase
  <2>q. QED  BY <1>1, <2>1, Zenon
<1>q. QED  BY <1>0, <1>4, <1>5, <1>6, NextBranches, Zenon

-----------------------------------------------------------------------------
\* The blocks begin_op() reserves for a call beyond those it writes.
Slack == MAXOPBLOCKS - OpBlocks

\* The slack of one call is never used up, in memory or on disk.
SlackInv ==
  /\ Len(lh) + Slack <= LOGSIZE /\ Len(hdr) + Slack <= LOGSIZE
  /\ \A p \in Proc : pc[p] # "panic"

(* A row of a table has as many fields as the table has columns.           *)
LEMMA RowCardinality ==
  ASSUME FiniteFacts, NEW p, NEW S, IsFiniteSet(S)
  PROVE  Cardinality({p} \X S) = Cardinality(S)
<1>1. IsFiniteSet({p}) /\ Cardinality({p}) = 1
  BY Zenon DEF FiniteFacts, SingletonFact
<1>2. Cardinality({p} \X S) = Cardinality({p}) * Cardinality(S)
  BY <1>1, Zenon DEF FiniteFacts, ProductFact
<1>3. Cardinality(S) \in Nat
  BY Zenon DEF FiniteFacts, SizeFact
<1>q. QED  BY <1>1, <1>2, <1>3

(* A call in progress has the slack of its reservation before it, and one  *)
(* block more while the block in its hands is not logged yet.              *)
LEMMA SlackClaims ==
  ASSUME FiniteFacts, IInv, OpBlocks < MAXOPBLOCKS, NEW p \in Proc, pc[p] \in {"op", "append"}
  PROVE  /\ Len(lh) + Slack <= LOGSIZE
         /\ pc[p] = "append" /\ ~Logged(buf[p]) => Len(lh) + 1 + Slack <= LOGSIZE
<1>. DEFINE n == Cardinality(wrote[p])
            rest == {p} \X ((n + 1) .. MAXOPBLOCKS)
            all == {p} \X (n .. MAXOPBLOCKS)
<1>0. TypeOK /\ WroteInv /\ SpaceInv
  BY Zenon DEF IInv
<1>1. n \in Nat /\ n <= OpBlocks /\ OpBlocks \in Nat /\ MAXOPBLOCKS \in Nat /\ LOGSIZE \in Nat /\ Len(lh) \in Nat
  BY <1>0, LogAssumption DEF WroteInv, TypeOK, FiniteFacts, SizeFact
<1>2. p \in InOp
  BY Zenon DEF InOp
<1>3. IsFiniteSet(Claims) /\ Cardinality(Claims) \in Nat /\ Len(lh) + Cardinality(Claims) <= LOGSIZE
  BY <1>0, Zenon DEF SpaceInv, FiniteFacts, SizeFact
<1>5. Len(lh) + Slack <= LOGSIZE
  <2>1. rest \in SUBSET Claims
    BY <1>1, <1>2 DEF Claims
  <2>. HIDE DEF n
  <2>i. n + 1 \in Int /\ MAXOPBLOCKS \in Int /\ ~(n + 1 > MAXOPBLOCKS) /\ MAXOPBLOCKS - (n + 1) + 1 = MAXOPBLOCKS - n
    BY <1>1
  <2>2. IsFiniteSet((n + 1) .. MAXOPBLOCKS) /\ Cardinality((n + 1) .. MAXOPBLOCKS) = MAXOPBLOCKS - n
    BY <2>i, Zenon DEF FiniteFacts, IntervalFact
  <2>3. Cardinality(rest) = MAXOPBLOCKS - n
    BY <2>2, RowCardinality, Zenon
  <2>4. Cardinality(rest) <= Cardinality(Claims)
    BY <1>3, <2>1, Zenon DEF FiniteFacts, SubsetFact
  <2>. HIDE DEF rest
  <2>q. QED  BY <1>1, <1>3, <2>3, <2>4 DEF Slack
<1>6. ASSUME pc[p] = "append", ~Logged(buf[p]) PROVE Len(lh) + 1 + Slack <= LOGSIZE
  <2>1. n # 0
    BY <1>0, <1>6, Zenon DEF WroteInv, FiniteFacts, EmptyFact
  <2>2. all \in SUBSET Claims
    BY <1>1, <1>2, <1>6, <2>1 DEF Claims
  <2>. HIDE DEF n
  <2>i. n \in Int /\ MAXOPBLOCKS \in Int /\ ~(n > MAXOPBLOCKS)
    BY <1>1
  <2>3. IsFiniteSet(n .. MAXOPBLOCKS) /\ Cardinality(n .. MAXOPBLOCKS) = MAXOPBLOCKS - n + 1
    BY <2>i, Zenon DEF FiniteFacts, IntervalFact
  <2>4. Cardinality(all) = MAXOPBLOCKS - n + 1
    BY <2>3, RowCardinality, Zenon
  <2>5. Cardinality(all) <= Cardinality(Claims)
    BY <1>3, <2>2, Zenon DEF FiniteFacts, SubsetFact
  <2>. HIDE DEF all
  <2>q. QED  BY <1>1, <1>3, <2>4, <2>5, SMTT(60) DEF Slack
<1>q. QED  BY <1>5, <1>6, Zenon

(* log_write() finds room in the log, although it looks without the lock.  *)
LEMMA SlackStep ==
  ASSUME FiniteFacts, IInv, SlackInv, Next, OpBlocks < MAXOPBLOCKS, LOGSIZE - Slack < NLOG - 1
  PROVE  SlackInv'
<1>. USE DEF Goto, diskVars, memVars, callVars
<1>0. TypeOK /\ PhaseInv
  BY Zenon DEF IInv
<1>a. /\ Len(lh) \in Nat /\ Len(hdr) \in Nat /\ LOGSIZE \in Nat /\ NLOG \in Nat
      /\ Slack \in Nat /\ Slack # 0 /\ Slack <= LOGSIZE
  BY <1>0, LogAssumption DEF TypeOK, Slack
<1>1. ASSUME \A q \in Proc : pc'[q] # "panic",
             lh' \in {lh, hdr, <<>>}, hdr' \in {lh, hdr, <<>>}
      PROVE  SlackInv'
  BY <1>a, <1>1 DEF SlackInv
<1>2. ASSUME NEW p \in Proc, Branch(p) PROVE SlackInv'
  <2>1. CASE \/ Call(p) \/ BeginSleep(p) \/ BeginTake(p) \/ EndLast(p) \/ WriteLogEnd(p)
             \/ WriteHead(p) \/ InstallEnd(p) \/ Erase(p)
    <3>1. \A q \in Proc : pc'[q] = pc[q] \/ pc'[q] # "panic"
      BY <1>0, <2>1, Zenon DEF TypeOK, Call, BeginSleep, BeginTake, EndLast, WriteLogEnd, WriteHead, InstallEnd, Erase
    <3>2. lh' \in {lh, hdr, <<>>} /\ hdr' \in {lh, hdr, <<>>}
      BY <2>1, Zenon DEF Call, BeginSleep, BeginTake, EndLast, WriteLogEnd, WriteHead, InstallEnd, Erase
    <3>q. QED  BY <1>1, <3>1, <3>2, Zenon DEF SlackInv
  <2>2. CASE EndMore(p) \/ CommitDone(p) \/ WriteLogBlock(p) \/ InstallBlock(p)
    <3>1. \A q \in Proc : pc'[q] = pc[q] \/ pc'[q] # "panic"
      BY <1>0, <2>2, Zenon DEF TypeOK, EndMore, CommitDone, WriteLogBlock, InstallBlock, WakeLog
    <3>2. lh' = lh /\ hdr' = hdr
      BY <2>2, Zenon DEF EndMore, CommitDone, WriteLogBlock, InstallBlock
    <3>q. QED  BY <1>1, <3>1, <3>2, Zenon DEF SlackInv
  <2>3. ASSUME NEW b \in Block, NEW v \in Val, Modify(p, b, v) PROVE SlackInv'
    <3>1. pc[p] = "op" /\ lh' = lh /\ hdr' = hdr
      BY <2>3, Zenon DEF Modify
    <3>2. outstanding \in Nat /\ outstanding # 0 /\ Len(lh) + Slack <= LOGSIZE
      BY <3>1, NoCommit, SlackClaims, Zenon
    <3>3. ~(Len(lh) >= LOGSIZE \/ Len(lh) >= NLOG - 1 \/ outstanding < 1)
      BY <1>a, <3>2, SMTT(60)
    <3>4. \A q \in Proc : pc'[q] = pc[q] \/ pc'[q] = "append"
      BY <1>0, <2>3, <3>3, Zenon DEF TypeOK, Modify
    <3>q. QED  BY <1>1, <3>1, <3>4, Zenon DEF SlackInv
  <2>4. CASE LogWrite(p)
    <3>1. pc[p] = "append" /\ hdr' = hdr /\ \A q \in Proc : pc'[q] = pc[q] \/ pc'[q] = "op"
      BY <1>0, <2>4, Zenon DEF TypeOK, LogWrite
    <3>2. Len(lh') + Slack <= LOGSIZE
      BY <2>4, <3>1, LogWriteList, SlackClaims, Zenon
    <3>q. QED  BY <3>1, <3>2, Zenon DEF SlackInv
  <2>q. QED  BY <1>2, <2>1, <2>2, <2>3, <2>4, Zenon DEF Branch
<1>3. CASE \E b \in Block : Recycle(b)
  BY <1>1, <1>3, Zenon DEF Recycle, SlackInv
<1>4. CASE Boots
  <2>1. \A q \in Proc : pc'[q] = "run"
    BY <1>0, <1>4, Zenon DEF PhaseInv, Boots, Crash, ReadHead, RecoverBlock, RecoverEnd, RecoverErase
  <2>2. lh' \in {lh, hdr, <<>>} /\ hdr' \in {lh, hdr, <<>>}
    BY <1>4, Zenon DEF Boots, Crash, ReadHead, RecoverBlock, RecoverEnd, RecoverErase
  <2>q. QED  BY <1>1, <2>1, <2>2, Zenon
<1>q. QED  BY <1>0, <1>2, <1>3, <1>4, NextBranches, Zenon

-----------------------------------------------------------------------------
\* What system calls see and what a crash leaves do not change.
Stutter == Mem' = Mem /\ Recovered' = Recovered /\ outstanding' = outstanding

(* Only the blocks of the log and the home blocks matter to a recovery.    *)
LEMMA FrameMem ==
  ASSUME hdr' = hdr, slot' = slot, disk' = disk
  PROVE  /\ Recovered' = Recovered
         /\ cache' = cache /\ boot' = boot => Mem' = Mem
<1>1. Recovered' = Recovered
  BY Zenon DEF Recovered
<1>q. QED  BY <1>1, Zenon DEF Mem, Contents

(* Recovered and Mem are functions on the blocks.                          *)
LEMMA RecoveredSame ==
  ASSUME \A b \in Block : Recovered'[b] = Recovered[b]
  PROVE  Recovered' = Recovered
<1>1. Recovered = [b \in Block |-> Recovered[b]] /\ Recovered' = [b \in Block |-> Recovered'[b]]
  BY Zenon DEF Recovered
<1>q. QED  BY <1>1, Zenon

(* install_trans() changes only blocks a recovery takes from the log.      *)
LEMMA InstallRecovered ==
  ASSUME IInv, RecoveredBlocks, RecoveredBlocks', hdr = lh, hdr' = hdr, slot' = slot,
         tail < Len(lh), InstallTrans
  PROVE  \A b \in Block : Recovered'[b] = Recovered[b]
<1>. SUFFICES ASSUME NEW b \in Block PROVE Recovered'[b] = Recovered[b]
  BY Zenon
<1>1. ASSUME NEW k \in 1 .. Len(hdr), hdr[k] = b PROVE Recovered'[b] = Recovered[b]
  <2>1. Recovered[b] = slot[k] /\ Recovered'[b] = slot'[k]
    BY <1>1, Zenon DEF RecoveredBlocks
  <2>q. QED  BY <2>1, Zenon
<1>2. ASSUME \A k \in 1 .. Len(hdr) : hdr[k] # b PROVE Recovered'[b] = Recovered[b]
  <2>1. Recovered[b] = disk[b] /\ Recovered'[b] = disk'[b]
    BY <1>2, Zenon DEF RecoveredBlocks
  <2>2. b # lh[tail + 1]
    BY <1>2, InstallEffect, Zenon
  <2>q. QED  BY <2>1, <2>2, InstallEffect, Zenon
<1>q. QED  BY <1>1, <1>2, Zenon

(* The steps of a call: all but three leave both views alone.              *)
LEMMA CallImplements ==
  ASSUME IInv, NEW p \in Proc,
         \/ Call(p) \/ BeginSleep(p) \/ BeginTake(p) \/ LogWrite(p) \/ EndMore(p) \/ EndLast(p)
         \/ WriteLogEnd(p) \/ InstallEnd(p) \/ CommitDone(p) \/ \E b \in Block, v \in Val : Modify(p, b, v)
  PROVE  Abs!Next \/ Stutter
<1>. USE DEF Goto, diskVars, memVars, callVars
<1>0. TypeOK /\ PhaseInv
  BY Zenon DEF IInv
<1>1. CASE Call(p) \/ BeginSleep(p) \/ LogWrite(p) \/ WriteLogEnd(p) \/ InstallEnd(p) \/ CommitDone(p)
  <2>1. hdr' = hdr /\ slot' = slot /\ disk' = disk /\ cache' = cache /\ boot' = boot /\ outstanding' = outstanding
    BY <1>1, Zenon DEF Call, BeginSleep, LogWrite, WriteLogEnd, InstallEnd, CommitDone
  <2>q. QED  BY <2>1, FrameMem, Zenon DEF Stutter
<1>2. CASE BeginTake(p)
  <2>1. hdr' = hdr /\ slot' = slot /\ disk' = disk /\ cache' = cache /\ boot' = boot /\ outstanding' = outstanding + 1
    BY <1>2, Zenon DEF BeginTake
  <2>2. Abs!Begin
    BY <2>1, FrameMem, Zenon DEF Abs!Begin
  <2>q. QED  BY <2>2, Zenon DEF Abs!Next
<1>3. CASE EndMore(p) \/ EndLast(p)
  <2>1. /\ hdr' = hdr /\ slot' = slot /\ disk' = disk /\ cache' = cache /\ boot' = boot
        /\ pc[p] = "op" /\ (outstanding' = outstanding - 1 \/ (outstanding = 1 /\ outstanding' = 0))
    <3>1. CASE EndMore(p)
      BY <3>1, Zenon DEF EndMore
    <3>2. CASE EndLast(p)
      BY <3>2, Zenon DEF EndLast
    <3>q. QED  BY <1>3, <3>1, <3>2, Zenon
  <2>2. outstanding > 0 /\ outstanding' = outstanding - 1
    BY <2>1, NoCommit
  <2>3. Abs!End
    BY <2>1, <2>2, FrameMem, Zenon DEF Abs!End
  <2>q. QED  BY <2>3, Zenon DEF Abs!Next
<1>4. ASSUME NEW b \in Block, NEW v \in Val, Modify(p, b, v) PROVE Abs!Next
  <2>1. /\ pc[p] = "op" /\ hdr' = hdr /\ slot' = slot /\ disk' = disk /\ boot' = boot /\ outstanding' = outstanding
        /\ cache'[b] = v /\ v # NoBuf /\ \A c \in Block : c # b => cache'[c] = cache[c]
    BY <1>0, <1>4, LogAssumption, Zenon DEF Modify, TypeOK
  <2>2. boot = "up" /\ outstanding > 0
    <3>1. pc[p] \in {"op", "append"}
      BY <2>1, Zenon
    <3>2. boot = "up" /\ outstanding \in Nat /\ outstanding # 0
      BY <3>1, NoCommit, Zenon
    <3>q. QED  BY <3>2
  <2>3. Contents(b)' = v /\ \A c \in Block : c # b => Contents(c)' = Contents(c)
    BY <2>1, Zenon DEF Contents
  <2>4. Mem = [c \in Block |-> Contents(c)] /\ Mem' = [c \in Block |-> Contents(c)']
    BY <2>1, <2>2, Zenon DEF Mem
  <2>5. Mem' = [Mem EXCEPT ![b] = v]
    BY <2>3, <2>4, Zenon
  <2>6. Abs!Write(b, v)
    BY <2>1, <2>2, <2>5, FrameMem, Zenon DEF Abs!Write
  <2>q. QED  BY <2>6, Zenon DEF Abs!Next
<1>q. QED  BY <1>1, <1>2, <1>3, <1>4, Zenon

(* The write of the header is the commit; copying to the log before it and *)
(* installing after it change neither view.                                *)
LEMMA CommitImplements ==
  ASSUME IInv, IInv', NEW p \in Proc,
         WriteLogBlock(p) \/ WriteHead(p) \/ InstallBlock(p) \/ Erase(p)
  PROVE  Abs!Next \/ Stutter
<1>. USE DEF Goto, diskVars, memVars, callVars
<1>0. TypeOK /\ HdrInv /\ CacheInv /\ CopyInv
  BY Zenon DEF IInv
<1>a. /\ boot = "up" /\ outstanding = 0 /\ \A b : ~InUse(b)
      /\ \A q \in Proc : q # p => pc[q] \in {"run", "begin", "asleep"}
  BY CommitAlone, Zenon DEF WriteLogBlock, WriteHead, InstallBlock, Erase, Committer
<1>b. boot' = boot /\ outstanding' = outstanding
  BY Zenon DEF WriteLogBlock, WriteHead, InstallBlock, Erase
<1>c. RecoveredBlocks /\ RecoveredBlocks'
  <2>1. IInv' => RecoveredBlocks'
    BY RecoveredBlock, PTL
  <2>q. QED  BY <2>1, RecoveredBlock, Zenon
<1>d. Mem = [b \in Block |-> Contents(b)] /\ Mem' = [b \in Block |-> Contents(b)']
  BY <1>a, <1>b, Zenon DEF Mem
<1>1. CASE WriteLogBlock(p)
  <2>1. disk' = disk /\ hdr' = hdr /\ cache' = cache /\ pc[p] = "log"
    BY <1>1, Zenon DEF WriteLogBlock
  <2>2. hdr = <<>>
    BY <1>0, <1>a, <2>1, Zenon DEF HdrInv
  <2>3. Recovered' = Recovered
    BY <1>c, <2>1, <2>2, Zenon DEF RecoveredBlocks
  <2>4. Mem' = Mem
    BY <1>d, <2>1, Zenon DEF Contents
  <2>q. QED  BY <1>b, <2>3, <2>4, Zenon DEF Stutter
<1>2. CASE WriteHead(p)
  <2>1. disk' = disk /\ slot' = slot /\ cache' = cache /\ hdr' = lh /\ pc[p] = "head"
    BY <1>2, Zenon DEF WriteHead
  <2>2. Mem' = Mem
    BY <1>d, <2>1, Zenon DEF Contents
  <2>3. ASSUME NEW b \in Block PROVE Recovered'[b] = Contents(b)
    <3>1. CASE Logged(b)
      <4>1. PICK k \in 1 .. Len(lh) : lh[k] = b
        BY <3>1, Zenon DEF Logged
      <4>2. slot[k] = Contents(b)
        BY <1>0, <2>1, <4>1, Zenon DEF CopyInv
      <4>3. Recovered'[b] = slot[k]
        BY <1>c, <2>1, <4>1, Zenon DEF RecoveredBlocks
      <4>q. QED  BY <4>2, <4>3, Zenon
    <3>2. CASE ~Logged(b)
      <4>1. Contents(b) = disk[b]
        BY <1>0, <1>a, <3>2, CleanContents, Zenon DEF CacheInv
      <4>2. Recovered'[b] = disk[b]
        BY <1>c, <2>1, <3>2, Zenon DEF RecoveredBlocks, Logged
      <4>q. QED  BY <4>1, <4>2, Zenon
    <3>q. QED  BY <3>1, <3>2, Zenon
  <2>4. Recovered' = [b \in Block |-> Recovered'[b]]
    BY Zenon DEF Recovered
  <2>5. Recovered' = Mem
    BY <1>d, <2>3, <2>4, Zenon
  <2>6. Abs!Commit
    BY <1>a, <1>b, <2>2, <2>5, Zenon DEF Abs!Commit
  <2>q. QED  BY <2>6, Zenon DEF Abs!Next
<1>3. CASE InstallBlock(p)
  <2>1. hdr' = hdr /\ slot' = slot /\ pc[p] = "install" /\ tail < Len(lh) /\ InstallTrans /\ lh' = lh
    BY <1>3, Zenon DEF InstallBlock
  <2>2. hdr = lh
    BY <1>0, <2>1, Zenon DEF HdrInv
  <2>3. \A b \in Block : Recovered'[b] = Recovered[b]
    BY <1>c, <2>1, <2>2, InstallRecovered, Zenon
  <2>4. slot[tail + 1] = Contents(lh[tail + 1])
    BY <1>0, <2>1, InstallEffect, Zenon DEF CopyInv
  <2>5. \A b \in Block : Contents(b)' = Contents(b)
    BY <2>1, <2>4, InstallEffect, Zenon DEF Contents
  <2>6. Mem' = Mem
    BY <1>d, <2>5, Zenon
  <2>q. QED  BY <1>b, <2>3, <2>6, RecoveredSame, Zenon DEF Stutter
<1>4. CASE Erase(p)
  <2>1. disk' = disk /\ slot' = slot /\ cache' = cache /\ hdr' = <<>> /\ pc[p] = "erase"
    BY <1>4, Zenon DEF Erase
  <2>2. hdr = lh /\ \A k \in 1 .. Len(lh) : disk[lh[k]] = slot[k]
    BY <1>0, <2>1, Zenon DEF HdrInv, CopyInv
  <2>3. ASSUME NEW b \in Block PROVE Recovered'[b] = Recovered[b]
    <3>1. Recovered' = disk
      BY <1>c, <2>1, Zenon DEF RecoveredBlocks
    <3>2. CASE \E k \in 1 .. Len(hdr) : hdr[k] = b
      <4>1. PICK k \in 1 .. Len(hdr) : hdr[k] = b
        BY <3>2, Zenon
      <4>2. Recovered[hdr[k]] = slot[k]
        BY <1>c, Zenon DEF RecoveredBlocks
      <4>3. disk[hdr[k]] = slot[k]
        BY <2>2, Zenon
      <4>q. QED  BY <3>1, <4>1, <4>2, <4>3, Zenon
    <3>3. CASE \A k \in 1 .. Len(hdr) : hdr[k] # b
      <4>1. Recovered[b] = disk[b]
        BY <1>c, <3>3, Zenon DEF RecoveredBlocks
      <4>q. QED  BY <3>1, <4>1, Zenon
    <3>q. QED  BY <3>2, <3>3, Zenon
  <2>4. Mem' = Mem
    BY <1>d, <2>1, Zenon DEF Contents
  <2>q. QED  BY <1>b, <2>3, <2>4, RecoveredSame, Zenon DEF Stutter
<1>q. QED  BY <1>1, <1>2, <1>3, <1>4, Zenon

(* A crash is a crash; a recovery, however often interrupted, changes      *)
(* neither view.                                                           *)
LEMMA BootImplements ==
  ASSUME IInv, IInv', Boots
  PROVE  Abs!Next \/ Stutter
<1>. USE DEF Goto, diskVars, memVars, callVars
<1>0. TypeOK /\ HdrInv /\ CacheInv /\ CopyInv
  BY Zenon DEF IInv
<1>c. RecoveredBlocks /\ RecoveredBlocks'
  <2>1. IInv' => RecoveredBlocks'
    BY RecoveredBlock, PTL
  <2>q. QED  BY <2>1, RecoveredBlock, Zenon
<1>1. CASE Crash
  <2>1. hdr' = hdr /\ slot' = slot /\ disk' = disk /\ boot' = "readhead" /\ outstanding' = 0
    BY <1>1, Zenon DEF Crash
  <2>2. Recovered' = Recovered /\ Mem' = Recovered'
    BY <2>1, FrameMem, Zenon DEF Mem
  <2>3. Abs!Crash
    BY <2>1, <2>2, Zenon DEF Abs!Crash
  <2>q. QED  BY <2>3, Zenon DEF Abs!Next
<1>2. CASE ReadHead \/ RecoverEnd
  <2>1. /\ hdr' = hdr /\ slot' = slot /\ disk' = disk /\ boot # "up" /\ boot' # "up"
        /\ outstanding' = outstanding
    BY <1>2, Zenon DEF ReadHead, RecoverEnd
  <2>q. QED  BY <2>1, FrameMem, Zenon DEF Mem, Stutter
<1>3. CASE RecoverBlock
  <2>1. /\ hdr' = hdr /\ slot' = slot /\ boot = "install" /\ boot' = boot /\ tail < Len(lh) /\ InstallTrans
        /\ outstanding' = outstanding
    BY <1>3, Zenon DEF RecoverBlock
  <2>2. hdr = lh
    BY <1>0, <2>1, Zenon DEF HdrInv
  <2>3. \A b \in Block : Recovered'[b] = Recovered[b]
    BY <1>c, <2>1, <2>2, InstallRecovered, Zenon
  <2>q. QED  BY <2>1, <2>3, RecoveredSame, Zenon DEF Mem, Stutter
<1>4. CASE RecoverErase
  <2>1. /\ disk' = disk /\ slot' = slot /\ cache' = cache /\ hdr' = <<>> /\ boot = "erase" /\ boot' = "up"
        /\ outstanding' = outstanding
    BY <1>4, Zenon DEF RecoverErase
  <2>2. hdr = lh /\ \A k \in 1 .. Len(lh) : disk[lh[k]] = slot[k]
    BY <1>0, <2>1, Zenon DEF HdrInv, CopyInv
  <2>3. \A b \in Block : Recovered'[b] = Recovered[b]
    BY <1>c, <2>1, <2>2 DEF RecoveredBlocks
  <2>4. Recovered' = Recovered
    BY <2>3, RecoveredSame, Zenon
  <2>5. \A b \in Block : Contents(b)' = disk[b]
    <3>1. \A b \in Block : b \notin dirty /\ ~InUse(b)
      BY <1>0, <2>1, BootAlone, Zenon DEF CacheInv
    <3>2. \A b \in Block : Contents(b) = disk[b]
      BY <3>1, CleanContents, Zenon
    <3>q. QED  BY <2>1, <3>2, Zenon DEF Contents
  <2>6. Mem' = [b \in Block |-> Contents(b)'] /\ Mem = Recovered
    BY <2>1, Zenon DEF Mem
  <2>7. Recovered' = disk' /\ disk = [b \in Block |-> disk[b]]
    BY <1>0, <1>c, <2>1, Zenon DEF RecoveredBlocks, TypeOK
  <2>8. Mem' = disk
    BY <2>5, <2>6, <2>7, Zenon
  <2>q. QED  BY <2>1, <2>4, <2>6, <2>7, <2>8, Zenon DEF Stutter
<1>q. QED  BY <1>1, <1>2, <1>3, <1>4, Zenon DEF Boots

-----------------------------------------------------------------------------
(* The library's theorems about finite sets, for the counting above.       *)
INSTANCE FiniteSetTheorems

LEMMA Finite == FiniteFacts
<1>1. SizeFact /\ EmptyFact /\ SingletonFact
  BY FS_CardinalityType, FS_EmptySet, FS_Singleton, Zenon DEF SizeFact, EmptyFact, SingletonFact
<1>2. AddFact /\ RemoveFact
  BY FS_AddElement, FS_RemoveElement, Zenon DEF AddFact, RemoveFact
<1>3. SubsetFact /\ UnionFact
  BY FS_Subset, FS_Union, Zenon DEF SubsetFact, UnionFact
<1>4. IntervalFact /\ ProductFact
  BY FS_Interval, FS_Product, Zenon DEF IntervalFact, ProductFact
<1>q. QED  BY <1>1, <1>2, <1>3, <1>4, Zenon DEF FiniteFacts

(* The invariant holds in every reachable state, crashes included, of a    *)
(* system whose calls write no more blocks than begin_op() reserves.       *)
THEOREM Invariance ==
  ASSUME OpBlocks <= MAXOPBLOCKS
  PROVE  Spec => []IInv
<1>1. Init => IInv
  BY InitIInv, Finite, Zenon
<1>2. IInv /\ [Next]_vars => IInv'
  BY NextIInv, Finite, Zenon
<1>q. QED  BY <1>1, <1>2, PTL DEF Spec

(* Once end_op() of the last call has returned, the writes of every call   *)
(* that ended survive a crash, for any number of processes and blocks.     *)
THEOREM Durability ==
  ASSUME OpBlocks <= MAXOPBLOCKS
  PROVE  Spec => []Durable
<1>1. IInv => Durable
  BY QuietIsDurable, Zenon
<1>q. QED  BY <1>1, Invariance, PTL

(* A call sleeps in begin_op() only while a commit is under way or calls   *)
(* in progress may need the rest of the log, for any number of calls.      *)
THEOREM SleepSafety ==
  ASSUME OpBlocks <= MAXOPBLOCKS
  PROVE  Spec => []SleepsForReason
<1>1. Init => SleepsForReason
  BY Zenon DEF Init, SleepsForReason
<1>2. IInv /\ SleepsForReason /\ [Next]_vars => SleepsForReason'
  <2>1. UNCHANGED vars /\ SleepsForReason => SleepsForReason'
    BY DEF vars, memVars, callVars, SleepsForReason, NoSpace
  <2>q. QED  BY <2>1, SleepStep, Zenon
<1>q. QED  BY <1>1, <1>2, Invariance, PTL DEF Spec

(* The log implements the transactions of LogAbs: at whatever write a      *)
(* crash comes, a recovery finds the blocks as they were at a moment when  *)
(* no call was in progress, at or after the last commit.                   *)
THEOREM Implements ==
  ASSUME OpBlocks <= MAXOPBLOCKS
  PROVE  Spec => ImplementsTransactions
<1>1. Init => Abs!Init
  <2>. SUFFICES ASSUME Init PROVE Abs!Init
    BY Zenon
  <2>1. IInv
    BY InitIInv, Finite, Zenon
  <2>2. Recovered = InitDisk
    BY <2>1, RecoveredBlock, Zenon DEF RecoveredBlocks, Init
  <2>3. Mem = InitDisk
    <3>1. \A b \in Block : Contents(b) = InitDisk[b]
      BY Zenon DEF Init, Contents
    <3>2. Mem = [b \in Block |-> Contents(b)]
      BY Zenon DEF Init, Mem
    <3>q. QED  BY <3>1, <3>2, LogAssumption, Zenon
  <2>q. QED  BY <2>2, <2>3, Zenon DEF Init, Abs!Init
<1>2. IInv /\ IInv' /\ [Next]_vars => [Abs!Next]_<<Mem, Recovered, outstanding>>
  <2>1. SUFFICES ASSUME IInv, IInv', [Next]_vars PROVE Abs!Next \/ Stutter
    BY Zenon DEF Stutter
  <2>2. CASE UNCHANGED vars
    BY <2>2, FrameMem, Zenon DEF vars, diskVars, memVars, Stutter
  <2>3. CASE \E p \in Proc : Branch(p)
    BY <2>1, <2>3, CallImplements, CommitImplements, Zenon DEF Branch
  <2>4. ASSUME NEW b \in Block, Recycle(b) PROVE Stutter
    <3>1. /\ b \notin dirty /\ ~InUse(b) /\ cache'[b] = NoBuf /\ \A c \in Block : c # b => cache'[c] = cache[c]
          /\ hdr' = hdr /\ slot' = slot /\ disk' = disk /\ boot' = boot /\ outstanding' = outstanding
      BY <2>1, <2>4, Zenon DEF Recycle, IInv, TypeOK, diskVars, callVars
    <3>2. \A c \in Block : Contents(c)' = Contents(c)
      BY <2>1, <3>1, CleanContents, Zenon DEF Contents
    <3>3. Recovered' = Recovered
      BY <3>1, FrameMem, Zenon
    <3>q. QED  BY <3>1, <3>2, <3>3, Zenon DEF Mem, Stutter
  <2>5. CASE Boots
    BY <2>1, <2>5, BootImplements, Zenon
  <2>q. QED  BY <2>1, <2>2, <2>3, <2>4, <2>5, NextBranches, Zenon DEF IInv
<1>q. QED  BY <1>1, <1>2, Invariance, PTL DEF Spec, ImplementsTransactions, Abs!Spec

(* The list of blocks never outgrows the log, names no block twice and     *)
(* never makes log_write() panic, if every call leaves some of its         *)
(* reservation unused: one block of it, and one more for each block by     *)
(* which the log on disk is short of LOGSIZE + 1.  mkfs makes it LOGSIZE   *)
(* long, header included, so a call may write MAXOPBLOCKS - 2 blocks.      *)
THEOREM FitSafety ==
  ASSUME OpBlocks < MAXOPBLOCKS, LOGSIZE - (MAXOPBLOCKS - OpBlocks) < NLOG - 1
  PROVE  Spec => []LogFits
<1>0. /\ LOGSIZE \in Nat /\ NLOG \in Nat /\ OpBlocks \in Nat /\ MAXOPBLOCKS \in Nat
      /\ OpBlocks <= MAXOPBLOCKS /\ MAXOPBLOCKS <= LOGSIZE
      /\ Slack \in Nat /\ Slack # 0 /\ Slack <= LOGSIZE /\ LOGSIZE - Slack < NLOG - 1
  BY LogAssumption DEF Slack
<1>1. Init => SlackInv
  BY <1>0 DEF Init, SlackInv
<1>2. IInv /\ SlackInv /\ [Next]_vars => SlackInv'
  <2>1. UNCHANGED vars /\ SlackInv => SlackInv'
    BY Zenon DEF vars, memVars, callVars, diskVars, SlackInv
  <2>q. QED  BY <1>0, <2>1, SlackStep, Finite, Zenon
<1>3. IInv /\ SlackInv => LogFits
  <2>1. IInv => Len(lh) \in Nat /\ \A j, k \in 1 .. Len(lh) : lh[j] = lh[k] => j = k
    BY DEF IInv, TypeOK, ListInv
  <2>q. QED  BY <1>0, <2>1 DEF SlackInv, LogFits
<1>4. Spec => []IInv
  BY <1>0, Invariance, Zenon
<1>q. QED  BY <1>1, <1>2, <1>3, <1>4, PTL DEF Spec

(* The reservations of begin_op() are enough and no more than that: the    *)
(* list of blocks fits in the log, and who sleeps for space has a reason.  *)
(* As in FitSafety, every call must leave a block of its reservation       *)
(* unused, and one more for each block the log on disk is short.           *)
THEOREM ReservationSafety ==
  ASSUME OpBlocks < MAXOPBLOCKS, LOGSIZE - (MAXOPBLOCKS - OpBlocks) < NLOG - 1
  PROVE  Spec => []ReservationExact
<1>1. OpBlocks <= MAXOPBLOCKS
  BY LogAssumption
<1>2. Spec => []SleepsForReason
  BY <1>1, SleepSafety, Zenon
<1>3. Spec => []LogFits
  BY FitSafety, Zenon
<1>4. LogFits /\ SleepsForReason => ReservationExact
  BY Zenon DEF ReservationExact
<1>q. QED  BY <1>2, <1>3, <1>4, PTL
=============================================================================
