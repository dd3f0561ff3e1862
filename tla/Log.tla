-------------------------------- MODULE Log ---------------------------------
(***************************************************************************)
(* log.c on a disk that survives crashes: concurrent file system calls,    *)
(* group commit, and recovery at boot, which may itself be interrupted.    *)
(*                                                                         *)
(* A block of the disk is written whole or not at all, and bwrite()        *)
(* returns when the disk has it.  The critical sections of log.lock are    *)
(* single steps; each bwrite() of commit() and of recover_from_log() is a  *)
(* step of its own, and a crash can come between any two.  The buffer      *)
(* cache appears as the copies it holds; a clean copy nobody uses may be   *)
(* dropped at any time (bget recycles it), a B_DIRTY one may not.          *)
(***************************************************************************)
EXTENDS Naturals, Sequences, FiniteSets

CONSTANTS Proc,          \* processes that make file system calls
          Block,         \* the blocks outside the log
          Val,           \* what a block can contain
          InitDisk,      \* the blocks as mkfs wrote them
          NoBuf,         \* no buffer holds the block
          LOGSIZE,       \* param.h
          MAXOPBLOCKS,   \* param.h
          NLOG,          \* sb.nlog, the header block included
          OpBlocks       \* how many different blocks a call really writes

ASSUME LogAssumption ==
  /\ LOGSIZE \in Nat /\ MAXOPBLOCKS \in Nat /\ NLOG \in Nat /\ OpBlocks \in Nat
  /\ MAXOPBLOCKS <= LOGSIZE
  /\ InitDisk \in [Block -> Val] /\ NoBuf \notin Val

VARIABLES
  disk, slot, hdr,    \* on disk: the home blocks, the log blocks, the header
  cache, dirty,       \* in memory: cached copies, and the B_DIRTY ones
  lh,                 \* log.lh: the numbers of the logged blocks
  outstanding, committing,   \* log.outstanding, log.committing
  pc, buf, wrote,     \* a call: where it is, the buffer it has, its blocks
  tail,               \* the loop variable of write_log and install_trans
  boot                \* "up", or where recover_from_log() is

diskVars == <<disk, slot, hdr>>
memVars == <<cache, dirty, lh, outstanding, committing>>
callVars == <<pc, buf, wrote>>
vars == <<diskVars, memVars, callVars, tail, boot>>

PC == {"run", "begin", "asleep", "op", "append", "log", "head", "install",
       "erase", "done", "panic"}

Goto(p, l) == pc' = [pc EXCEPT ![p] = l]

Init ==
  /\ disk = InitDisk /\ slot = [k \in 1 .. LOGSIZE |-> NoBuf] /\ hdr = <<>>
  /\ cache = [b \in Block |-> NoBuf] /\ dirty = {} /\ lh = <<>>
  /\ outstanding = 0 /\ committing = FALSE
  /\ pc = [p \in Proc |-> "run"]
  /\ buf = [p \in Proc |-> NoBuf] /\ wrote = [p \in Proc |-> {}]
  /\ tail = 0 /\ boot = "up"

\* bread(): the cached copy, or the disk's.
Contents(b) == IF cache[b] = NoBuf THEN disk[b] ELSE cache[b]

InUse(b) == \E p \in Proc : pc[p] \in {"append", "panic"} /\ buf[p] = b

\* wakeup(&log)
WakeLog(pcs) == [p \in Proc |-> IF pcs[p] = "asleep" THEN "begin" ELSE pcs[p]]

\* begin_op() has no room for one more call.
NoSpace == Len(lh) + (outstanding + 1) * MAXOPBLOCKS > LOGSIZE

-----------------------------------------------------------------------------
Call(p) ==
  /\ boot = "up" /\ pc[p] = "run"
  /\ Goto(p, "begin")
  /\ UNCHANGED <<diskVars, memVars, buf, wrote, tail, boot>>

(* Mutant: begin_op() does not look at the space left in the log.          *)
BeginOpNoSpace(p) ==
  /\ pc[p] = "begin"
  /\ IF committing
       THEN Goto(p, "asleep") /\ UNCHANGED <<outstanding, wrote>>
       ELSE /\ outstanding' = outstanding + 1
            /\ wrote' = [wrote EXCEPT ![p] = {}]
            /\ Goto(p, "op")
  /\ UNCHANGED <<diskVars, cache, dirty, lh, committing, buf, tail, boot>>

\* One turn of the loop of begin_op().
BeginOp(p) ==
  /\ pc[p] = "begin"
  /\ IF committing \/ NoSpace
       THEN Goto(p, "asleep") /\ UNCHANGED <<outstanding, wrote>>
       ELSE /\ outstanding' = outstanding + 1
            /\ wrote' = [wrote EXCEPT ![p] = {}]
            /\ Goto(p, "op")
  /\ UNCHANGED <<diskVars, cache, dirty, lh, committing, buf, tail, boot>>

\* bread(), a change of the data, and the tests of log_write(), which read
\* log.lh.n and log.outstanding without the lock.
Modify(p, b, v) ==
  /\ pc[p] = "op" /\ ~InUse(b)
  /\ b \in wrote[p] \/ Cardinality(wrote[p]) < OpBlocks
  /\ cache' = [cache EXCEPT ![b] = v]
  /\ buf' = [buf EXCEPT ![p] = b]
  /\ wrote' = [wrote EXCEPT ![p] = @ \union {b}]
  /\ Goto(p, IF Len(lh) >= LOGSIZE \/ Len(lh) >= NLOG - 1 \/ outstanding < 1
               THEN "panic" ELSE "append")
  /\ UNCHANGED <<diskVars, dirty, lh, outstanding, committing, tail, boot>>

\* log_write() under log.lock: append unless the block is already logged.
LogWrite(p) ==
  /\ pc[p] = "append"
  /\ lh' = IF \E k \in 1 .. Len(lh) : lh[k] = buf[p] THEN lh ELSE Append(lh, buf[p])
  /\ dirty' = dirty \union {buf[p]}
  /\ buf' = [buf EXCEPT ![p] = NoBuf]
  /\ Goto(p, "op")
  /\ UNCHANGED <<diskVars, cache, outstanding, committing, wrote, tail, boot>>

\* end_op(): the last call commits, if anything was logged.
EndOp(p) ==
  /\ pc[p] = "op"
  /\ outstanding' = outstanding - 1
  /\ wrote' = [wrote EXCEPT ![p] = {}]
  /\ tail' = 0
  /\ IF committing THEN Goto(p, "panic") /\ UNCHANGED committing
     ELSE IF outstanding = 1
       THEN committing' = TRUE /\ Goto(p, IF lh = <<>> THEN "done" ELSE "log")
       ELSE pc' = [WakeLog(pc) EXCEPT ![p] = "run"] /\ UNCHANGED committing
  /\ UNCHANGED <<diskVars, cache, dirty, lh, buf, boot>>

-----------------------------------------------------------------------------
\* commit(): write_log, write_head, install_trans, write_head.
\* log.lh.block[] counts from 0, sequences from 1.
WriteLog(p) ==
  /\ pc[p] = "log"
  /\ IF tail < Len(lh)
       THEN /\ slot' = [slot EXCEPT ![tail + 1] = Contents(lh[tail + 1])]
            /\ tail' = tail + 1
            /\ UNCHANGED pc
       ELSE Goto(p, "head") /\ UNCHANGED <<slot, tail>>
  /\ UNCHANGED <<disk, hdr, memVars, buf, wrote, boot>>

WriteHead(p) ==
  /\ pc[p] = "head"
  /\ hdr' = lh
  /\ tail' = 0
  /\ Goto(p, "install")
  /\ UNCHANGED <<disk, slot, memVars, buf, wrote, boot>>

(* Mutant: install_trans() does not write the home block.                  *)
InstallNoWrite ==
  LET b == lh[tail + 1] IN
  /\ cache' = [cache EXCEPT ![b] = slot[tail + 1]]
  /\ dirty' = dirty \ {b}
  /\ tail' = tail + 1
  /\ UNCHANGED disk

\* One turn of install_trans(): the home block is written and clean again.
InstallTrans ==
  LET b == lh[tail + 1] IN
  /\ disk' = [disk EXCEPT ![b] = slot[tail + 1]]
  /\ cache' = [cache EXCEPT ![b] = slot[tail + 1]]
  /\ dirty' = dirty \ {b}
  /\ tail' = tail + 1

Install(p) ==
  /\ pc[p] = "install"
  /\ IF tail < Len(lh)
       THEN InstallTrans /\ UNCHANGED pc
       ELSE Goto(p, "erase") /\ UNCHANGED <<disk, cache, dirty, tail>>
  /\ UNCHANGED <<slot, hdr, lh, outstanding, committing, buf, wrote, boot>>

Erase(p) ==
  /\ pc[p] = "erase"
  /\ lh' = <<>> /\ hdr' = <<>>
  /\ Goto(p, "done")
  /\ UNCHANGED <<disk, slot, cache, dirty, outstanding, committing, buf, wrote, tail, boot>>

(* Mutant: the committer does not wake those in begin_op().                *)
CommitDoneNoWakeup(p) ==
  /\ pc[p] = "done"
  /\ committing' = FALSE
  /\ Goto(p, "run")
  /\ UNCHANGED <<diskVars, cache, dirty, lh, outstanding, buf, wrote, tail, boot>>

CommitDone(p) ==
  /\ pc[p] = "done"
  /\ committing' = FALSE
  /\ pc' = [WakeLog(pc) EXCEPT ![p] = "run"]
  /\ UNCHANGED <<diskVars, cache, dirty, lh, outstanding, buf, wrote, tail, boot>>

\* bget() recycles a clean buffer nobody uses.
Recycle(b) ==
  /\ cache[b] # NoBuf /\ b \notin dirty /\ ~InUse(b)
  /\ cache' = [cache EXCEPT ![b] = NoBuf]
  /\ UNCHANGED <<diskVars, dirty, lh, outstanding, committing, callVars, tail, boot>>

-----------------------------------------------------------------------------
\* Power fails: memory is lost, the disk is not.
Crash ==
  /\ boot' = "readhead"
  /\ cache' = [b \in Block |-> NoBuf] /\ dirty' = {} /\ lh' = <<>>
  /\ outstanding' = 0 /\ committing' = FALSE
  /\ pc' = [p \in Proc |-> "run"]
  /\ buf' = [p \in Proc |-> NoBuf] /\ wrote' = [p \in Proc |-> {}]
  /\ tail' = 0
  /\ UNCHANGED diskVars

\* recover_from_log(): read_head, install_trans, clear the log.
ReadHead ==
  /\ boot = "readhead"
  /\ lh' = hdr
  /\ boot' = "install"
  /\ UNCHANGED <<diskVars, cache, dirty, outstanding, committing, callVars, tail>>

(* Mutant: recovery clears the log without installing it.                  *)
RecoverSkips ==
  /\ boot = "install"
  /\ boot' = "erase"
  /\ UNCHANGED <<diskVars, memVars, callVars, tail>>

RecoverInstall ==
  /\ boot = "install"
  /\ IF tail < Len(lh)
       THEN InstallTrans /\ UNCHANGED boot
       ELSE boot' = "erase" /\ UNCHANGED <<disk, cache, dirty, tail>>
  /\ UNCHANGED <<slot, hdr, lh, outstanding, committing, callVars>>

RecoverErase ==
  /\ boot = "erase"
  /\ lh' = <<>> /\ hdr' = <<>>
  /\ boot' = "up"
  /\ UNCHANGED <<disk, slot, cache, dirty, outstanding, committing, callVars, tail>>

Step(p) ==
  \/ BeginOp(p) \/ LogWrite(p) \/ EndOp(p) \/ WriteLog(p) \/ WriteHead(p)
  \/ Install(p) \/ Erase(p) \/ CommitDone(p)

Recover == ReadHead \/ RecoverInstall \/ RecoverErase

Next ==
  \/ \E p \in Proc :
       Call(p) \/ Step(p) \/ \E b \in Block, v \in Val : Modify(p, b, v)
  \/ \E b \in Block : Recycle(b)
  \/ Crash
  \/ Recover

Spec == Init /\ [][Next]_vars

\* Processes run, the machine boots, and a call writes only so many times
\* before it ends.
Fairness ==
  WF_vars(Recover) /\ \A p \in Proc : WF_vars(Step(p)) /\ SF_vars(EndOp(p))

FairSpec == Spec /\ Fairness

-----------------------------------------------------------------------------
\* What a recovery would make of the disk: a logged block comes from the log.
Recovered ==
  [b \in Block |-> IF \E k \in 1 .. Len(hdr) : hdr[k] = b
                     THEN slot[CHOOSE k \in 1 .. Len(hdr) : hdr[k] = b]
                     ELSE disk[b]]

\* The blocks as system calls read them; before the boot is over, as they
\* will.
Mem == IF boot = "up" THEN [b \in Block |-> Contents(b)] ELSE Recovered

(* The log implements the transactions of LogAbs: whatever crash comes at  *)
(* whatever write, a recovery finds the blocks as they were at some moment *)
(* when no call was in progress, at or after the last commit.              *)
Abs == INSTANCE LogAbs
         WITH Block <- Block, Val <- Val, InitDisk <- InitDisk,
              stable <- Recovered, ops <- outstanding, mem <- Mem

ImplementsTransactions == Abs!Spec

(* Once end_op() of the last call has returned, the writes of every call   *)
(* that ended survive a crash.                                             *)
Durable ==
  boot = "up" /\ outstanding = 0 /\ ~committing
    => /\ Recovered = [b \in Block |-> Contents(b)]
       /\ lh = <<>> /\ dirty = {}

(* The in-memory list never names a block twice and never outgrows the     *)
(* log, although log_write() tests its length without the lock; no panic.  *)
LogFits ==
  /\ Len(lh) <= LOGSIZE /\ Len(lh) <= NLOG - 1
  /\ \A j, k \in 1 .. Len(lh) : lh[j] = lh[k] => j = k
  /\ \A p \in Proc : pc[p] # "panic"

(* A call sleeps in begin_op() only while a commit is under way or the     *)
(* calls in progress may need the rest of the log: end_op() wakes it in    *)
(* every other case.                                                       *)
SleepsForReason ==
  \A p \in Proc : pc[p] = "asleep" => committing \/ (NoSpace /\ outstanding > 0)

(* begin_op() admits exactly the calls there is room for: the log never    *)
(* overflows, and nobody waits when a call could be admitted.              *)
ReservationExact == LogFits /\ SleepsForReason

(* A call asleep in begin_op() is eventually woken.                        *)
SleeperWakes == \A p \in Proc : (pc[p] = "asleep") ~> (pc[p] # "asleep")
=============================================================================
