------------------------------- MODULE MCLive -------------------------------
(***************************************************************************)
(* What must eventually happen, side by side: sleep locks, a pipe, the     *)
(* log, the buffer cache, the console, the allocator, round robin and the  *)
(* shell.  As in MCServices, `moves' is the one that takes steps in a      *)
(* behaviour.  Because it never changes, a fairness condition of one       *)
(* component and one of another can be stated together: fairness of        *)
(* "moves is x and A, or moves is y and B" is fairness of A where x moves  *)
(* and of B where y does.                                                  *)
(***************************************************************************)
EXTENDS Sh

VARIABLES
  moves,
  locked, holder, sleepPc, sleepLk, mine,
  data, nread, nwrite, readopen, writeopen, pipeLock, freed, ref, fds, pipePc, pipeN, pipeI, pipeKilled,
  disk, slot, hdr, cache, dirty, lh, outstanding, committing, opPc, opBuf, wrote, tail, boot,
  bufs, list, queue, active, ideDisk, ioPc, blk, held, last,
  input, consR, consW, consE, consLock, consPc, consN, some, consKilled,
  ptr, size, freep, brk, heapPc, block, prevp, bp, nunits, used, gaps,
  state, tickets, total_tickets, running, plock, scan, winner, counter, first

shVars == vars
sleepVars == <<locked, holder, sleepPc, sleepLk, mine>>
pipeVars == <<data, nread, nwrite, readopen, writeopen, pipeLock, freed, ref, fds, pipePc, pipeN, pipeI, pipeKilled>>
logVars == <<disk, slot, hdr, cache, dirty, lh, outstanding, committing, opPc, opBuf, wrote, tail, boot>>
ideVars == <<bufs, list, queue, active, ideDisk, ioPc, blk, held, last>>
consVars == <<input, consR, consW, consE, consLock, consPc, consN, some, consKilled>>
heapVars == <<ptr, size, freep, brk, heapPc, block, prevp, bp, nunits, used, gaps>>
robinVars == <<state, tickets, total_tickets, running, plock, scan, winner, counter, first>>
allVars == <<moves, shVars, sleepVars, pipeVars, logVars, ideVars, consVars, heapVars, robinVars>>

-----------------------------------------------------------------------------
\* Three processes and a lock.
S == INSTANCE Sleeplock WITH
  Proc <- 1 .. 3, Lock <- {1}, NoPid <- 0, pid <- holder, pc <- sleepPc, lk <- sleepLk

\* A writer and a reader, both of which may be killed, and room for one byte.
P == INSTANCE Pipe WITH
  Proc <- {1, 2}, Nobody <- 0, Opens <- <<{"w"}, {"r"}>>, Killable <- {1, 2},
  Byte <- {0}, Junk <- 0, PIPESIZE <- 1, Modulus <- 2, MaxN <- 2,
  lock <- pipeLock, pc <- pipePc, n <- pipeN, i <- pipeI, killed <- pipeKilled

\* Two processes and a log that has room for one call at a time.
G == INSTANCE Log WITH
  Proc <- {1, 2}, Block <- {1, 2}, Val <- {0}, InitDisk <- <<0, 0>>, NoBuf <- 3,
  LOGSIZE <- 3, MAXOPBLOCKS <- 2, NLOG <- 4, OpBlocks <- 1, pc <- opPc, buf <- opBuf

\* Two processes, two blocks and two buffers.
B == INSTANCE BufferCache WITH
  Proc <- {1, 2}, Block <- {1, 2}, Val <- {0}, NBUF <- 2, MaxPinned <- 0,
  InitDisk <- <<0, 0>>, None <- 0, Faulty <- FALSE, MemDisk <- FALSE,
  disk <- ideDisk, pc <- ioPc, b <- held

\* A reader and a ring of two characters.
C == INSTANCE Console WITH
  INPUT_BUF <- 2, WRAP <- 4, Char <- {"a"}, Reader <- {"r1"}, Lengths <- {1, 2}, Start <- 3,
  buf <- input, r <- consR, w <- consW, e <- consE, lock <- consLock, pc <- consPc, n <- consN, killed <- consKilled

\* A heap of five units.
U == INSTANCE Umalloc WITH
  N <- 5, HSIZE <- 8, MORE <- 3, Bytes <- {0, 1, 17}, Gap <- TRUE, pc <- heapPc, p <- block

\* Round robin on one processor.
R == INSTANCE Schedulers WITH
  CPU <- {1}, NPROC <- 3, NoCPU <- 0, NoProc <- 0, Which <- "scheduler2", TicketArg <- {1, 2},
  MaxTotal <- 3, proc <- running, i <- scan

\* i|k  or, in the background,  j|k&  and the end of the input
Session == {<<"i", "|", "k">>, <<>>}
MCSessions == {Session, {<<"j", "|", "k", "&">>, <<>>}}

-----------------------------------------------------------------------------
LiveInit ==
  /\ moves \in {"sh", "sleeplock", "pipe", "log", "ide", "console", "malloc", "robin"}
  /\ ShInit /\ (moves # "sh" => todo = Session)
  /\ S!Init /\ P!Init /\ G!Init /\ B!Init /\ C!Init /\ U!Init /\ R!Init

Rest(x) ==
  /\ UNCHANGED moves
  /\ x # "sh" => UNCHANGED shVars
  /\ x # "sleeplock" => UNCHANGED sleepVars
  /\ x # "pipe" => UNCHANGED pipeVars
  /\ x # "log" => UNCHANGED logVars
  /\ x # "ide" => UNCHANGED ideVars
  /\ x # "console" => UNCHANGED consVars
  /\ x # "malloc" => UNCHANGED heapVars
  /\ x # "robin" => UNCHANGED robinVars

LiveNext ==
  /\ \/ moves = "sh" /\ ShNext
     \/ moves = "sleeplock" /\ S!Next
     \/ moves = "pipe" /\ P!Next
     \/ moves = "log" /\ G!Next
     \/ moves = "ide" /\ B!Next
     \/ moves = "console" /\ C!Next
     \/ moves = "malloc" /\ U!Next
     \/ moves = "robin" /\ R!Next
  /\ Rest(moves)

-----------------------------------------------------------------------------
\* What is weakly fair: the steps of a call, the disk, the clock and recovery.
Weak(k) ==
  \/ moves = "sleeplock" /\ IF k <= 3 THEN S!Acquiresleep(k) ELSE S!Releasesleep(k - 3)
  \/ moves = "pipe" /\ k <= 2 /\ P!Step(k)
  \/ moves = "pipe" /\ k \in {3, 4} /\ pipeKilled[k - 2] /\ \E end \in P!Ends : P!Close(k - 2, end)
  \/ moves = "log" /\ IF k <= 2 THEN G!Step(k) ELSE k = 3 /\ G!Recover
  \/ moves = "ide" /\ IF k <= 2 THEN B!Step(k) ELSE k = 3 /\ B!Interrupt
  \/ moves = "malloc" /\ k = 1 /\ U!Step
  \/ moves = "robin" /\ CASE k = 1 -> R!Step(1)
                           [] k = 2 -> R!StartPass(1)
                           [] k = 3 -> R!Yield(1)
                           [] OTHER -> FALSE
  \/ moves = "sh" /\ IF k = INIT THEN InitFork \/ InitWait
                                 ELSE ShellStep(k) \/ (SeesEof(k) /\ ProgExit(k))

\* What is strongly fair: waiting for a lock that is released again and again.
Strong(k) ==
  \/ moves = "sleeplock" /\ k <= 3 /\ S!CallRelease(k, 1)
  \/ moves = "pipe" /\ IF k <= 2 THEN P!Acquire(k) ELSE P!Pipeclose(k - 2)
  \/ moves = "log" /\ k <= 2 /\ G!EndOp(k)
  \/ moves = "ide" /\ IF k <= 2 THEN B!Acquire(k) ELSE B!Leave(k - 2)
  \/ moves = "console" /\ k = 1 /\ (C!Wait("r1") \/ C!Take("r1"))

LiveSpec ==
  /\ LiveInit /\ [][LiveNext]_allVars
  /\ \A k \in 1 .. 6 : WF_allVars(Weak(k) /\ Rest(moves))
  /\ \A k \in 1 .. 4 : SF_allVars(Strong(k) /\ Rest(moves))

-----------------------------------------------------------------------------
(* Nobody waits for ever in the kernel: a sleeper in acquiresleep() and in *)
(* begin_op() is woken to try again, a pipe's read or write ends once the  *)
(* other end is closed or its process is killed, bread() and bwrite()      *)
(* return, a killed reader leaves consoleread(), and round robin gives     *)
(* every process the processor.                                            *)
KernelGoesOn ==
  /\ S!WaitersGetTheirTurn /\ P!CallReturns /\ G!SleeperWakes
  /\ B!BreadReturns /\ C!KilledReturns
  /\ moves = "robin" => R!RobinRuns

(* Programs go on: malloc() and free() return, the shell is at its prompt  *)
(* again and again, and every process that exits is reaped.                *)
ProgramsGoOn ==
  /\ U!Returns /\ Reaped
  /\ moves = "sh" => PromptReturns
=============================================================================
