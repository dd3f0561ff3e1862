----------------------------- MODULE MCServices -----------------------------
(***************************************************************************)
(* Services of the kernel side by side: a pipe, the console, the buffer    *)
(* cache over each of its two drivers, the file table and the lottery.     *)
(* They have no variable in common, so that what one does is independent   *)
(* of the steps of the others; `moves' is the one that takes steps in a    *)
(* behaviour, and the others stay in their initial state.                  *)
(***************************************************************************)
EXTENDS Pipe

VARIABLES
  moves,
  buf, r, w, e, consLock, consPc, consN, some, consKilled,
  bufs, list, queue, active, disk, ioPc, blk, held, last,
  memBufs, memList, memQueue, memActive, memDisk, memPc, memBlk, memHeld, memLast,
  ftable, ofile, pipe, iref, st, job,
  state, tickets, total_tickets, proc, plock, slot, winner, counter, first

consVars == <<buf, r, w, e, consLock, consPc, consN, some, consKilled>>
ideVars == <<bufs, list, queue, active, disk, ioPc, blk, held, last>>
memVars == <<memBufs, memList, memQueue, memActive, memDisk, memPc, memBlk, memHeld, memLast>>
tableVars == <<ftable, ofile, pipe, iref, st, job>>
drawVars == <<state, tickets, total_tickets, proc, plock, slot, winner, counter, first>>

-----------------------------------------------------------------------------
\* The pipe has two writers and a reader that may be killed; the second
\* writer also reads.
ThreeOpens == <<{"w"}, {"w", "r"}, {"r"}>>

\* Two readers and a ring of two characters, about to wrap around.
C == INSTANCE Console WITH
  INPUT_BUF <- 2, WRAP <- 4, Char <- {"a", "b"}, Reader <- {"r1", "r2"}, Lengths <- {1, 2}, Start <- 3,
  lock <- consLock, pc <- consPc, n <- consN, killed <- consKilled

\* Two processes, two buffers for three blocks.
B == INSTANCE BufferCache WITH
  Proc <- {1, 2}, Block <- {1, 2, 3}, Val <- {0, 1}, NBUF <- 2, MaxPinned <- 0,
  InitDisk <- <<0, 0, 0>>, None <- 0, Faulty <- FALSE, MemDisk <- FALSE,
  pc <- ioPc, b <- held

\* The kernel with a memory disk: a process that pins one of two buffers.
M == INSTANCE BufferCache WITH
  Proc <- {1}, Block <- {1, 2, 3}, Val <- {0, 1}, NBUF <- 2, MaxPinned <- 1,
  InitDisk <- <<0, 0, 0>>, None <- 0, Faulty <- FALSE, MemDisk <- TRUE,
  bufs <- memBufs, list <- memList, queue <- memQueue, active <- memActive, disk <- memDisk,
  pc <- memPc, blk <- memBlk, b <- memHeld, last <- memLast

\* Three files, two descriptors for each process, a page for a pipe.
T == INSTANCE FileTable WITH
  Proc <- {1, 2}, InitProc <- 1, NFILE <- 3, NOFILE <- 2, Ip <- {1}, Page <- {1}

\* The lottery on two processors.
L == INSTANCE Schedulers WITH
  CPU <- {1, 2}, NPROC <- 3, NoCPU <- 0, NoProc <- 0, Which <- "scheduler1", TicketArg <- {1, 2},
  MaxTotal <- 3, i <- slot

ASSUME
  /\ C!ConsoleAssumption /\ B!BcacheAssumption /\ M!BcacheAssumption
  /\ T!FileTableAssumption /\ L!SchedulersAssumption

-----------------------------------------------------------------------------
ServicesInit ==
  /\ moves \in {"pipe", "console", "ide", "memide", "ftable", "lottery"}
  /\ Init /\ C!Init /\ B!Init /\ M!Init /\ T!Init /\ L!Init

ServicesNext ==
  /\ UNCHANGED moves
  /\ \/ moves = "pipe" /\ Next
          /\ UNCHANGED <<consVars, ideVars, memVars, tableVars, drawVars>>
     \/ moves = "console" /\ C!Next
          /\ UNCHANGED <<vars, ideVars, memVars, tableVars, drawVars>>
     \/ moves = "ide" /\ B!Next
          /\ UNCHANGED <<vars, consVars, memVars, tableVars, drawVars>>
     \/ moves = "memide" /\ M!Next
          /\ UNCHANGED <<vars, consVars, ideVars, tableVars, drawVars>>
     \/ moves = "ftable" /\ T!Next
          /\ UNCHANGED <<vars, consVars, ideVars, memVars, drawVars>>
     \/ moves = "lottery" /\ L!Next
          /\ UNCHANGED <<vars, consVars, ideVars, memVars, tableVars>>

ServicesSpec ==
  ServicesInit /\ [][ServicesNext]_<<moves, vars, consVars, ideVars, memVars, tableVars, drawVars>>

-----------------------------------------------------------------------------
(* A reader sleeps in consoleread() only while nothing is entered and it   *)
(* is not killed, and a full input buffer can be read, newline or not.     *)
ConsoleSafe == C!SleepsOnEmpty /\ C!FullIsReadable

(* The input ring of console.c is a line editor in front of a queue, and a *)
(* ^D ends a read: it comes alone, as a read of nothing.                   *)
ConsoleEdits == C!ImplementsEditor /\ C!EofAlone

(* Each block is in one buffer with an exact reference count, bread()      *)
(* returns what was written last, and a write is on the disk or in a       *)
(* buffer that bget() does not recycle.                                    *)
CacheCoherent == B!CacheExact /\ B!ReadsLast /\ B!NothingLost /\ M!ReadsLast /\ M!NothingLost

(* The driver's queue matches the work of the controller and the waiters,  *)
(* and neither bget() nor iderw() panics.                                  *)
DriverExact == B!QueueExact /\ B!NoPanic /\ M!NoPanic

(* The file table is exact: f->ref counts descriptors and calls, an inode  *)
(* and an end of a pipe are owned once by each file on them, and every     *)
(* descriptor names an open file.                                          *)
TableExact == T!RefExact /\ T!InodeRefsExact /\ T!PipeEndsExact /\ T!DescriptorsLive

(* The first process that a pass of scheduler1() runs holds the ticket     *)
(* drawn.                                                                  *)
HolderRunsFirst == L!HolderRunsFirst
=============================================================================
