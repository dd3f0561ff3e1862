-------------------------------- MODULE Pipe --------------------------------
(***************************************************************************)
(* pipe.c with the part of file.c that closes its ends: processes that     *)
(* share a pipe write, read, close and are killed.                         *)
(*                                                                         *)
(* nread and nwrite are unsigned counters that wrap around at Modulus      *)
(* (2^32 in the code).  A process in pipewrite() or piperead() holds       *)
(* p->lock except while it sleeps; the steps of the loops are separate     *)
(* actions.  The read end and the write end are two struct files, each     *)
(* shared by the processes whose descriptors refer to it; the close that   *)
(* drops the last reference calls pipeclose().                             *)
(***************************************************************************)
EXTENDS Naturals, Sequences, FiniteSets

CONSTANTS Proc,       \* the processes
          Opens,      \* Opens[p]: the ends p has a descriptor for at first
          Killable,   \* the processes that kill() may be called for
          Byte,       \* the bytes written
          Junk,       \* what kfree() leaves in a page
          PIPESIZE,   \* the size of p->data
          Modulus,    \* the counters count modulo this (2^32)
          MaxN,       \* the largest n of a read or write
          Nobody      \* no process holds p->lock

ASSUME PipeAssumption ==
  /\ IsFiniteSet(Proc) /\ Killable \subseteq Proc
  /\ Opens \in [Proc -> SUBSET {"r", "w"}]
  /\ PIPESIZE \in Nat \ {0} /\ Modulus \in Nat /\ MaxN \in Nat
  /\ Modulus % PIPESIZE = 0 /\ Modulus > PIPESIZE
  /\ Nobody \notin Proc

VARIABLES
  data, nread, nwrite, readopen, writeopen,   \* struct pipe
  lock,     \* the holder of p->lock
  freed,    \* how often kfree(p) was called
  ref,      \* f->ref of the files of the two ends
  fds,      \* the ends a process has a descriptor for
  pc,       \* where in pipe.c the process is
  n, i,     \* the argument n and the local i of the call
  killed    \* proc->killed

pipeVars == <<data, nread, nwrite, readopen, writeopen>>
fileVars == <<ref, fds, freed>>
vars == <<pipeVars, lock, fileVars, pc, n, i, killed>>

Ends == {"r", "w"}

PC == {"run", "write", "wloop", "wsleep", "read", "rtest", "rcopy", "rsleep",
       "closer", "closew"}

Empty == nread = nwrite

Full == nwrite = (nread + PIPESIZE) % Modulus

\* wakeup(): the processes asleep with this pc go back to take the lock.
Wake(pcs, asleep, retry) ==
  [p \in Proc |-> IF pcs[p] = asleep THEN retry ELSE pcs[p]]
WakeReaders(pcs) == Wake(pcs, "rsleep", "read")
WakeWriters(pcs) == Wake(pcs, "wsleep", "write")

Goto(p, l) == pc' = [pc EXCEPT ![p] = l]

\* The locals of a call that returns are dead.
Locals(p, returns) ==
  /\ n' = IF returns THEN [n EXCEPT ![p] = 0] ELSE n
  /\ i' = IF returns THEN [i EXCEPT ![p] = 0] ELSE i

\* pipealloc(): both ends open, nothing written.
Init ==
  /\ data = [k \in 0 .. PIPESIZE - 1 |-> Junk]
  /\ nread = 0 /\ nwrite = 0 /\ readopen = TRUE /\ writeopen = TRUE
  /\ lock = Nobody /\ freed = 0
  /\ fds = Opens
  /\ ref = [e \in Ends |-> Cardinality({p \in Proc : e \in Opens[p]})]
  /\ pc = [p \in Proc |-> "run"]
  /\ n = [p \in Proc |-> 0] /\ i = [p \in Proc |-> 0]
  /\ killed = [p \in Proc |-> FALSE]

-----------------------------------------------------------------------------
\* fileread() and filewrite() of a pipe; a killed process only exits.
Call(p) ==
  /\ pc[p] = "run" /\ ~killed[p]
  /\ \E m \in 1 .. MaxN : n' = [n EXCEPT ![p] = m]
  /\ i' = [i EXCEPT ![p] = 0]
  /\ \/ "w" \in fds[p] /\ Goto(p, "write")
     \/ "r" \in fds[p] /\ Goto(p, "read")
  /\ UNCHANGED <<pipeVars, lock, fileVars, killed>>

\* acquire(&p->lock), on entry or when sleep() returns.
Acquire(p) ==
  /\ pc[p] \in {"write", "read"} /\ lock = Nobody
  /\ lock' = p
  /\ Goto(p, IF pc[p] = "write" THEN "wloop" ELSE "rtest")
  /\ UNCHANGED <<pipeVars, fileVars, n, i, killed>>

(* Mutant: the ring is indexed with the length of the data.                *)
PutShort(p, b) ==
  /\ i[p] < n[p] /\ ~Full
  /\ data' = [data EXCEPT ![nwrite % (PIPESIZE - 1)] = b]
  /\ nwrite' = (nwrite + 1) % Modulus
  /\ i' = [i EXCEPT ![p] = @ + 1]
  /\ UNCHANGED <<nread, readopen, writeopen, lock, fileVars, pc, n, killed>>

\* pipewrite(): one turn of the for loop.
Put(p, b) ==
  /\ i[p] < n[p] /\ ~Full
  /\ data' = [data EXCEPT ![nwrite % PIPESIZE] = b]
  /\ nwrite' = (nwrite + 1) % Modulus
  /\ i' = [i EXCEPT ![p] = @ + 1]
  /\ UNCHANGED <<nread, readopen, writeopen, lock, fileVars, pc, n, killed>>

(* Mutant: a writer does not look at readopen.                             *)
WriteFullBlind(p) ==
  /\ i[p] < n[p] /\ Full
  /\ lock' = Nobody
  /\ IF killed[p] THEN Goto(p, "run")
     ELSE pc' = [WakeReaders(pc) EXCEPT ![p] = "wsleep"]
  /\ Locals(p, killed[p])
  /\ UNCHANGED <<pipeVars, fileVars, killed>>

\* pipewrite(): give up, or wake the readers and sleep.
WriteFull(p) ==
  /\ i[p] < n[p] /\ Full
  /\ lock' = Nobody
  /\ IF ~readopen \/ killed[p] THEN Goto(p, "run")
     ELSE pc' = [WakeReaders(pc) EXCEPT ![p] = "wsleep"]
  /\ Locals(p, ~readopen \/ killed[p])
  /\ UNCHANGED <<pipeVars, fileVars, killed>>

WriteDone(p) ==
  /\ i[p] = n[p]
  /\ lock' = Nobody
  /\ pc' = [WakeReaders(pc) EXCEPT ![p] = "run"]
  /\ Locals(p, TRUE)
  /\ UNCHANGED <<pipeVars, fileVars, killed>>

Pipewrite(p) ==
  /\ pc[p] = "wloop"
  /\ (\E b \in Byte : Put(p, b)) \/ WriteFull(p) \/ WriteDone(p)

(* Mutant: piperead() does not wait for bytes.                             *)
ReadNoWait(p) ==
  /\ pc[p] = "rtest"
  /\ Goto(p, "rcopy")
  /\ UNCHANGED <<pipeVars, lock, fileVars, n, i, killed>>

\* piperead(): while the pipe is empty and can still be written, sleep.
ReadTest(p) ==
  /\ pc[p] = "rtest"
  /\ IF Empty /\ writeopen
       THEN Goto(p, IF killed[p] THEN "run" ELSE "rsleep") /\ lock' = Nobody
       ELSE Goto(p, "rcopy") /\ UNCHANGED lock
  /\ Locals(p, Empty /\ writeopen /\ killed[p])
  /\ UNCHANGED <<pipeVars, fileVars, killed>>

Get(p) ==
  /\ i[p] < n[p] /\ ~Empty
  /\ nread' = (nread + 1) % Modulus
  /\ i' = [i EXCEPT ![p] = @ + 1]
  /\ UNCHANGED <<data, nwrite, readopen, writeopen, lock, fileVars, pc, n, killed>>

ReadDone(p) ==
  /\ i[p] = n[p] \/ Empty
  /\ lock' = Nobody
  /\ pc' = [WakeWriters(pc) EXCEPT ![p] = "run"]
  /\ Locals(p, TRUE)
  /\ UNCHANGED <<pipeVars, fileVars, killed>>

ReadCopy(p) ==
  /\ pc[p] = "rcopy"
  /\ Get(p) \/ ReadDone(p)

-----------------------------------------------------------------------------
\* fileclose(): drop a reference; the last one closes the end of the pipe.
Close(p, e) ==
  /\ pc[p] = "run" /\ e \in fds[p]
  /\ fds' = [fds EXCEPT ![p] = @ \ {e}]
  /\ ref' = [ref EXCEPT ![e] = @ - 1]
  /\ IF ref[e] > 1 THEN UNCHANGED pc
     ELSE Goto(p, IF e = "w" THEN "closew" ELSE "closer")
  /\ UNCHANGED <<pipeVars, lock, freed, n, i, killed>>

(* Mutant: pipeclose() frees the pipe when either end is closed.           *)
PipecloseEither(p) ==
  /\ pc[p] \in {"closer", "closew"} /\ lock = Nobody
  /\ writeopen' = (writeopen /\ pc[p] # "closew")
  /\ readopen' = (readopen /\ pc[p] # "closer")
  /\ pc' = [IF pc[p] = "closew" THEN WakeReaders(pc) ELSE WakeWriters(pc)
              EXCEPT ![p] = "run"]
  /\ freed' = freed + 1
  /\ UNCHANGED <<data, nread, nwrite, lock, ref, fds, n, i, killed>>

(* Mutant: closing the write end does not wake the readers.                *)
PipecloseQuiet(p) ==
  /\ pc[p] \in {"closer", "closew"} /\ lock = Nobody
  /\ writeopen' = (writeopen /\ pc[p] # "closew")
  /\ readopen' = (readopen /\ pc[p] # "closer")
  /\ Goto(p, "run")
  /\ freed' = IF readopen' \/ writeopen' THEN freed ELSE freed + 1
  /\ UNCHANGED <<data, nread, nwrite, lock, ref, fds, n, i, killed>>

\* pipeclose(): the whole critical section, and kfree() once both are closed.
Pipeclose(p) ==
  /\ pc[p] \in {"closer", "closew"} /\ lock = Nobody
  /\ writeopen' = (writeopen /\ pc[p] # "closew")
  /\ readopen' = (readopen /\ pc[p] # "closer")
  /\ pc' = [IF pc[p] = "closew" THEN WakeReaders(pc) ELSE WakeWriters(pc)
              EXCEPT ![p] = "run"]
  /\ freed' = IF readopen' \/ writeopen' THEN freed ELSE freed + 1
  /\ UNCHANGED <<data, nread, nwrite, lock, ref, fds, n, i, killed>>

\* kill(): the flag, and a sleeper becomes runnable.
Kill(p) ==
  /\ p \in Killable /\ ~killed[p]
  /\ killed' = [killed EXCEPT ![p] = TRUE]
  /\ Goto(p, CASE pc[p] = "rsleep" -> "read" [] pc[p] = "wsleep" -> "write"
               [] OTHER -> pc[p])
  /\ UNCHANGED <<pipeVars, lock, fileVars, n, i>>

Step(p) == Pipewrite(p) \/ ReadTest(p) \/ ReadCopy(p) \/ Pipeclose(p)

Next ==
  \E p \in Proc :
    \/ Call(p) \/ Acquire(p) \/ Step(p) \/ Kill(p)
    \/ \E e \in Ends : Close(p, e)

Spec == Init /\ [][Next]_vars

\* A runnable process runs, and gets the lock if it is free often enough;
\* a killed process exits, which closes its descriptors.
Fairness ==
  \A p \in Proc :
    /\ WF_vars(Step(p)) /\ SF_vars(Acquire(p)) /\ SF_vars(Pipeclose(p))
    /\ WF_vars(killed[p] /\ \E e \in Ends : Close(p, e))

FairSpec == Spec /\ Fairness

-----------------------------------------------------------------------------
InPipe(p) == pc[p] # "run"

(* The counters stay in range and the pipe never holds more than PIPESIZE  *)
(* bytes, also when nwrite has wrapped around and nread has not.           *)
Bounded ==
  /\ nread \in 0 .. Modulus - 1 /\ nwrite \in 0 .. Modulus - 1
  /\ (nwrite + Modulus - nread) % Modulus \in 0 .. PIPESIZE

(* The bytes between nread and nwrite, as pipe.c would read them.          *)
Contents ==
  [j \in 1 .. (nwrite + Modulus - nread) % Modulus |->
     data[((nread + j - 1) % Modulus) % PIPESIZE]]

(* pipewrite() and piperead() implement the queue of PipeAbs.              *)
Abs == INSTANCE PipeAbs
         WITH Byte <- Byte, PIPESIZE <- PIPESIZE, q <- Contents,
              readopen <- readopen, writeopen <- writeopen

ImplementsPipe == Abs!Spec

(* While p->lock is free, a reader sleeps only on an empty pipe that can   *)
(* still be written, and only if it was not killed: no wakeup is missing   *)
(* in pipewrite(), pipeclose() or kill().                                  *)
ReaderSleepsForReason ==
  lock = Nobody =>
    \A p \in Proc : pc[p] = "rsleep" => Empty /\ writeopen /\ ~killed[p]

(* While p->lock is free, a writer sleeps only on a full pipe that someone *)
(* may still read, and only if it was not killed.                          *)
WriterSleepsForReason ==
  lock = Nobody =>
    \A p \in Proc : pc[p] = "wsleep" => Full /\ readopen /\ ~killed[p]

(* Nobody is in pipe.c with a pipe that was freed, and it is freed once:   *)
(* a process inside read() or write() holds its end open by its            *)
(* descriptor, so the last close comes after the last use.                 *)
NoUseAfterFree ==
  /\ freed <= 1
  /\ freed = 1 => \A p \in Proc : ~InPipe(p) /\ fds[p] = {}

(* Pipes are safe: a reader or a writer sleeps only with reason, and the   *)
(* pipe is freed once, after its last user.                                *)
PipeSafe == ReaderSleepsForReason /\ WriterSleepsForReason /\ NoUseAfterFree

(* read() returns no bytes only at end of file: the writers are gone and   *)
(* nothing is left.                                                        *)
ZeroMeansEOF ==
  [][\A p \in Proc :
       (pc[p] = "rcopy" /\ pc'[p] = "run" /\ i[p] = 0) => Empty /\ ~writeopen]_vars

(* A call does not block for ever once the other end is closed or the      *)
(* process is killed.                                                      *)
CallReturns ==
  \A p \in Proc :
    /\ (pc[p] \in {"write", "wloop", "wsleep"} /\ ~readopen) ~> (pc[p] = "run")
    /\ (pc[p] \in {"read", "rtest", "rcopy", "rsleep"} /\ ~writeopen) ~> (pc[p] = "run")
    /\ (InPipe(p) /\ killed[p]) ~> (pc[p] = "run")
=============================================================================
