----------------------------- MODULE Sleeplock ------------------------------
(***************************************************************************)
(* sleeplock.c: the long-term locks of buffers and inodes.  A process that *)
(* finds the lock taken sleeps instead of spinning.  lk->lk, the spin lock *)
(* inside a sleep lock, makes each passage through acquiresleep() and      *)
(* releasesleep() one step (LockAbs), and sleep() gives it up and falls    *)
(* asleep in one step with respect to wakeup() (Proc, SleepWakeup).        *)
(* kill() may wake a sleeper at any time.                                  *)
(***************************************************************************)
EXTENDS Naturals, FiniteSets

CONSTANTS Proc,   \* the processes
          Lock,   \* the sleep locks, numbered in the order they are nested
          NoPid   \* lk->pid of a lock nobody holds

ASSUME SleeplockAssumption == NoPid \notin Proc /\ Lock \subseteq Nat

VARIABLES
  locked,   \* lk->locked
  pid,      \* lk->pid
  pc,       \* "run", or the function the process is in
  lk,       \* the argument of that function
  mine      \* the locks for which acquiresleep() returned

vars == <<locked, pid, pc, lk, mine>>

PC == {"run", "acquire", "asleep", "release", "panic"}

Init ==
  /\ locked = [l \in Lock |-> FALSE]
  /\ pid = [l \in Lock |-> NoPid]
  /\ pc = [p \in Proc |-> "run"]
  /\ lk \in [Proc -> Lock]
  /\ mine = [p \in Proc |-> {}]

\* holdingsleep(): is the lock taken (by anyone)?
holdingsleep(l) == locked[l]

Call(p, l, f) ==
  /\ pc[p] = "run"
  /\ pc' = [pc EXCEPT ![p] = f]
  /\ lk' = [lk EXCEPT ![p] = l]
  /\ UNCHANGED <<locked, pid, mine>>

\* The file system takes a lock only after the locks that come before it.
CallAcquire(p, l) ==
  /\ \A k \in mine[p] : k < l
  /\ Call(p, l, "acquire")

\* brelse() and iunlock() panic unless holdingsleep().
CallRelease(p, l) ==
  /\ l \in mine[p]
  /\ Call(p, l, IF holdingsleep(l) THEN "release" ELSE "panic")

(* Mutant: acquiresleep() does not look at lk->locked.                     *)
AcquireBlind(p) ==
  /\ pc[p] = "acquire"
  /\ locked' = [locked EXCEPT ![lk[p]] = TRUE]
  /\ pid' = [pid EXCEPT ![lk[p]] = p]
  /\ mine' = [mine EXCEPT ![p] = @ \union {lk[p]}]
  /\ pc' = [pc EXCEPT ![p] = "run"]
  /\ UNCHANGED lk

(* Mutant: acquiresleep() does not record the holder.                      *)
AcquireNoPid(p) ==
  /\ pc[p] = "acquire" /\ ~locked[lk[p]]
  /\ locked' = [locked EXCEPT ![lk[p]] = TRUE]
  /\ mine' = [mine EXCEPT ![p] = @ \union {lk[p]}]
  /\ pc' = [pc EXCEPT ![p] = "run"]
  /\ UNCHANGED <<pid, lk>>

\* The loop of acquiresleep(): sleep while the lock is taken.
Acquiresleep(p) ==
  /\ pc[p] = "acquire"
  /\ UNCHANGED lk
  /\ IF locked[lk[p]]
       THEN /\ pc' = [pc EXCEPT ![p] = "asleep"]
            /\ UNCHANGED <<locked, pid, mine>>
       ELSE /\ locked' = [locked EXCEPT ![lk[p]] = TRUE]
            /\ pid' = [pid EXCEPT ![lk[p]] = p]
            /\ mine' = [mine EXCEPT ![p] = @ \union {lk[p]}]
            /\ pc' = [pc EXCEPT ![p] = "run"]

(* Mutant: releasesleep() wakes nobody.                                    *)
ReleaseNoWakeup(p) ==
  /\ pc[p] = "release"
  /\ locked' = [locked EXCEPT ![lk[p]] = FALSE]
  /\ pid' = [pid EXCEPT ![lk[p]] = NoPid]
  /\ mine' = [mine EXCEPT ![p] = @ \ {lk[p]}]
  /\ pc' = [pc EXCEPT ![p] = "run"]
  /\ UNCHANGED lk

\* releasesleep(): every process asleep on the lock becomes runnable.
Releasesleep(p) ==
  /\ pc[p] = "release"
  /\ locked' = [locked EXCEPT ![lk[p]] = FALSE]
  /\ pid' = [pid EXCEPT ![lk[p]] = NoPid]
  /\ mine' = [mine EXCEPT ![p] = @ \ {lk[p]}]
  /\ pc' = [q \in Proc |-> IF q = p THEN "run"
                           ELSE IF pc[q] = "asleep" /\ lk[q] = lk[p]
                             THEN "acquire" ELSE pc[q]]
  /\ UNCHANGED lk

\* kill() makes a sleeping process runnable; the loop looks at the lock again.
Kill(p) ==
  /\ pc[p] = "asleep"
  /\ pc' = [pc EXCEPT ![p] = "acquire"]
  /\ UNCHANGED <<locked, pid, lk, mine>>

Next ==
  \E p \in Proc :
    \/ \E l \in Lock : CallAcquire(p, l) \/ CallRelease(p, l)
    \/ Acquiresleep(p)
    \/ Releasesleep(p)
    \/ Kill(p)

Spec == Init /\ [][Next]_vars

\* A process that is not asleep runs; the code between acquiresleep() and
\* releasesleep() is finite, so a holder gives each of its locks up.
Fairness ==
  \A p \in Proc :
    /\ WF_vars(Acquiresleep(p))
    /\ WF_vars(Releasesleep(p))
    /\ \A l \in Lock : SF_vars(CallRelease(p, l))

FairSpec == Spec /\ Fairness

-----------------------------------------------------------------------------
(* Every variable has the values the code can give it.                     *)
TypeOK ==
  /\ locked \in [Lock -> BOOLEAN]
  /\ pid \in [Lock -> Proc \union {NoPid}]
  /\ pc \in [Proc -> PC]
  /\ lk \in [Proc -> Lock]
  /\ mine \in [Proc -> SUBSET Lock]

(* A process owns a lock exactly when the lock is taken and records it as  *)
(* the holder: acquiresleep() never returns to two processes, whatever     *)
(* wakeups the sleepers get.                                               *)
HolderExact ==
  \A p \in Proc, l \in Lock :
    (l \in mine[p]) <=> (locked[l] /\ pid[l] = p)

(* No process is left asleep on a free lock: releasesleep() wakes everyone *)
(* who saw it taken.                                                       *)
NoLostWakeup ==
  \A p \in Proc : pc[p] = "asleep" => locked[lk[p]]

(* brelse() and iunlock() never panic for a process that owns the lock.    *)
NoPanic == \A p \in Proc : pc[p] # "panic"

(* Sleep locks are safe: acquiresleep() returns to one process, nobody is  *)
(* left asleep on a free lock, and nobody who owns a lock panics.          *)
SleeplockSafe == HolderExact /\ NoLostWakeup /\ NoPanic

(* acquiresleep() and releasesleep() implement the atomic lock of LockAbs, *)
(* with lk->locked and lk->pid saying who holds what.                      *)
Abs == INSTANCE LockAbs
         WITH CPU <- Proc, Lock <- Lock,
              held <- [p \in Proc |-> {l \in Lock : locked[l] /\ pid[l] = p}]

ImplementsLock == Abs!Spec

(* A process asleep on a lock is eventually woken to contend for it again  *)
(* (it may lose again: wakeup() does not choose a successor).              *)
WaitersGetTheirTurn ==
  \A p \in Proc : (pc[p] = "asleep") ~> (pc[p] = "acquire" \/ pc[p] = "run")
=============================================================================
