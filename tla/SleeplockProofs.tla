--------------------------- MODULE SleeplockProofs ---------------------------
(***************************************************************************)
(* Proofs about Sleeplock for any number of processes and locks: a sleep   *)
(* lock has one holder, no wakeup is lost, releasing never panics, and the *)
(* lock implements LockAbs.                                                *)
(***************************************************************************)
EXTENDS Sleeplock, TLAPS

(* The inductive invariant: HolderExact, NoLostWakeup and NoPanic need to  *)
(* know that a process inside releasesleep() owns the lock it releases.    *)
Releasing == \A p \in Proc : pc[p] = "release" => lk[p] \in mine[p]

IInv == TypeOK /\ HolderExact /\ NoLostWakeup /\ NoPanic /\ Releasing

(* Initially no lock is taken and every process runs.                      *)
LEMMA InitIInv == Init => IInv
  BY SleeplockAssumption DEF Init, IInv, TypeOK, HolderExact, NoLostWakeup, NoPanic, Releasing, PC

(* What the passage of p through acquiresleep() that gets the lock does.   *)
Taken(p) ==
  /\ pc[p] = "acquire" /\ ~locked[lk[p]]
  /\ locked' = [locked EXCEPT ![lk[p]] = TRUE]
  /\ pid' = [pid EXCEPT ![lk[p]] = p]
  /\ mine' = [mine EXCEPT ![p] = @ \union {lk[p]}]
  /\ pc' = [pc EXCEPT ![p] = "run"]
  /\ lk' = lk

(* What the passage that finds the lock taken does.                        *)
FellAsleep(p) ==
  /\ pc[p] = "acquire" /\ locked[lk[p]]
  /\ pc' = [pc EXCEPT ![p] = "asleep"]
  /\ UNCHANGED <<locked, pid, lk, mine>>

(* acquiresleep() either takes the lock or puts the process to sleep.      *)
LEMMA AcquireCases ==
  ASSUME NEW p \in Proc, Acquiresleep(p)
  PROVE  Taken(p) \/ FellAsleep(p)
  BY Zenon DEF Acquiresleep, Taken, FellAsleep

(* Calling a function of sleeplock.c keeps the invariant: a release is     *)
(* called for a lock that is held, so holdingsleep() does not panic.       *)
LEMMA CallStep ==
  ASSUME IInv, NEW p \in Proc, NEW l \in Lock,
         CallAcquire(p, l) \/ CallRelease(p, l)
  PROVE  IInv'
<1>1. /\ pc[p] = "run"
      /\ lk' = [lk EXCEPT ![p] = l]
      /\ UNCHANGED <<locked, pid, mine>>
      /\ \/ pc' = [pc EXCEPT ![p] = "acquire"]
         \/ pc' = [pc EXCEPT ![p] = "release"] /\ l \in mine[p]
  BY DEF CallAcquire, CallRelease, Call, holdingsleep, IInv, HolderExact
<1>2. TypeOK'
  BY <1>1 DEF IInv, TypeOK, PC
<1>3. HolderExact'
  BY <1>1 DEF IInv, HolderExact
<1>4. NoLostWakeup' /\ NoPanic' /\ Releasing'
  BY <1>1 DEF IInv, TypeOK, NoLostWakeup, NoPanic, Releasing
<1>q. QED  BY <1>2, <1>3, <1>4 DEF IInv

(* Taking a free lock keeps the invariant: nobody owned it, nobody sleeps  *)
(* on it.                                                                  *)
LEMMA TakenStep ==
  ASSUME IInv, NEW p \in Proc, Taken(p)
  PROVE  IInv'
<1>1. TypeOK'
  BY DEF IInv, TypeOK, Taken, PC
<1>2. HolderExact'
  <2>1. SUFFICES ASSUME NEW q \in Proc, NEW l \in Lock
                 PROVE  (l \in mine'[q]) <=> (locked'[l] /\ pid'[l] = q)
    BY DEF HolderExact
  <2>2. CASE l = lk[p]
    BY <2>2 DEF IInv, TypeOK, HolderExact, Taken
  <2>3. CASE l # lk[p]
    BY <2>3 DEF IInv, TypeOK, HolderExact, Taken
  <2>q. QED  BY <2>2, <2>3
<1>3. NoLostWakeup' /\ NoPanic' /\ Releasing'
  BY DEF IInv, TypeOK, NoLostWakeup, NoPanic, Releasing, Taken
<1>q. QED  BY <1>1, <1>2, <1>3 DEF IInv

(* Releasing keeps the invariant: the process owned the lock, and everyone *)
(* asleep on it is woken.                                                  *)
LEMMA ReleaseStep ==
  ASSUME IInv, NEW p \in Proc, Releasesleep(p)
  PROVE  IInv'
<1>1. TypeOK'
  BY SleeplockAssumption DEF IInv, TypeOK, Releasesleep, PC
<1>2. HolderExact'
  <2>1. SUFFICES ASSUME NEW q \in Proc, NEW l \in Lock
                 PROVE  (l \in mine'[q]) <=> (locked'[l] /\ pid'[l] = q)
    BY DEF HolderExact
  <2>2. CASE l = lk[p]
    BY <2>2 DEF IInv, TypeOK, HolderExact, Releasing, Releasesleep
  <2>3. CASE l # lk[p]
    BY <2>3 DEF IInv, TypeOK, HolderExact, Releasesleep
  <2>q. QED  BY <2>2, <2>3
<1>3. NoLostWakeup'
  BY DEF IInv, TypeOK, NoLostWakeup, Releasesleep
<1>4. NoPanic'
  BY DEF IInv, TypeOK, NoPanic, Releasesleep
<1>5. Releasing'
  <2>1. SUFFICES ASSUME NEW q \in Proc, pc'[q] = "release"
                 PROVE  lk'[q] \in mine'[q]
    BY DEF Releasing
  <2>2. q # p /\ pc[q] = "release" /\ lk' = lk /\ mine'[q] = mine[q]
    BY <2>1 DEF IInv, TypeOK, Releasesleep
  <2>q. QED  BY <2>2 DEF IInv, Releasing
<1>q. QED  BY <1>1, <1>2, <1>3, <1>4, <1>5 DEF IInv

(* Every step of the lock keeps the invariant.                             *)
LEMMA NextIInv == IInv /\ [Next]_vars => IInv'
<1>1. SUFFICES ASSUME IInv, [Next]_vars PROVE IInv'
  OBVIOUS
<1>2. CASE UNCHANGED vars
  BY <1>1, <1>2 DEF IInv, TypeOK, HolderExact, NoLostWakeup, NoPanic, Releasing, vars
<1>3. ASSUME NEW p \in Proc, NEW l \in Lock, CallAcquire(p, l) \/ CallRelease(p, l)
      PROVE  IInv'
  BY <1>1, <1>3, CallStep
<1>4. ASSUME NEW p \in Proc, Acquiresleep(p)
      PROVE  IInv'
  <2>1. CASE Taken(p)
    BY <1>1, <2>1, TakenStep
  <2>2. CASE FellAsleep(p)
    BY <1>1, <2>2 DEF IInv, TypeOK, HolderExact, NoLostWakeup, NoPanic, Releasing, FellAsleep, PC
  <2>q. QED  BY <1>4, <2>1, <2>2, AcquireCases
<1>5. ASSUME NEW p \in Proc, Releasesleep(p)
      PROVE  IInv'
  BY <1>1, <1>5, ReleaseStep
<1>6. ASSUME NEW p \in Proc, Kill(p)
      PROVE  IInv'
  BY <1>1, <1>6 DEF IInv, TypeOK, HolderExact, NoLostWakeup, NoPanic, Releasing, Kill, PC
<1>q. QED  BY <1>1, <1>2, <1>3, <1>4, <1>5, <1>6 DEF Next

(* The inductive invariant holds in every reachable state.                 *)
THEOREM Invariance == Spec => []IInv
  BY InitIInv, NextIInv, PTL DEF Spec

(* A process owns a sleep lock exactly when the lock records it as the     *)
(* holder, for any number of processes and locks.                          *)
THEOREM HolderSafety == Spec => []HolderExact
<1>1. IInv => HolderExact
  BY DEF IInv
<1>q. QED  BY <1>1, Invariance, PTL

(* No process sleeps on a free lock.                                       *)
THEOREM WakeupSafety == Spec => []NoLostWakeup
<1>1. IInv => NoLostWakeup
  BY DEF IInv
<1>q. QED  BY <1>1, Invariance, PTL

(* The holdingsleep() tests of brelse() and iunlock() never panic.         *)
THEOREM PanicSafety == Spec => []NoPanic
<1>1. IInv => NoPanic
  BY DEF IInv
<1>q. QED  BY <1>1, Invariance, PTL

Held == [p \in Proc |-> {l \in Lock : locked[l] /\ pid[l] = p}]

(* The holders the abstract lock sees are the owners.                      *)
LEMMA HeldIsMine == ASSUME IInv PROVE Held = mine
<1>1. \A p \in Proc : Held[p] = mine[p]
  BY DEF Held, IInv, TypeOK, HolderExact
<1>q. QED  BY <1>1 DEF Held, IInv, TypeOK

(* acquiresleep() and releasesleep() implement the atomic lock of LockAbs: *)
(* the lock is taken in the passage that finds it free and given up in     *)
(* releasesleep(); sleeping, waking and kill() are stuttering steps.       *)
THEOREM Implements == Spec => ImplementsLock
<1>1. Init => Abs!Init
  BY DEF Init, Abs!Init
<1>2. IInv /\ IInv' /\ [Next]_vars => [Abs!Next]_Held
  <2>1. SUFFICES ASSUME IInv, IInv', Next, Held' # Held
                 PROVE  Abs!Next
    BY DEF vars, Held
  <2>2. Held = mine /\ Held' = mine'
    BY <2>1, HeldIsMine DEF IInv, TypeOK, HolderExact, Held
  <2>3. mine' # mine
    BY <2>1, <2>2
  <2>4. PICK p \in Proc : Taken(p) \/ Releasesleep(p)
    BY <2>1, <2>3, AcquireCases DEF Next, CallAcquire, CallRelease, Call, Kill, FellAsleep
  <2>5. PICK l \in Lock : l = lk[p]
    BY <2>1 DEF IInv, TypeOK
  <2>6. CASE Taken(p)
    <3>1. \A d \in Proc : l \notin Held[d]
      BY <2>1, <2>5, <2>6 DEF Taken, Held
    <3>2. Held' = [Held EXCEPT ![p] = @ \union {l}]
      BY <2>2, <2>5, <2>6 DEF Taken
    <3>3. Abs!Take(p, l)
      BY <3>1, <3>2 DEF Abs!Take, Held
    <3>q. QED  BY <3>3 DEF Abs!Next
  <2>7. CASE Releasesleep(p)
    <3>1. l \in Held[p]
      BY <2>1, <2>2, <2>5, <2>7 DEF IInv, Releasing, Releasesleep
    <3>2. Held' = [Held EXCEPT ![p] = @ \ {l}]
      BY <2>2, <2>5, <2>7 DEF Releasesleep
    <3>3. Abs!Give(p, l)
      BY <3>1, <3>2 DEF Abs!Give, Held
    <3>q. QED  BY <3>3 DEF Abs!Next
  <2>q. QED  BY <2>4, <2>6, <2>7
<1>q. QED  BY <1>1, <1>2, Invariance, PTL DEF Spec, ImplementsLock, Abs!Spec, Held

(* sleeplock.c is safe for any number of processes and locks: the recorded *)
(* holder is the real one, no sleeper is left on a free lock, and who      *)
(* releases a lock holds it.                                               *)
THEOREM SleeplockSafeHolds == Spec => []SleeplockSafe
<1>1. HolderExact /\ NoLostWakeup /\ NoPanic => SleeplockSafe
  BY Zenon DEF SleeplockSafe
<1>q. QED  BY <1>1, HolderSafety, WakeupSafety, PanicSafety, PTL
=============================================================================
