--------------------------- MODULE SpinlockProofs ---------------------------
(***************************************************************************)
(* The safety properties of Spinlock, for every set of processors and of   *)
(* locks.                                                                  *)
(***************************************************************************)
EXTENDS Spinlock, FiniteSetTheorems, TLAPS

(* Processor c has the lock: between the exchange that takes it and the    *)
(* store that clears it, not just between the calls.                       *)
Owns(c, l) == l \in held[c] \/ (pc[c] \in {"setcpu", "unlock"} /\ lk[c] = l)

(* lk->locked is set while someone has the lock, and lk->cpu names the     *)
(* processor for which acquire() has returned.                             *)
LockInv ==
  /\ \A c, d \in CPU, l \in Lock :
       Owns(c, l) => locked[l] /\ (Owns(d, l) => c = d)
  /\ \A c \in CPU, l \in Lock : owner[l] = c <=> l \in held[c]

(* The pushcli() that acquire() made and popcli() has not undone.          *)
Extra(c) ==
  IF pc[c] \in {"xchg", "setcpu", "unlock", "popcli", "bare"} THEN 1 ELSE 0

(* The depth of pushcli() is the number of locks held, and with what was   *)
(* interrupted it determines the interrupt flag.                           *)
CliInv(c) ==
  /\ IsFiniteSet(held[c])
  /\ ncli[c] = Cardinality(held[c]) + Extra(c)
  /\ flagIF[c] <=> ~InIrq(c) /\ ncli[c] = 0
  /\ ncli[c] > 0 => (intena[c] <=> ~InIrq(c))
  /\ pc[c] = "pushcli" => (eflags[c] <=> flagIF[c])

CallInv(c) ==
  /\ pc[c] # "panic"
  /\ pc[c] \in {"pushcli", "xchg", "setcpu", "unlock"} => lk[c] \notin held[c]
  /\ pc[c] \in {"xchg", "setcpu", "unlock"} => lk[c] \in Lock

(* A handler interrupts only code that holds no lock and has not yet       *)
(* masked interrupts.                                                      *)
FrameInv(c) ==
  /\ frame[c].held = {}
  /\ frame[c].pc \in {"none", "run", "pushcli"}
  /\ frame[c].pc = "pushcli" => frame[c].eflags

IInv ==
  /\ TypeOK
  /\ LockInv
  /\ \A c \in CPU : CliInv(c) /\ CallInv(c) /\ FrameInv(c)

-----------------------------------------------------------------------------
(* popcli() never takes its panic branches.                                *)
LEMMA PopcliEffect ==
  ASSUME IInv, NEW c \in CPU, Popcli(c)
  PROVE  /\ ncli[c] > 0
         /\ ncli' = [ncli EXCEPT ![c] = ncli[c] - 1]
         /\ flagIF' = [flagIF EXCEPT ![c] = ncli[c] = 1 /\ intena[c]]
         /\ pc' = [pc EXCEPT ![c] = "run"]
         /\ UNCHANGED <<locked, owner, intena, lk, eflags, held, frame>>
<1>1. ncli[c] = Cardinality(held[c]) + 1
  BY DEF IInv, CliInv, Extra, Popcli
<1>2. Cardinality(held[c]) \in Nat
  BY FS_CardinalityType DEF IInv, CliInv
<1>3. ncli[c] > 0 /\ ncli[c] # 0
  BY <1>1, <1>2
<1>4. ~flagIF[c]
  BY <1>3 DEF IInv, CliInv
<1>5. UNCHANGED <<locked, owner, intena, lk, eflags, held, frame>>
  BY DEF Popcli, lockVars
<1>q. QED  BY <1>3, <1>4, <1>5, Zenon DEF Popcli

(* Every step keeps the types of the variables.                            *)
LEMMA TypeStep ==
  ASSUME IInv, NEW c \in CPU, Step(c)
  PROVE  TypeOK'
<1>1. CASE \E l \in Lock \union {NoLock} : Call(c, l)
  BY <1>1, SpinlockAssumption DEF IInv, TypeOK, Call, PC, lockVars, cliVars
<1>2. CASE Pushcli(c)
  BY <1>2, SpinlockAssumption DEF IInv, TypeOK, Pushcli, PC, NoFrame, lockVars, cliVars, holding
<1>3. CASE Xchg(c)
  BY <1>3, SpinlockAssumption, Zenon DEF IInv, TypeOK, Xchg, PC, lockVars, cliVars
<1>4. CASE SetCpu(c)
  <2>1. lk[c] \in Lock
    BY <1>4 DEF IInv, CallInv, SetCpu
  <2>q. QED  BY <1>4, <2>1 DEF IInv, TypeOK, SetCpu, PC, cliVars
<1>5. CASE \E l \in Lock : Release(c, l)
  BY <1>5, SpinlockAssumption DEF IInv, TypeOK, Release, PC, NoFrame, lockVars, cliVars, holding
<1>6. CASE Unlock(c)
  BY <1>6, SpinlockAssumption, Zenon DEF IInv, TypeOK, Unlock, PC, lockVars, cliVars
<1>7. CASE Bare(c)
  BY <1>7, SpinlockAssumption DEF IInv, TypeOK, Bare, PC, lockVars, cliVars
<1>8. CASE Popcli(c)
  <2>1. /\ ncli[c] > 0
        /\ ncli' = [ncli EXCEPT ![c] = ncli[c] - 1]
        /\ flagIF' = [flagIF EXCEPT ![c] = ncli[c] = 1 /\ intena[c]]
        /\ pc' = [pc EXCEPT ![c] = "run"]
        /\ UNCHANGED <<locked, owner, intena, lk, eflags, held, frame>>
    BY <1>8, PopcliEffect
  <2>q. QED  BY <2>1 DEF IInv, TypeOK, PC
<1>9. CASE Interrupt(c)
  BY <1>9, SpinlockAssumption DEF IInv, TypeOK, Interrupt, PC, NoFrame, lockVars, cliVars
<1>10. CASE Iret(c)
  BY <1>10, SpinlockAssumption DEF IInv, TypeOK, Iret, InIrq, PC, NoFrame, lockVars, cliVars
<1>q. QED  BY <1>1, <1>2, <1>3, <1>4, <1>5, <1>6, <1>7, <1>8, <1>9, <1>10 DEF Step

(* Every step keeps lk->locked and lk->cpu in agreement with who has the   *)
(* locks.                                                                  *)
LEMMA LockStep ==
  ASSUME IInv, NEW c \in CPU, Step(c)
  PROVE  LockInv'
<1>1. CASE \E l \in Lock \union {NoLock} : Call(c, l)
  BY <1>1, SpinlockAssumption DEF IInv, TypeOK, LockInv, CallInv, FrameInv, Owns, Call, lockVars, cliVars, Mine
<1>2. CASE Pushcli(c)
  BY <1>2, SpinlockAssumption DEF IInv, TypeOK, LockInv, CallInv, FrameInv, Owns, Pushcli, lockVars, cliVars, holding
<1>3. CASE Xchg(c)
  BY <1>3, SpinlockAssumption DEF IInv, TypeOK, LockInv, CallInv, FrameInv, Owns, Xchg, lockVars, cliVars
<1>4. CASE SetCpu(c)
  BY <1>4, SpinlockAssumption DEF IInv, TypeOK, LockInv, CallInv, FrameInv, Owns, SetCpu, lockVars, cliVars
<1>5. CASE \E l \in Lock : Release(c, l)
  BY <1>5, SpinlockAssumption DEF IInv, TypeOK, LockInv, CallInv, FrameInv, Owns, Release, lockVars, cliVars, holding, Mine
<1>6. CASE Unlock(c)
  BY <1>6, SpinlockAssumption DEF IInv, TypeOK, LockInv, CallInv, FrameInv, Owns, Unlock, lockVars, cliVars
<1>7. CASE Bare(c)
  BY <1>7, SpinlockAssumption DEF IInv, TypeOK, LockInv, CallInv, FrameInv, Owns, Bare, lockVars, cliVars
<1>8. CASE Popcli(c)
  BY <1>8, SpinlockAssumption DEF IInv, TypeOK, LockInv, CallInv, FrameInv, Owns, Popcli, lockVars, cliVars
<1>9. CASE Interrupt(c)
  BY <1>9, SpinlockAssumption DEF IInv, TypeOK, LockInv, CallInv, FrameInv, Owns, Interrupt, lockVars, cliVars, InIrq
<1>10. CASE Iret(c)
  BY <1>10, SpinlockAssumption DEF IInv, TypeOK, LockInv, CallInv, FrameInv, Owns, Iret, lockVars, cliVars, Mine, InIrq, NoFrame
<1>q. QED  BY <1>1, <1>2, <1>3, <1>4, <1>5, <1>6, <1>7, <1>8, <1>9, <1>10 DEF Step

(* With interrupts on, a processor holds no lock and is not inside         *)
(* acquire() or release() beyond pushcli's read of the flags.              *)
LEMMA EmptyWhenZero ==
  ASSUME IInv, NEW c \in CPU, flagIF[c]
  PROVE  /\ held[c] = {} /\ ~InIrq(c) /\ ncli[c] = 0
         /\ pc[c] \in {"run", "pushcli"}
<1>1. /\ IsFiniteSet(held[c]) /\ ncli[c] = 0 /\ ~InIrq(c)
      /\ ncli[c] = Cardinality(held[c]) + Extra(c)
  BY DEF IInv, CliInv
<1>2. Cardinality(held[c]) \in Nat /\ (Cardinality(held[c]) = 0 <=> held[c] = {})
  BY <1>1, FS_CardinalityType, FS_EmptySet
<1>3. Extra(c) \in {0, 1} /\ (Extra(c) = 0 =>
        pc[c] \notin {"xchg", "setcpu", "unlock", "popcli", "bare"})
  BY DEF Extra
<1>4. Cardinality(held[c]) = 0 /\ Extra(c) = 0
  BY <1>1, <1>2, <1>3
<1>5. pc[c] \in PC /\ pc[c] # "panic"
  BY SMTT(60) DEF IInv, TypeOK, CallInv
<1>q. QED  BY <1>1, <1>2, <1>3, <1>4, <1>5 DEF PC

(* A step of one processor changes nothing that belongs to another.        *)
LEMMA OthersUnchanged ==
  ASSUME IInv, NEW c \in CPU, Step(c), NEW d \in CPU, d # c
  PROVE  /\ flagIF'[d] = flagIF[d] /\ ncli'[d] = ncli[d] /\ intena'[d] = intena[d]
         /\ pc'[d] = pc[d] /\ lk'[d] = lk[d] /\ eflags'[d] = eflags[d]
         /\ held'[d] = held[d] /\ frame'[d] = frame[d]
<1>1. CASE \E l \in Lock \union {NoLock} : Call(c, l)
  BY <1>1 DEF IInv, TypeOK, Call, lockVars, cliVars
<1>2. CASE Pushcli(c)
  BY <1>2 DEF IInv, TypeOK, Pushcli, lockVars, cliVars
<1>3. CASE Xchg(c)
  BY <1>3 DEF IInv, TypeOK, Xchg, lockVars, cliVars
<1>4. CASE SetCpu(c)
  BY <1>4 DEF IInv, TypeOK, SetCpu, lockVars, cliVars
<1>5. CASE \E l \in Lock : Release(c, l)
  BY <1>5 DEF IInv, TypeOK, Release, lockVars, cliVars
<1>6. CASE Unlock(c)
  BY <1>6 DEF IInv, TypeOK, Unlock, lockVars, cliVars
<1>7. CASE Bare(c)
  BY <1>7 DEF IInv, TypeOK, Bare, lockVars, cliVars
<1>8. CASE Popcli(c)
  <2>1. /\ ncli[c] > 0
        /\ ncli' = [ncli EXCEPT ![c] = ncli[c] - 1]
        /\ flagIF' = [flagIF EXCEPT ![c] = ncli[c] = 1 /\ intena[c]]
        /\ pc' = [pc EXCEPT ![c] = "run"]
        /\ UNCHANGED <<locked, owner, intena, lk, eflags, held, frame>>
    BY <1>8, PopcliEffect
  <2>q. QED  BY <2>1 DEF IInv, TypeOK
<1>9. CASE Interrupt(c)
  BY <1>9 DEF IInv, TypeOK, Interrupt, lockVars, cliVars
<1>10. CASE Iret(c)
  BY <1>10 DEF IInv, TypeOK, Iret, lockVars, cliVars
<1>q. QED  BY <1>1, <1>2, <1>3, <1>4, <1>5, <1>6, <1>7, <1>8, <1>9, <1>10 DEF Step

(* A processor's own step keeps it out of every panic.                     *)
LEMMA CallStep ==
  ASSUME IInv, NEW c \in CPU, Step(c)
  PROVE  CallInv(c)'
<1>1. CASE \E l \in Lock \union {NoLock} : Call(c, l)
  <2>1. PICK l \in Lock \union {NoLock} : Call(c, l)
    BY <1>1
  <2>2. held[c] \subseteq Lock /\ Mine(c) = held[c]
    BY DEF IInv, TypeOK, FrameInv, Mine
  <2>3. l \notin held[c]
    BY <2>1, <2>2, SpinlockAssumption DEF Call
  <2>q. QED  BY <2>1, <2>3 DEF IInv, TypeOK, CallInv, Call, cliVars
<1>2. CASE Pushcli(c)
  <2>1. lk[c] \notin held[c] /\ lk[c] \in Lock \union {NoLock}
    BY <1>2 DEF IInv, TypeOK, CallInv, Pushcli
  <2>2. lk[c] # NoLock => ~holding(c, lk[c])
    BY <2>1 DEF IInv, LockInv, holding
  <2>3. /\ pc' = [pc EXCEPT ![c] = IF lk[c] = NoLock THEN "bare" ELSE "xchg"]
        /\ lk' = lk /\ held' = held
    BY <1>2, <2>2, Zenon DEF Pushcli
  <2>q. QED  BY <2>1, <2>3 DEF IInv, TypeOK, CallInv
<1>3. CASE Xchg(c)
  BY <1>3, SpinlockAssumption DEF IInv, TypeOK, CallInv, Xchg, lockVars, cliVars
<1>4. CASE SetCpu(c)
  BY <1>4, SpinlockAssumption DEF IInv, TypeOK, CallInv, SetCpu, lockVars, cliVars
<1>5. CASE \E l \in Lock : Release(c, l)
  <2>1. PICK l \in Lock : Release(c, l)
    BY <1>5
  <2>2. holding(c, l)
    BY <2>1 DEF IInv, LockInv, Owns, Release, Mine, holding
  <2>q. QED  BY <2>1, <2>2 DEF IInv, TypeOK, CallInv, Release, cliVars
<1>6. CASE Unlock(c)
  BY <1>6, SpinlockAssumption DEF IInv, TypeOK, CallInv, Unlock, lockVars, cliVars
<1>7. CASE Bare(c)
  BY <1>7, SpinlockAssumption DEF IInv, TypeOK, CallInv, Bare, lockVars, cliVars
<1>8. CASE Popcli(c)
  <2>1. /\ ncli[c] > 0
        /\ ncli' = [ncli EXCEPT ![c] = ncli[c] - 1]
        /\ flagIF' = [flagIF EXCEPT ![c] = ncli[c] = 1 /\ intena[c]]
        /\ pc' = [pc EXCEPT ![c] = "run"]
        /\ UNCHANGED <<locked, owner, intena, lk, eflags, held, frame>>
    BY <1>8, PopcliEffect
  <2>q. QED  BY <2>1 DEF IInv, TypeOK, CallInv
<1>9. CASE Interrupt(c)
  BY <1>9, SpinlockAssumption DEF IInv, TypeOK, CallInv, Interrupt, lockVars, cliVars
<1>10. CASE Iret(c)
  BY <1>10, SpinlockAssumption DEF IInv, TypeOK, CallInv, Iret, Mine, FrameInv, InIrq, lockVars, cliVars
<1>q. QED  BY <1>1, <1>2, <1>3, <1>4, <1>5, <1>6, <1>7, <1>8, <1>9, <1>10 DEF Step

(* An interrupt finds the processor without locks.                         *)
LEMMA FrameStep ==
  ASSUME IInv, NEW c \in CPU, Step(c)
  PROVE  FrameInv(c)'
<1>1. CASE \E l \in Lock \union {NoLock} : Call(c, l)
  BY <1>1 DEF IInv, TypeOK, FrameInv, Call, lockVars, cliVars
<1>2. CASE Pushcli(c)
  BY <1>2 DEF IInv, TypeOK, FrameInv, Pushcli, lockVars, cliVars
<1>3. CASE Xchg(c)
  BY <1>3 DEF IInv, TypeOK, FrameInv, Xchg, lockVars, cliVars
<1>4. CASE SetCpu(c)
  BY <1>4 DEF IInv, TypeOK, FrameInv, SetCpu, lockVars, cliVars
<1>5. CASE \E l \in Lock : Release(c, l)
  BY <1>5 DEF IInv, TypeOK, FrameInv, Release, lockVars, cliVars
<1>6. CASE Unlock(c)
  BY <1>6 DEF IInv, TypeOK, FrameInv, Unlock, lockVars, cliVars
<1>7. CASE Bare(c)
  BY <1>7 DEF IInv, TypeOK, FrameInv, Bare, lockVars, cliVars
<1>8. CASE Popcli(c)
  <2>1. /\ ncli[c] > 0
        /\ ncli' = [ncli EXCEPT ![c] = ncli[c] - 1]
        /\ flagIF' = [flagIF EXCEPT ![c] = ncli[c] = 1 /\ intena[c]]
        /\ pc' = [pc EXCEPT ![c] = "run"]
        /\ UNCHANGED <<locked, owner, intena, lk, eflags, held, frame>>
    BY <1>8, PopcliEffect
  <2>q. QED  BY <2>1 DEF IInv, TypeOK, FrameInv
<1>9. CASE Interrupt(c)
  <2>1. held[c] = {} /\ pc[c] \in {"run", "pushcli"}
    BY <1>9, EmptyWhenZero, SMTT(60) DEF Interrupt
  <2>q. QED  BY <1>9, <2>1 DEF IInv, TypeOK, FrameInv, CliInv, Interrupt
<1>10. CASE Iret(c)
  BY <1>10 DEF IInv, TypeOK, FrameInv, Iret, NoFrame, lockVars, cliVars
<1>q. QED  BY <1>1, <1>2, <1>3, <1>4, <1>5, <1>6, <1>7, <1>8, <1>9, <1>10 DEF Step

(* A processor's own step keeps the depth of pushcli(), the interrupt flag *)
(* and the locks it holds in agreement.                                    *)
LEMMA CliStep ==
  ASSUME IInv, NEW c \in CPU, Step(c)
  PROVE  CliInv(c)'
<1>a. IsFiniteSet(held[c]) /\ Cardinality(held[c]) \in Nat
  BY FS_CardinalityType DEF IInv, CliInv
<1>1. CASE \E l \in Lock \union {NoLock} : Call(c, l)
  BY <1>1, <1>a, SMTT(60) DEF IInv, TypeOK, CliInv, Extra, InIrq, Call, lockVars, cliVars
<1>2. CASE Pushcli(c)
  <2>1. pc'[c] \in {"bare", "xchg"} /\ pc[c] = "pushcli"
    BY <1>2, CallStep DEF IInv, TypeOK, CallInv, Pushcli
  <2>2. Extra(c)' = 1 /\ Extra(c) = 0
    BY <2>1 DEF Extra
  <2>3. /\ ncli'[c] = ncli[c] + 1 /\ held' = held /\ frame' = frame
        /\ flagIF'[c] = FALSE
        /\ intena'[c] = IF ncli[c] = 0 THEN eflags[c] ELSE intena[c]
    BY <1>2, SMTT(60) DEF IInv, TypeOK, Pushcli
  <2>4. ncli[c] \in Nat /\ ncli'[c] = Cardinality(held[c]) + Extra(c)'
    BY <1>a, <2>2, <2>3 DEF IInv, TypeOK, CliInv
  <2>5. intena'[c] <=> ~InIrq(c)
    BY <2>1, <2>3, <2>4 DEF IInv, CliInv
  <2>q. QED  BY <1>a, <2>1, <2>3, <2>4, <2>5, SMTT(30) DEF CliInv, InIrq
<1>3. CASE Xchg(c)
  BY <1>3, <1>a, SMTT(60) DEF IInv, TypeOK, CliInv, Extra, InIrq, Xchg, lockVars, cliVars
<1>4. CASE SetCpu(c)
  <2>1. lk[c] \notin held[c]
    BY <1>4 DEF IInv, CallInv, SetCpu
  <2>2. /\ IsFiniteSet(held[c] \union {lk[c]})
        /\ Cardinality(held[c] \union {lk[c]}) = Cardinality(held[c]) + 1
    BY <2>1, <1>a, FS_AddElement, SMTT(60)
  <2>q. QED  BY <1>4, <1>a, <2>2 DEF IInv, TypeOK, CliInv, Extra, InIrq, SetCpu, cliVars
<1>5. CASE \E l \in Lock : Release(c, l)
  <2>1. PICK l \in Lock : Release(c, l)
    BY <1>5
  <2>2. l \in held[c] /\ holding(c, l)
    BY <2>1, SMTT(60) DEF IInv, LockInv, Owns, Release, Mine, holding
  <2>3. /\ IsFiniteSet(held[c] \ {l})
        /\ Cardinality(held[c] \ {l}) = Cardinality(held[c]) - 1
    BY <2>2, <1>a, FS_RemoveElement
  <2>q. QED  BY <2>1, <2>2, <2>3, <1>a, SMTT(60) DEF IInv, TypeOK, CliInv, Extra, InIrq, Release, cliVars
<1>6. CASE Unlock(c)
  BY <1>6, <1>a DEF IInv, TypeOK, CliInv, Extra, InIrq, Unlock, lockVars, cliVars
<1>7. CASE Bare(c)
  BY <1>7, <1>a DEF IInv, TypeOK, CliInv, Extra, InIrq, Bare, lockVars, cliVars
<1>8. CASE Popcli(c)
  <2>1. /\ ncli[c] > 0
        /\ ncli' = [ncli EXCEPT ![c] = ncli[c] - 1]
        /\ flagIF' = [flagIF EXCEPT ![c] = ncli[c] = 1 /\ intena[c]]
        /\ pc' = [pc EXCEPT ![c] = "run"]
        /\ UNCHANGED <<locked, owner, intena, lk, eflags, held, frame>>
    BY <1>8, PopcliEffect
  <2>2. pc[c] = "popcli"
    BY <1>8 DEF Popcli
  <2>3. Extra(c)' = 0 /\ Extra(c) = 1
    BY <2>1, <2>2 DEF IInv, TypeOK, Extra
  <2>4. /\ ncli'[c] = ncli[c] - 1 /\ ncli[c] \in Nat
        /\ flagIF'[c] <=> ncli[c] = 1 /\ intena[c]
        /\ pc'[c] = "run"
    BY <2>1, Zenon DEF IInv, TypeOK
  <2>5. ncli'[c] = Cardinality(held[c]) + Extra(c)'
    BY <1>a, <2>3, <2>4, SMTT(60) DEF IInv, CliInv
  <2>6. /\ flagIF'[c] <=> ~InIrq(c) /\ ncli'[c] = 0
        /\ intena[c] <=> ~InIrq(c)
    BY <2>1, <2>4 DEF IInv, CliInv
  <2>q. QED  BY <1>a, <2>1, <2>4, <2>5, <2>6, SMTT(60) DEF CliInv, InIrq
<1>9. CASE Interrupt(c)
  <2>1. held[c] = {} /\ ncli[c] = 0 /\ pc[c] \in {"run", "pushcli"}
    BY <1>9, EmptyWhenZero, SMTT(60) DEF Interrupt
  <2>2. /\ pc'[c] = "run" /\ frame'[c].pc = pc[c] /\ flagIF'[c] = FALSE
        /\ ncli' = ncli /\ held' = held /\ intena' = intena
    BY <1>9 DEF IInv, TypeOK, Interrupt
  <2>3. Extra(c)' = 0 /\ Extra(c) = 0 /\ InIrq(c)'
    BY <2>1, <2>2 DEF Extra, InIrq
  <2>q. QED  BY <1>a, <2>1, <2>2, <2>3 DEF IInv, CliInv
<1>10. CASE Iret(c)
  <2>1. held[c] = {} /\ Cardinality(held[c]) = 0 /\ ncli[c] = 0
    BY <1>10, <1>a, FS_EmptySet DEF IInv, FrameInv, CliInv, Extra, Iret, Mine
  <2>q. QED  BY <1>10, <2>1, <1>a DEF IInv, TypeOK, CliInv, FrameInv, Extra, InIrq, Iret, NoFrame
<1>q. QED  BY <1>1, <1>2, <1>3, <1>4, <1>5, <1>6, <1>7, <1>8, <1>9, <1>10 DEF Step

-----------------------------------------------------------------------------
(* The inductive invariant holds when the locks are initialised.           *)
LEMMA InitInv == Init => IInv
<1>1. SUFFICES ASSUME Init PROVE IInv
  OBVIOUS
<1>2. TypeOK
  BY <1>1 DEF Init, TypeOK, NoFrame, PC
<1>3. LockInv
  BY <1>1, SpinlockAssumption DEF Init, LockInv, Owns
<1>4. ASSUME NEW c \in CPU PROVE CliInv(c) /\ CallInv(c) /\ FrameInv(c)
  BY <1>1, FS_EmptySet DEF Init, CliInv, Extra, InIrq, CallInv, FrameInv, NoFrame
<1>q. QED  BY <1>2, <1>3, <1>4 DEF IInv

(* The inductive invariant is kept by every step of spinlock.c.            *)
LEMMA InductiveInv == IInv /\ [Next]_vars => IInv'
<1>1. SUFFICES ASSUME IInv, [Next]_vars PROVE IInv'
  OBVIOUS
<1>2. CASE UNCHANGED vars
  BY <1>1, <1>2 DEF IInv, TypeOK, LockInv, Owns, CliInv, Extra, InIrq, CallInv,
              FrameInv, vars
<1>3. ASSUME NEW c \in CPU, Step(c) PROVE IInv'
  <2>1. TypeOK' /\ LockInv'
    BY <1>1, <1>3, TypeStep, LockStep
  <2>2. CliInv(c)' /\ CallInv(c)' /\ FrameInv(c)'
    BY <1>1, <1>3, CliStep, CallStep, FrameStep
  <2>3. ASSUME NEW d \in CPU, d # c
        PROVE  CliInv(d)' /\ CallInv(d)' /\ FrameInv(d)'
    <3>1. /\ flagIF'[d] = flagIF[d] /\ ncli'[d] = ncli[d] /\ intena'[d] = intena[d]
          /\ pc'[d] = pc[d] /\ lk'[d] = lk[d] /\ eflags'[d] = eflags[d]
          /\ held'[d] = held[d] /\ frame'[d] = frame[d]
      BY <1>1, <1>3, <2>3, OthersUnchanged
    <3>q. QED  BY <1>1, <3>1 DEF IInv, CliInv, Extra, InIrq, CallInv, FrameInv
  <2>q. QED  BY <2>1, <2>2, <2>3 DEF IInv
<1>q. QED  BY <1>1, <1>2, <1>3 DEF Next

(* The inductive invariant holds in every state of every execution.        *)
THEOREM Invariance == Spec => []IInv
  BY InitInv, InductiveInv, PTL DEF Spec

(* acquire() and release() keep critical sections of one lock apart, for   *)
(* any number of processors and locks and any interrupts.                  *)
THEOREM MutualExclusionHolds == Spec => []MutualExclusion
<1>1. IInv => MutualExclusion
  BY DEF IInv, TypeOK, LockInv, Owns, MutualExclusion
<1>q. QED  BY <1>1, Invariance, PTL

(* No panic of spinlock.c is reachable by callers that respect the lock    *)
(* order and release what they took.                                       *)
THEOREM NoPanicHolds == Spec => []NoPanic
<1>1. IInv => NoPanic
  BY DEF IInv, CallInv, NoPanic
<1>q. QED  BY <1>1, Invariance, PTL

(* holding() answers correctly although it reads without a lock.           *)
THEOREM HoldingExactHolds == Spec => []HoldingExact
<1>1. IInv => HoldingExact
  BY DEF IInv, LockInv, Owns, HoldingExact, holding
<1>q. QED  BY <1>1, Invariance, PTL

(* Interrupts are off in critical sections and handlers and come back.     *)
THEOREM InterruptsMatchedHolds == Spec => []InterruptsMatched
<1>1. IInv => InterruptsMatched
  <2>1. SUFFICES ASSUME IInv, NEW c \in CPU
                 PROVE  /\ held[c] # {} \/ InIrq(c) => ~flagIF[c]
                        /\ pc[c] = "run" /\ held[c] = {} /\ ~InIrq(c) => flagIF[c]
    BY DEF InterruptsMatched
  <2>2. flagIF[c] => held[c] = {} /\ ~InIrq(c)
    BY <2>1, EmptyWhenZero
  <2>3. ASSUME pc[c] = "run", held[c] = {}, ~InIrq(c) PROVE flagIF[c]
    <3>1. ncli[c] = 0
      BY <2>1, <2>3, FS_EmptySet DEF IInv, CliInv, Extra
    <3>q. QED  BY <2>1, <2>3, <3>1 DEF IInv, CliInv
  <2>q. QED  BY <2>2, <2>3
<1>q. QED  BY <1>1, Invariance, PTL

(* The lock of spinlock.c implements the atomic lock of LockAbs: the lock  *)
(* is taken when acquire() returns and given up when release() starts.     *)
THEOREM Refinement == Spec => ImplementsLock
<1>1. Init => Abs!Init
  BY DEF Init, Abs!Init
<1>2. IInv /\ [Next]_vars => [Abs!Next]_held
  <2>1. SUFFICES ASSUME IInv, NEW c \in CPU, Step(c), held' # held
                 PROVE  Abs!Next
    BY DEF Next, vars
  <2>2. CASE SetCpu(c)
    <3>1. lk[c] \in Lock /\ \A d \in CPU : lk[c] \notin held[d]
      BY <2>1, <2>2 DEF IInv, LockInv, Owns, CallInv, SetCpu
    <3>2. Abs!Take(c, lk[c])
      BY <2>2, <3>1 DEF SetCpu, Abs!Take
    <3>q. QED  BY <3>1, <3>2 DEF Abs!Next
  <2>3. CASE \E l \in Lock : Release(c, l)
    <3>1. PICK l \in Lock : Release(c, l)
      BY <2>3
    <3>2. Abs!Give(c, l)
      BY <3>1 DEF Release, Mine, Abs!Give
    <3>q. QED  BY <3>2 DEF Abs!Next
  <2>4. CASE ~SetCpu(c) /\ ~\E l \in Lock : Release(c, l)
    BY <2>1, <2>4 DEF Step, Call, Pushcli, Xchg, Unlock, Bare, Popcli,
                      Interrupt, Iret
  <2>q. QED  BY <2>2, <2>3, <2>4
<1>q. QED  BY <1>1, <1>2, Invariance, PTL DEF Spec, ImplementsLock, Abs!Spec

(* spinlock.c is safe for any number of processors and locks: a lock has   *)
(* one holder, holding() is right about it, interrupts are off while it is *)
(* held and back as they were afterwards, and nothing panics.              *)
THEOREM SpinlockSafeHolds == Spec => []SpinlockSafe
<1>1. MutualExclusion /\ NoPanic /\ HoldingExact /\ InterruptsMatched => SpinlockSafe
  BY Zenon DEF SpinlockSafe
<1>q. QED  BY <1>1, MutualExclusionHolds, NoPanicHolds, HoldingExactHolds,
              InterruptsMatchedHolds, PTL
=============================================================================
