------------------------------ MODULE Spinlock ------------------------------
(***************************************************************************)
(* spinlock.c: acquire() and release() with pushcli() and popcli(), on     *)
(* several processors and under interrupts.                                *)
(*                                                                         *)
(* A processor runs kernel code that takes and releases locks; when its    *)
(* interrupt flag is set, a device can make it run a handler, which takes  *)
(* and releases locks too, in the middle of anything.  The steps of        *)
(* acquire() and release() that other processors or a handler can observe  *)
(* are separate actions.  The callers are any kernel code that follows the *)
(* lock order (locks are numbers and are taken in increasing order).       *)
(***************************************************************************)
EXTENDS Naturals, FiniteSets

CONSTANTS CPU,     \* the processors
          Lock,    \* the spin locks, numbered in the order they are nested
          NoCPU,   \* a null struct cpu pointer
          NoLock   \* no lock (a bare pushcli)

ASSUME SpinlockAssumption ==
  /\ NoCPU \notin CPU
  /\ Lock \subseteq Nat
  /\ NoLock \notin Lock

VARIABLES
  locked,   \* lk->locked
  owner,    \* lk->cpu
  flagIF,   \* FL_IF in the processor's eflags
  ncli,     \* cpu->ncli
  intena,   \* cpu->intena
  pc,       \* where in acquire() or release() the processor is
  lk,       \* the argument of that call
  eflags,   \* pushcli's local copy of the flags
  held,     \* the locks for which acquire() returned and release() was not called
  frame     \* the context a handler interrupted, or NoFrame

lockVars == <<locked, owner>>
cliVars == <<flagIF, ncli, intena>>
vars == <<locked, owner, flagIF, ncli, intena, pc, lk, eflags, held, frame>>

PC == {"run", "pushcli", "xchg", "setcpu", "unlock", "popcli", "bare", "panic"}

NoFrame == [pc |-> "none", lk |-> NoLock, eflags |-> FALSE, held |-> {}]

InIrq(c) == frame[c].pc # "none"

\* The locks taken by the code now running, not by the code it interrupted.
Mine(c) == held[c] \ frame[c].held

\* holding(): is this processor recorded as the holder of the lock?
holding(c, l) == locked[l] /\ owner[l] = c

-----------------------------------------------------------------------------
Init ==
  /\ locked = [l \in Lock |-> FALSE]
  /\ owner = [l \in Lock |-> NoCPU]
  /\ flagIF = [c \in CPU |-> TRUE]
  /\ ncli = [c \in CPU |-> 0]
  /\ intena = [c \in CPU |-> FALSE]
  /\ pc = [c \in CPU |-> "run"]
  /\ lk = [c \in CPU |-> NoLock]
  /\ eflags = [c \in CPU |-> FALSE]
  /\ held = [c \in CPU |-> {}]
  /\ frame = [c \in CPU |-> NoFrame]

(* acquire(l) is called: pushcli() starts by reading the flags.  pushcli() *)
(* is also called alone, by switchuvm(): then there is no lock.            *)
Call(c, l) ==
  /\ pc[c] = "run"
  /\ l \in Lock => \A h \in Mine(c) : h < l
  /\ eflags' = [eflags EXCEPT ![c] = flagIF[c]]
  /\ lk' = [lk EXCEPT ![c] = l]
  /\ pc' = [pc EXCEPT ![c] = "pushcli"]
  /\ UNCHANGED <<lockVars, cliVars, held, frame>>

(* Mutant: pushcli() leaves interrupts on.                                 *)
PushcliNoCli(c) ==
  /\ pc[c] = "pushcli"
  /\ intena' = [intena EXCEPT ![c] = IF ncli[c] = 0 THEN eflags[c] ELSE @]
  /\ ncli' = [ncli EXCEPT ![c] = @ + 1]
  /\ pc' = [pc EXCEPT ![c] = IF lk[c] = NoLock THEN "bare"
                             ELSE IF holding(c, lk[c]) THEN "panic" ELSE "xchg"]
  /\ UNCHANGED <<lockVars, flagIF, lk, eflags, held, frame>>

(* Mutant: a nested pushcli() overwrites intena.                           *)
PushcliSavesAlways(c) ==
  /\ pc[c] = "pushcli"
  /\ flagIF' = [flagIF EXCEPT ![c] = FALSE]
  /\ intena' = [intena EXCEPT ![c] = eflags[c]]
  /\ ncli' = [ncli EXCEPT ![c] = @ + 1]
  /\ pc' = [pc EXCEPT ![c] = IF lk[c] = NoLock THEN "bare"
                             ELSE IF holding(c, lk[c]) THEN "panic" ELSE "xchg"]
  /\ UNCHANGED <<lockVars, lk, eflags, held, frame>>

(* The rest of pushcli(): cli, and remember the flag at depth 0.  Then     *)
(* acquire() panics if this processor holds the lock already.              *)
Pushcli(c) ==
  /\ pc[c] = "pushcli"
  /\ flagIF' = [flagIF EXCEPT ![c] = FALSE]
  /\ intena' = [intena EXCEPT ![c] = IF ncli[c] = 0 THEN eflags[c] ELSE @]
  /\ ncli' = [ncli EXCEPT ![c] = @ + 1]
  /\ pc' = [pc EXCEPT ![c] = IF lk[c] = NoLock THEN "bare"
                             ELSE IF holding(c, lk[c]) THEN "panic" ELSE "xchg"]
  /\ UNCHANGED <<lockVars, lk, eflags, held, frame>>

(* Mutant: the exchange does not look at what it read.                     *)
XchgBlind(c) ==
  /\ pc[c] = "xchg"
  /\ locked' = [locked EXCEPT ![lk[c]] = TRUE]
  /\ pc' = [pc EXCEPT ![c] = "setcpu"]
  /\ UNCHANGED <<owner, cliVars, lk, eflags, held, frame>>

(* The atomic exchange that ends the spin.  One that reads 1 writes 1 and  *)
(* changes nothing.                                                        *)
Xchg(c) ==
  /\ pc[c] = "xchg"
  /\ ~locked[lk[c]]
  /\ locked' = [locked EXCEPT ![lk[c]] = TRUE]
  /\ pc' = [pc EXCEPT ![c] = "setcpu"]
  /\ UNCHANGED <<owner, cliVars, lk, eflags, held, frame>>

(* acquire() records the processor in lk->cpu and returns.                 *)
SetCpu(c) ==
  /\ pc[c] = "setcpu"
  /\ owner' = [owner EXCEPT ![lk[c]] = c]
  /\ held' = [held EXCEPT ![c] = @ \union {lk[c]}]
  /\ pc' = [pc EXCEPT ![c] = "run"]
  /\ UNCHANGED <<locked, cliVars, lk, eflags, frame>>

(* Mutant: release() does not clear lk->cpu.                               *)
ReleaseKeepsCpu(c, l) ==
  /\ pc[c] = "run"
  /\ l \in Mine(c)
  /\ held' = [held EXCEPT ![c] = @ \ {l}]
  /\ lk' = [lk EXCEPT ![c] = l]
  /\ pc' = [pc EXCEPT ![c] = IF holding(c, l) THEN "unlock" ELSE "panic"]
  /\ UNCHANGED <<locked, owner, cliVars, eflags, frame>>

(* release(l) is called by the code that took l: it panics if l is not     *)
(* held, else clears lk->cpu, before the lock itself.                      *)
Release(c, l) ==
  /\ pc[c] = "run"
  /\ l \in Mine(c)
  /\ held' = [held EXCEPT ![c] = @ \ {l}]
  /\ lk' = [lk EXCEPT ![c] = l]
  /\ pc' = [pc EXCEPT ![c] = IF holding(c, l) THEN "unlock" ELSE "panic"]
  /\ owner' = [owner EXCEPT ![l] = IF holding(c, l) THEN NoCPU ELSE @]
  /\ UNCHANGED <<locked, cliVars, eflags, frame>>

Unlock(c) ==
  /\ pc[c] = "unlock"
  /\ locked' = [locked EXCEPT ![lk[c]] = FALSE]
  /\ pc' = [pc EXCEPT ![c] = "popcli"]
  /\ UNCHANGED <<owner, cliVars, lk, eflags, held, frame>>

(* The caller of a bare pushcli() reaches its popcli().                    *)
Bare(c) ==
  /\ pc[c] = "bare"
  /\ pc' = [pc EXCEPT ![c] = "popcli"]
  /\ UNCHANGED <<lockVars, cliVars, lk, eflags, held, frame>>

(* Mutant: popcli() counts down by two.                                    *)
PopcliTwice(c) ==
  /\ pc[c] = "popcli"
  /\ pc' = [pc EXCEPT ![c] = "run"]
  /\ ncli' = [ncli EXCEPT ![c] = @ - 2]
  /\ flagIF' = [flagIF EXCEPT ![c] = ncli[c] <= 2 /\ intena[c]]
  /\ UNCHANGED <<lockVars, intena, lk, eflags, held, frame>>

(* popcli(): panics if interrupts are on or the depth is 0; at depth 0     *)
(* again it restores what the outermost pushcli() found.                   *)
Popcli(c) ==
  /\ pc[c] = "popcli"
  /\ IF flagIF[c] \/ ncli[c] = 0
     THEN /\ pc' = [pc EXCEPT ![c] = "panic"]
          /\ UNCHANGED <<flagIF, ncli>>
     ELSE /\ pc' = [pc EXCEPT ![c] = "run"]
          /\ ncli' = [ncli EXCEPT ![c] = @ - 1]
          /\ flagIF' = [flagIF EXCEPT ![c] = ncli[c] = 1 /\ intena[c]]
  /\ UNCHANGED <<lockVars, intena, lk, eflags, held, frame>>

(* A device interrupt.  tvinit() makes every device vector an interrupt    *)
(* gate, so the processor clears the flag on entry.                        *)
Interrupt(c) ==
  /\ flagIF[c] /\ ~InIrq(c) /\ pc[c] # "panic"
  /\ frame' = [frame EXCEPT ![c] = [pc |-> pc[c], lk |-> lk[c],
                                    eflags |-> eflags[c], held |-> held[c]]]
  /\ flagIF' = [flagIF EXCEPT ![c] = FALSE]
  /\ pc' = [pc EXCEPT ![c] = "run"]
  /\ lk' = [lk EXCEPT ![c] = NoLock]
  /\ eflags' = [eflags EXCEPT ![c] = FALSE]
  /\ UNCHANGED <<lockVars, ncli, intena, held>>

(* The handler, having released what it took, returns by iret, which       *)
(* restores the interrupted context with its flags.                        *)
Iret(c) ==
  /\ InIrq(c) /\ pc[c] = "run" /\ Mine(c) = {}
  /\ pc' = [pc EXCEPT ![c] = frame[c].pc]
  /\ lk' = [lk EXCEPT ![c] = frame[c].lk]
  /\ eflags' = [eflags EXCEPT ![c] = frame[c].eflags]
  /\ flagIF' = [flagIF EXCEPT ![c] = TRUE]
  /\ frame' = [frame EXCEPT ![c] = NoFrame]
  /\ UNCHANGED <<lockVars, ncli, intena, held>>

Step(c) ==
  \/ \E l \in Lock \union {NoLock} : Call(c, l)
  \/ Pushcli(c) \/ Xchg(c) \/ SetCpu(c)
  \/ \E l \in Lock : Release(c, l)
  \/ Unlock(c) \/ Bare(c) \/ Popcli(c)
  \/ Interrupt(c) \/ Iret(c)

Next == \E c \in CPU : Step(c)

Spec == Init /\ [][Next]_vars

(* A processor does not stop inside acquire() or release(), and every      *)
(* critical section of the kernel ends: the holder of a lock calls         *)
(* release() in the end, however often it takes inner locks meanwhile.     *)
(* Nothing is assumed of the arbitration between spinning processors.      *)
Fairness ==
  \A c \in CPU :
    /\ WF_vars(Pushcli(c)) /\ WF_vars(Xchg(c)) /\ WF_vars(SetCpu(c))
    /\ WF_vars(Unlock(c)) /\ WF_vars(Popcli(c)) /\ WF_vars(Bare(c))
    /\ \A l \in Lock : SF_vars(Release(c, l))

LiveSpec == Spec /\ Fairness

-----------------------------------------------------------------------------
TypeOK ==
  /\ locked \in [Lock -> BOOLEAN]
  /\ owner \in [Lock -> CPU \union {NoCPU}]
  /\ flagIF \in [CPU -> BOOLEAN]
  /\ ncli \in [CPU -> Nat]
  /\ intena \in [CPU -> BOOLEAN]
  /\ pc \in [CPU -> PC]
  /\ lk \in [CPU -> Lock \union {NoLock}]
  /\ eflags \in [CPU -> BOOLEAN]
  /\ held \in [CPU -> SUBSET Lock]
  /\ frame \in [CPU -> [pc : PC \union {"none"}, lk : Lock \union {NoLock},
                        eflags : BOOLEAN, held : SUBSET Lock]]

(* No two processors are inside critical sections of the same lock, from   *)
(* the return of acquire() to the call of release(), whatever the handlers *)
(* do meanwhile.                                                           *)
MutualExclusion ==
  \A c, d \in CPU : c # d => held[c] \intersect held[d] = {}

(* None of the panics of spinlock.c is reachable: acquire() of a lock this *)
(* processor already holds (a handler that spins for what it interrupted), *)
(* release() of a lock not held, popcli() with interrupts on or unmatched. *)
NoPanic == \A c \in CPU : pc[c] # "panic"

(* holding(), which reads lk->locked and lk->cpu without any lock, is      *)
(* exact for the processor that calls it.                                  *)
HoldingExact ==
  \A c \in CPU, l \in Lock : pc[c] = "run" => (holding(c, l) <=> l \in held[c])

(* Interrupts are off whenever a lock is held or a handler runs, and are   *)
(* on again once the interrupted-level code has released its last lock,    *)
(* however the calls nest and even when the interrupt strikes pushcli()    *)
(* between reading the flags and cli.                                      *)
InterruptsMatched ==
  \A c \in CPU :
    /\ held[c] # {} \/ InIrq(c) => ~flagIF[c]
    /\ pc[c] = "run" /\ held[c] = {} /\ ~InIrq(c) => flagIF[c]

(* Spin locks are safe: one holder, no panic of spinlock.c, an exact       *)
(* holding(), and pushcli() and popcli() that match across handlers.       *)
SpinlockSafe == MutualExclusion /\ NoPanic /\ HoldingExact /\ InterruptsMatched

Spinning(c, l) == pc[c] = "xchg" /\ lk[c] = l

(* If a processor spins for a lock forever, others acquire that lock again *)
(* and again: the spin is never a deadlock, neither by the nesting of      *)
(* locks nor by a handler.                                                 *)
NoDeadlockSpin ==
  \A c \in CPU, l \in Lock :
    <>[]Spinning(c, l) => []<>(\E d \in CPU : pc[d] = "setcpu" /\ lk[d] = l)

(* acquire() and release() implement the atomic lock of LockAbs.           *)
Abs == INSTANCE LockAbs WITH CPU <- CPU, Lock <- Lock, held <- held
ImplementsLock == Abs!Spec
=============================================================================
