----------------------------- MODULE ProcProofs -----------------------------
(***************************************************************************)
(* Proofs about proc.c, for every number of processors and slots.  First   *)
(* the invariant of the context switch and what follows from it about a    *)
(* step: who holds ptable.lock and tickslock, where a thread is that is    *)
(* not running, what RUNNING means.  Then that every step keeps the        *)
(* process table true of the processors, and the theorems that follow.     *)
(* Last, families and sleepers: every process has a living parent, wait()  *)
(* and sys_sleep() lose no wakeup, a zombie only ever becomes a free slot. *)
(***************************************************************************)
EXTENDS Proc, TLAPS

(* The places at which a thread that runs holds ptable.lock or tickslock.  *)
SchedPC == {"idle", "scan", "swtch", "back"}
PLocs == {"swtch", "back", "forkret", "zsched", "zombie", "wsched", "wresume",
          "slock", "ssched", "sresume"}
TLocs == {"sloop", "sgo", "slock"}

HoldsP(t) == ipc[t] \in {"ysched", "yresume"} \/ (ipc[t] = "none" /\ pc[t] \in PLocs)
HoldsT(t) == ipc[t] = "tickw" \/ (ipc[t] = "none" /\ pc[t] \in TLocs)

(* About to call sched(), and left behind by it.                           *)
AtSched(p) == ipc[p] = "ysched" \/ (ipc[p] = "none" /\ pc[p] \in {"zsched", "wsched", "ssched"})
Saved(p) == ipc[p] = "yresume" \/ (ipc[p] = "none" /\ pc[p] \in {"forkret", "wresume", "sresume"})

(* A processor runs its scheduler or a process, and holds exactly the      *)
(* locks that the place of that thread implies.                            *)
LockAt(c) ==
  /\ on[c] \in Slot \union {c}
  /\ plock = c <=> HoldsP(on[c])
  /\ tlock = c <=> HoldsT(on[c])
  /\ flagIF[c] => plock # c /\ tlock # c
LockInv == \A c \in CPU : LockAt(c)

(* A handler only interrupts code that holds no lock.                      *)
ThreadInv ==
  /\ \A t \in Thread : ipc[t] # "none" => pc[t] \notin PLocs \union TLocs
  /\ \A c \in CPU : pc[c] \in SchedPC /\ ipc[c] \in {"none", "tick", "tickw", "tail"}
  /\ \A p \in Slot : pc[p] \notin SchedPC

(* The scheduler loop of a processor and the process it has chosen.        *)
CpuAt(c) ==
  /\ pc[c] \in {"idle", "scan"} => on[c] = c /\ proc[c] = NoProc /\ cr3[c] = NoProc
  /\ pc[c] \in {"swtch", "back"} =>
       /\ proc[c] \in Slot /\ cr3[c] = proc[c]
       /\ state[proc[c]] \notin {"UNUSED", "EMBRYO"}
  /\ pc[c] = "swtch" => on[c] = c /\ state[proc[c]] = "RUNNING" /\ Saved(proc[c])
  /\ pc[c] = "back" => on[c] \in {c, proc[c]}
  /\ on[c] \in Slot => (state[on[c]] = "RUNNING" <=> ~AtSched(on[c]))
CpuInv == \A c \in CPU : CpuAt(c)

ProcInv ==
  \A c, d \in CPU : c # d /\ proc[c] # NoProc => proc[c] # proc[d]

(* What the state of a slot says about its thread.                         *)
SlotAt(p) ==
  /\ state[p] = "UNUSED" => ipc[p] = "none" /\ pc[p] = "none"
  /\ state[p] = "EMBRYO" => ipc[p] = "none" /\ pc[p] \in {"none", "forkret"}
  /\ state[p] = "ZOMBIE" <=> pc[p] \in {"zsched", "zombie"}
  /\ state[p] \in {"SLEEPING", "RUNNABLE"} => Saved(p) \/ AtSched(p)
  /\ state[p] = "RUNNING" => \E c \in CPU : proc[c] = p /\ (pc[c] = "swtch" \/ on[c] = p)
  /\ AtSched(p) => \E c \in CPU : on[c] = p
  /\ state[p] \notin {"UNUSED", "EMBRYO"} => kstack[p]
SlotInv == \A p \in Slot : SlotAt(p)

(* The slot a fork() in progress has taken is its own.                     *)
InFork(p) == pc[p] \in {"fkalloc", "fcopy", "fready"}
ForkInv ==
  /\ \A p \in Slot :
       InFork(p) =>
         /\ np[p] \in Slot /\ state[np[p]] = "EMBRYO"
         /\ pc[p] # "fkalloc" => kstack[np[p]] /\ pc[np[p]] = "forkret"
  /\ \A p, q \in Slot : InFork(p) /\ InFork(q) /\ p # q => np[p] # np[q]

(* The interrupt flag and its saved copies.                                *)
OpenLocs == {"user", "sysret", "fork", "fkalloc", "fcopy", "fready", "wait", "kill",
             "sleep", "srelock"}
MaskAt(c) ==
  /\ ipc[on[c]] # "none" => ~flagIF[c]
  /\ ipc[on[c]] \in {"tickw", "ysched"} => ~intena[c]
  /\ on[c] \in Slot /\ ipc[on[c]] = "none" =>
       /\ pc[on[c]] \in OpenLocs => flagIF[c]
       /\ pc[on[c]] \in {"wsched", "sloop", "sgo", "slock", "ssched"} => intena[c]
SavedAt(p) ==
  /\ ipc[p] = "yresume" => ~saved[p]
  /\ ipc[p] = "none" /\ pc[p] \in {"wresume", "sresume"} => saved[p]
MaskInv == (\A c \in CPU : MaskAt(c)) /\ \A p \in Slot : SavedAt(p)

PidInv == PidUnique /\ nextpid > 0 /\ \A p \in Slot : pid[p] < nextpid

IInv ==
  /\ TypeOK /\ LockInv /\ ThreadInv /\ CpuInv /\ ProcInv /\ SlotInv /\ ForkInv
  /\ MaskInv /\ PidInv /\ NoPanic
-----------------------------------------------------------------------------
(* A process that a processor has chosen is on that processor, RUNNING,    *)
(* unless the processor holds ptable.lock.                                 *)
LEMMA Elsewhere ==
  ASSUME IInv, NEW d \in CPU, proc[d] # NoProc
  PROVE  /\ pc[d] \in {"swtch", "back"} /\ proc[d] \in Slot /\ cr3[d] = proc[d]
         /\ state[proc[d]] \notin {"UNUSED", "EMBRYO"}
         /\ plock # d => on[d] = proc[d] /\ state[proc[d]] = "RUNNING"
<1>1. pc[d] \in {"swtch", "back"}
  BY Zenon DEF IInv, CpuInv, CpuAt, ThreadInv, SchedPC
<1>2. ipc[d] = "none"
  BY <1>1, Zenon DEF IInv, ThreadInv, Thread, PLocs
<1>3. on[d] = d => plock = d
  BY <1>1, <1>2, Zenon DEF IInv, LockInv, LockAt, HoldsP, PLocs
<1>4. on[d] # d => on[d] = proc[d] /\ pc[d] = "back"
  BY <1>1, Zenon DEF IInv, CpuInv, CpuAt
<1>5. proc[d] \in Slot /\ cr3[d] = proc[d] /\ state[proc[d]] \notin {"UNUSED", "EMBRYO"}
  BY <1>1, Zenon DEF IInv, CpuInv, CpuAt
<1>6. AtSched(proc[d]) /\ on[d] = proc[d] => plock = d
  BY Zenon DEF IInv, LockInv, LockAt, AtSched, HoldsP, PLocs
<1>q. QED  BY <1>1, <1>3, <1>4, <1>5, <1>6, Zenon DEF IInv, CpuInv, CpuAt

(* A processor on the stack of a process is the only one attached to it.   *)
LEMMA Here ==
  ASSUME IInv, NEW c \in CPU, on[c] \in Slot
  PROVE  /\ proc[c] = on[c] /\ cr3[c] = on[c] /\ pc[c] = "back"
         /\ state[on[c]] \notin {"UNUSED", "EMBRYO"}
         /\ \A d \in CPU \ {c} : proc[d] # on[c] /\ on[d] # on[c]
<1>1. on[c] # c
  BY ProcAssumption, Zenon
<1>2. pc[c] = "back" /\ on[c] = proc[c]
  BY <1>1, Zenon DEF IInv, CpuInv, CpuAt, ThreadInv, SchedPC
<1>3. cr3[c] = on[c] /\ state[on[c]] \notin {"UNUSED", "EMBRYO"}
  BY <1>2, Zenon DEF IInv, CpuInv, CpuAt
<1>4. on[c] # NoProc
  BY ProcAssumption, Zenon
<1>5. \A d \in CPU \ {c} : proc[d] # on[c]
  BY <1>2, <1>4, Zenon DEF IInv, ProcInv
<1>6. \A d \in CPU \ {c} : on[d] = d \/ on[d] = proc[d]
  BY ZenonT(30) DEF IInv, CpuInv, CpuAt, ThreadInv, SchedPC
<1>7. \A d \in CPU : d # on[c]
  BY ProcAssumption, Zenon
<1>q. QED  BY <1>2, <1>3, <1>5, <1>6, <1>7, Zenon

(* Two processors are never on the same stack.                             *)
LEMMA OnDistinct ==
  ASSUME IInv, NEW c \in CPU, NEW d \in CPU, c # d
  PROVE  on[c] # on[d]
<1>1. CASE on[c] \in Slot
  BY <1>1, Here, Zenon
<1>2. CASE on[d] \in Slot
  BY <1>2, Here, Zenon
<1>q. QED  BY <1>1, <1>2, Zenon DEF IInv, LockInv, LockAt

(* The effect of allocproc() on the table.                                 *)
LEMMA AllocProcEffect ==
  ASSUME NEW c \in CPU, NEW p \in Slot, AllocProc(c, p)
  PROVE  /\ Runs(c, p) /\ ipc[p] = "none" /\ pc[p] = "fork" /\ plock = NoCPU
         /\ \E s \in Slot : /\ state[s] = "UNUSED"
                            /\ state' = [state EXCEPT ![s] = "EMBRYO"]
                            /\ pid' = [pid EXCEPT ![s] = nextpid]
                            /\ np' = [np EXCEPT ![p] = s]
         /\ nextpid' = nextpid + 1
         /\ pc' = [pc EXCEPT ![p] = "fkalloc"]
         /\ UNCHANGED <<parent, chan, killed, kstack, plock, tlock, on, proc, cr3,
                        flagIF, intena, ipc, saved, left, panicked>>
  BY Zenon DEF AllocProc, At, Goto, cpuVars

(* The effect of kill() on the table.                                      *)
LEMMA KillEffect ==
  ASSUME NEW c \in CPU, NEW p \in Slot, Kill(c, p)
  PROVE  /\ Runs(c, p) /\ ipc[p] = "none" /\ pc[p] = "kill" /\ plock = NoCPU
         /\ \E q \in Slot : \/ UNCHANGED <<killed, state>>
                            \/ /\ killed' = [killed EXCEPT ![q] = TRUE]
                               /\ state' = [state EXCEPT ![q] = KillState(state[q])]
         /\ pc' = [pc EXCEPT ![p] = "sysret"]
         /\ UNCHANGED <<pid, parent, chan, kstack, nextpid, plock, tlock, on, proc, cr3,
                        flagIF, intena, ipc, saved, np, left, panicked>>
  BY Zenon DEF Kill, At, Goto, cpuVars

(* The return of wait() leaves ptable.lock free and interrupts on.         *)
LEMMA WaitReturnsEffect ==
  ASSUME IInv, NEW c \in CPU, NEW p \in Slot, WaitReturns(c, p)
  PROVE  /\ on[c] = p /\ ipc[p] = "none" /\ pc[p] \in {"wait", "wresume"}
         /\ plock \in {NoCPU, c} /\ plock' = NoCPU /\ panicked' = panicked /\ panicked = "no"
         /\ flagIF' = [flagIF EXCEPT ![c] = TRUE]
         /\ intena' \in [CPU -> BOOLEAN] /\ \A d \in CPU \ {c} : intena'[d] = intena[d]
<1>1. TypeOK
  BY Zenon DEF IInv
<1>2. CASE At(c, p, "wait") /\ plock = NoCPU /\ UNCHANGED <<plock, flagIF, intena, panicked>>
  <2>1. flagIF[c] = TRUE
    BY <1>1, <1>2, Zenon DEF IInv, MaskInv, MaskAt, SavedAt, At, Runs, OpenLocs, TypeOK
  <2>q. QED  BY <1>1, <1>2, <2>1, Zenon DEF At, Runs, TypeOK
<1>3. CASE At(c, p, "wresume") /\ ResumeRelease(c, p)
  <2>1. saved[p] = TRUE
    BY <1>1, <1>3, Zenon DEF IInv, MaskInv, MaskAt, SavedAt, At, Runs, TypeOK
  <2>2. plock = c
    BY <1>3, Zenon DEF IInv, LockInv, LockAt, HoldsP, PLocs, At, Runs
  <2>3. intena' = [intena EXCEPT ![c] = TRUE]
    BY <1>3, <2>1, Zenon DEF ResumeRelease
  <2>q. QED  BY <1>1, <1>3, <2>1, <2>2, <2>3, Zenon DEF At, Runs, TypeOK, ResumeRelease
<1>q. QED  BY <1>2, <1>3, Zenon DEF WaitReturns

(* Sleeping in wait() keeps or takes ptable.lock, with interrupts off and  *)
(* intena saying that they were on.                                        *)
LEMMA WaitAgainEffect ==
  ASSUME IInv, NEW c \in CPU, NEW p \in Slot, WaitAgain(c, p)
  PROVE  /\ on[c] = p /\ ipc[p] = "none" /\ pc[p] \in {"wait", "wresume"}
         /\ plock \in {NoCPU, c} /\ plock' = c /\ panicked' = panicked
         /\ flagIF' = [flagIF EXCEPT ![c] = FALSE]
         /\ intena' = [intena EXCEPT ![c] = TRUE]
<1>1. TypeOK
  BY Zenon DEF IInv
<1>2. CASE At(c, p, "wait") /\ AcquireP(c) /\ UNCHANGED panicked
  <2>1. flagIF[c] = TRUE
    BY <1>1, <1>2, Zenon DEF IInv, MaskInv, MaskAt, SavedAt, At, Runs, OpenLocs, TypeOK
  <2>2. tlock # c /\ plock # c
    BY <2>1, Zenon DEF IInv, LockInv, LockAt
  <2>3. ncli(c) = 0
    BY <2>2 DEF ncli
  <2>4. intena' = [intena EXCEPT ![c] = TRUE]
    BY <1>2, <2>1, <2>3, Zenon DEF AcquireP, PushCli
  <2>q. QED  BY <1>2, <2>4, Zenon DEF At, Runs, AcquireP, PushCli
<1>3. CASE /\ At(c, p, "wresume") /\ UNCHANGED <<plock, flagIF, panicked>>
           /\ intena' = [intena EXCEPT ![c] = saved[p]]
  <2>1. saved[p] = TRUE
    BY <1>1, <1>3, Zenon DEF IInv, MaskInv, MaskAt, SavedAt, At, Runs, TypeOK
  <2>2. plock = c
    BY <1>3, Zenon DEF IInv, LockInv, LockAt, HoldsP, PLocs, At, Runs
  <2>3. flagIF[c] = FALSE
    BY <1>1, <2>2, Zenon DEF IInv, LockInv, LockAt, TypeOK
  <2>4. flagIF' = [flagIF EXCEPT ![c] = FALSE]
    BY <1>1, <1>3, <2>3, Zenon DEF TypeOK
  <2>q. QED  BY <1>3, <2>1, <2>2, <2>4, Zenon DEF At, Runs
<1>q. QED  BY <1>2, <1>3, Zenon DEF WaitAgain

(* sched() passes its checks: the lock is held once, the process is not    *)
(* RUNNING and interrupts are off.                                         *)
LEMMA SchedEffect ==
  ASSUME IInv, NEW c \in CPU, NEW p \in Slot, Sched(c, p)
  PROVE  /\ on[c] = p /\ AtSched(p) /\ plock = c /\ panicked' = panicked
         /\ saved' = [saved EXCEPT ![p] = intena[c]]
         /\ on' = [on EXCEPT ![c] = c]
         /\ UNCHANGED <<state, pid, parent, chan, killed, kstack, nextpid, plock, tlock,
                        proc, cr3, flagIF, intena, np, left>>
<1>1. on[c] = p /\ AtSched(p)
  BY Zenon DEF Sched, Runs, AtSched
<1>2. plock = c
  BY <1>1, Zenon DEF IInv, LockInv, LockAt, AtSched, HoldsP, PLocs
<1>3. tlock # c
  BY <1>1, Zenon DEF IInv, LockInv, LockAt, AtSched, HoldsT, TLocs
<1>4. ncli(c) = 1
  BY <1>2, <1>3 DEF ncli
<1>5. state[p] # "RUNNING" /\ ~flagIF[c]
  BY <1>1, <1>2, Zenon DEF IInv, CpuInv, CpuAt, LockInv, LockAt
<1>6. panicked' = panicked
  BY <1>2, <1>4, <1>5, Zenon DEF Sched
<1>7. saved' = [saved EXCEPT ![p] = intena[c]] /\ on' = [on EXCEPT ![c] = c]
  BY Zenon DEF Sched
<1>8. UNCHANGED <<state, pid, parent, chan, killed, kstack, nextpid, plock, tlock,
                  proc, cr3, flagIF, intena, np, left>>
  BY Zenon DEF Sched, tableVars
<1>q. QED  BY <1>1, <1>2, <1>6, <1>7, <1>8, Zenon

(* The thread that calls sched() is left where it will go on, or dead, and *)
(* no other thread moves.                                                  *)
LEMMA SchedMove ==
  ASSUME IInv, NEW c \in CPU, NEW p \in Slot, Sched(c, p)
  PROVE  /\ pc' \in [Thread -> PC] /\ ipc' \in [Thread -> IPC]
         /\ \A t \in Thread \ {p} : pc'[t] = pc[t] /\ ipc'[t] = ipc[t]
         /\ \/ ipc[p] = "ysched" /\ ipc'[p] = "yresume" /\ pc'[p] = pc[p]
            \/ /\ ipc[p] = "none" /\ ipc'[p] = "none"
               /\ \/ pc[p] = "zsched" /\ pc'[p] = "zombie"
                  \/ pc[p] = "wsched" /\ pc'[p] = "wresume"
                  \/ pc[p] = "ssched" /\ pc'[p] = "sresume"
<1>0. pc \in [Thread -> PC] /\ ipc \in [Thread -> IPC] /\ p \in Thread
  BY DEF IInv, TypeOK, Thread
<1>1. CASE ipc[p] = "ysched" /\ ipc' = [ipc EXCEPT ![p] = "yresume"] /\ pc' = pc
  BY <1>0, <1>1 DEF IPC
<1>2. CASE ipc[p] = "none" /\ ipc' = ipc /\ pc[p] = "zsched" /\ pc' = [pc EXCEPT ![p] = "zombie"]
  BY <1>0, <1>2 DEF PC
<1>3. CASE ipc[p] = "none" /\ ipc' = ipc /\ pc[p] = "wsched" /\ pc' = [pc EXCEPT ![p] = "wresume"]
  BY <1>0, <1>3 DEF PC
<1>4. CASE ipc[p] = "none" /\ ipc' = ipc /\ pc[p] = "ssched" /\ pc' = [pc EXCEPT ![p] = "sresume"]
  BY <1>0, <1>4 DEF PC
<1>5. \/ ipc[p] = "ysched" /\ ipc' = [ipc EXCEPT ![p] = "yresume"] /\ pc' = pc
      \/ ipc[p] = "none" /\ ipc' = ipc /\ pc[p] = "zsched" /\ pc' = [pc EXCEPT ![p] = "zombie"]
      \/ ipc[p] = "none" /\ ipc' = ipc /\ pc[p] = "wsched" /\ pc' = [pc EXCEPT ![p] = "wresume"]
      \/ ipc[p] = "none" /\ ipc' = ipc /\ pc[p] = "ssched" /\ pc' = [pc EXCEPT ![p] = "sresume"]
  BY Zenon DEF Sched, Goto, GotoIrq
<1>q. QED  BY <1>1, <1>2, <1>3, <1>4, <1>5, Zenon

(* The effect of reaping a child.                                          *)
LEMMA ReapEffect ==
  ASSUME NEW c \in CPU, NEW p \in Slot, Reap(c, p)
  PROVE  /\ WaitReturns(c, p)
         /\ \E z \in Slot :
              /\ state[z] = "ZOMBIE" /\ parent[z] = p
              /\ kstack' = [kstack EXCEPT ![z] = FALSE]
              /\ pid' = [pid EXCEPT ![z] = 0]
              /\ parent' = [parent EXCEPT ![z] = NoProc]
              /\ killed' = [killed EXCEPT ![z] = FALSE]
              /\ state' = [state EXCEPT ![z] = "UNUSED"]
              /\ pc' = [pc EXCEPT ![p] = "sysret", ![z] = "none"]
         /\ chan' = [chan EXCEPT ![p] = NoChan]
         /\ UNCHANGED <<nextpid, tlock, on, proc, cr3, ipc, saved, np, left>>
  BY Zenon DEF Reap, Zombies, Children
-----------------------------------------------------------------------------
(* A step of one processor leaves alone what another processor stands on:  *)
(* its own registers, its scheduler, its locks and its process.            *)
Untouched(d) ==
  /\ on'[d] = on[d] /\ proc'[d] = proc[d] /\ cr3'[d] = cr3[d]
  /\ flagIF'[d] = flagIF[d] /\ intena'[d] = intena[d]
  /\ plock' = d <=> plock = d
  /\ tlock' = d <=> tlock = d
  /\ pc'[d] = pc[d] /\ ipc'[d] = ipc[d]
  /\ proc[d] # NoProc =>
       /\ pc'[proc[d]] = pc[proc[d]] /\ ipc'[proc[d]] = ipc[proc[d]]
       /\ state'[proc[d]] = state[proc[d]] /\ kstack'[proc[d]] = kstack[proc[d]]
       /\ saved'[proc[d]] = saved[proc[d]]

(* No step touches another processor.                                      *)
LEMMA OthersStep ==
  ASSUME IInv, NEW c \in CPU, Step(c), NEW d \in CPU \ {c} PROVE Untouched(d)
<1>. USE DEF Goto, GotoIrq, At, AtIrq, Runs, tableVars, cpuVars, threadVars
<1>0. /\ on \in [CPU -> Thread] /\ proc \in [CPU -> Slot \union {NoProc}]
      /\ cr3 \in [CPU -> Slot \union {NoProc}]
      /\ flagIF \in [CPU -> BOOLEAN] /\ intena \in [CPU -> BOOLEAN] /\ pc \in [Thread -> PC]
      /\ ipc \in [Thread -> IPC] /\ state \in [Slot -> States] /\ kstack \in [Slot -> BOOLEAN]
      /\ saved \in [Slot -> BOOLEAN]
  BY Zenon DEF IInv, TypeOK
<1>a. /\ d \in CPU /\ d # c /\ d \notin Slot /\ c \notin Slot /\ d # NoCPU
      /\ d \in Thread /\ Slot \subseteq Thread
  BY ProcAssumption, Zenon DEF Thread, Slot
<1>b. proc[d] # NoProc =>
        /\ proc[d] \in Slot /\ state[proc[d]] \notin {"UNUSED", "EMBRYO"} /\ proc[d] # c
        /\ plock # d => state[proc[d]] = "RUNNING"
  BY Elsewhere, <1>a, Zenon
<1>c. on[c] # d /\ (proc[d] # NoProc => proc[d] # on[c])
  <2>1. CASE on[c] \in Slot
    BY <1>a, <2>1, Here, Zenon
  <2>2. CASE on[c] = c
    BY <1>a, <1>b, <2>2, Zenon
  <2>q. QED  BY <2>1, <2>2, Zenon DEF IInv, LockInv, LockAt
<1>1. CASE Sti(c)
  BY <1>0, <1>a, <1>b, <1>c, <1>1, Zenon DEF Untouched, Sti
<1>2. CASE ScanNone(c)
  BY <1>0, <1>a, <1>b, <1>c, <1>2, Zenon DEF Untouched, ScanNone
<1>3. CASE SwtchTo(c)
  BY <1>0, <1>a, <1>b, <1>c, <1>3, Zenon DEF Untouched, SwtchTo
<1>4. CASE Back(c)
  <2>1. plock = c
    BY <1>4, ZenonT(30) DEF IInv, LockInv, LockAt, HoldsP, PLocs, Back
  <2>q. QED  BY <1>0, <1>a, <1>b, <1>c, <1>4, <2>1, Zenon DEF Untouched, Back, ResumeRelease
<1>5. ASSUME NEW p \in Slot, Dispatch(c, p) PROVE Untouched(d)
  BY <1>0, <1>a, <1>b, <1>c, <1>5, Zenon DEF Untouched, Dispatch, AcquireP, PushCli
<1>6. ASSUME NEW p \in Slot, Forkret(c, p) PROVE Untouched(d)
  <2>1. plock = c
    BY <1>6, Zenon DEF IInv, LockInv, LockAt, HoldsP, PLocs, Forkret
  <2>q. QED  BY <1>0, <1>a, <1>b, <1>c, <1>6, <2>1, Zenon DEF Untouched, Forkret, ResumeRelease
<1>7. ASSUME NEW p \in Slot, SyscallExit(c, p) PROVE Untouched(d)
  BY <1>0, <1>a, <1>b, <1>c, <1>7, Zenon DEF Untouched, SyscallExit
<1>8. ASSUME NEW p \in Slot, AllocProc(c, p) PROVE Untouched(d)
  <2>0. /\ on[c] = p /\ pc' = [pc EXCEPT ![p] = "fkalloc"]
        /\ UNCHANGED <<kstack, plock, tlock, on, proc, cr3, flagIF, intena, ipc, saved>>
    BY <1>8, AllocProcEffect, Zenon DEF Runs
  <2>1. PICK s \in Slot : state[s] = "UNUSED" /\ state' = [state EXCEPT ![s] = "EMBRYO"]
    BY <1>8, AllocProcEffect, Zenon
  <2>q. QED  BY <1>0, <1>a, <1>b, <1>c, <2>0, <2>1, Zenon DEF Untouched
<1>9. ASSUME NEW p \in Slot, AllocProcFull(c, p) PROVE Untouched(d)
  BY <1>0, <1>a, <1>b, <1>c, <1>9, Zenon DEF Untouched, AllocProcFull
<1>10. ASSUME NEW p \in Slot, AllocStack(c, p) PROVE Untouched(d)
  <2>1. np[p] \in Slot /\ state[np[p]] = "EMBRYO"
    BY <1>10, Zenon DEF IInv, ForkInv, InFork, AllocStack
  <2>q. QED  BY <1>0, <1>a, <1>b, <1>c, <1>10, <2>1, Zenon DEF Untouched, AllocStack
<1>11. ASSUME NEW p \in Slot, ForkFails(c, p) PROVE Untouched(d)
  <2>1. np[p] \in Slot /\ state[np[p]] = "EMBRYO"
    BY <1>11, Zenon DEF IInv, ForkInv, InFork, ForkFails
  <2>q. QED  BY <1>0, <1>a, <1>b, <1>c, <1>11, <2>1, Zenon DEF Untouched, ForkFails
<1>12. ASSUME NEW p \in Slot, ForkCopy(c, p) PROVE Untouched(d)
  BY <1>0, <1>a, <1>b, <1>c, <1>12, Zenon DEF Untouched, ForkCopy
<1>13. ASSUME NEW p \in Slot, ForkReady(c, p) PROVE Untouched(d)
  <2>1. np[p] \in Slot /\ state[np[p]] = "EMBRYO"
    BY <1>13, Zenon DEF IInv, ForkInv, InFork, ForkReady
  <2>q. QED  BY <1>0, <1>a, <1>b, <1>c, <1>13, <2>1, Zenon DEF Untouched, ForkReady
<1>14. ASSUME NEW p \in Slot, InitExits(c, p) PROVE Untouched(d)
  BY <1>0, <1>a, <1>b, <1>c, <1>14, Zenon DEF Untouched, InitExits
<1>15. ASSUME NEW p \in Slot, Exit(c, p) PROVE Untouched(d)
  <2>1. \A r \in Slot \ {p} : state[r] = "RUNNING" => state'[r] = state[r]
    BY <1>0, <1>15, Zenon DEF Exit, AfterExit, Woken
  <2>2. plock = NoCPU
    BY <1>15, Zenon DEF Exit, AcquireP
  <2>q. QED  BY <1>0, <1>a, <1>b, <1>c, <1>15, <2>1, <2>2, Zenon
             DEF Untouched, Exit, AcquireP, PushCli
<1>16. ASSUME NEW p \in Slot, Reap(c, p) PROVE Untouched(d)
  <2>1. WaitReturns(c, p) /\ UNCHANGED <<tlock, on, proc, cr3, ipc, saved>>
    BY <1>16, ReapEffect, Zenon
  <2>2. PICK z \in Slot : /\ state[z] = "ZOMBIE"
                          /\ kstack' = [kstack EXCEPT ![z] = FALSE]
                          /\ state' = [state EXCEPT ![z] = "UNUSED"]
                          /\ pc' = [pc EXCEPT ![p] = "sysret", ![z] = "none"]
    BY <1>16, ReapEffect, Zenon
  <2>3. /\ on[c] = p /\ plock \in {NoCPU, c} /\ plock' = NoCPU
        /\ flagIF' = [flagIF EXCEPT ![c] = TRUE] /\ \A e \in CPU \ {c} : intena'[e] = intena[e]
    BY <2>1, WaitReturnsEffect, Zenon
  <2>q. QED  BY <1>0, <1>a, <1>b, <1>c, <2>1, <2>2, <2>3, Zenon DEF Untouched
<1>17. ASSUME NEW p \in Slot, WaitFails(c, p) PROVE Untouched(d)
  <2>1. /\ on[c] = p /\ plock \in {NoCPU, c} /\ plock' = NoCPU
        /\ flagIF' = [flagIF EXCEPT ![c] = TRUE] /\ \A e \in CPU \ {c} : intena'[e] = intena[e]
    BY <1>17, WaitReturnsEffect, Zenon DEF WaitFails
  <2>q. QED  BY <1>0, <1>a, <1>b, <1>c, <1>17, <2>1, Zenon DEF Untouched, WaitFails
<1>18. ASSUME NEW p \in Slot, WaitSleep(c, p) PROVE Untouched(d)
  <2>1. /\ on[c] = p /\ plock \in {NoCPU, c} /\ plock' = c
        /\ flagIF' = [flagIF EXCEPT ![c] = FALSE] /\ intena' = [intena EXCEPT ![c] = TRUE]
    BY <1>18, WaitAgainEffect, Zenon DEF WaitSleep
  <2>q. QED  BY <1>0, <1>a, <1>b, <1>c, <1>18, <2>1, Zenon DEF Untouched, WaitSleep
<1>19. ASSUME NEW p \in Slot, Kill(c, p) PROVE Untouched(d)
  <2>0. /\ on[c] = p /\ plock = NoCPU /\ pc' = [pc EXCEPT ![p] = "sysret"]
        /\ UNCHANGED <<kstack, plock, tlock, on, proc, cr3, flagIF, intena, ipc, saved>>
    BY <1>19, KillEffect, Zenon DEF Runs
  <2>1. PICK q \in Slot : \/ state' = state
                          \/ state' = [state EXCEPT ![q] = KillState(state[q])]
    BY <1>19, KillEffect, Zenon
  <2>2. \A r \in Slot : state[r] = "RUNNING" => state'[r] = state[r]
    BY <1>0, <2>1, Zenon DEF KillState
  <2>q. QED  BY <1>0, <1>a, <1>b, <1>c, <2>0, <2>2, Zenon DEF Untouched
<1>20. ASSUME NEW p \in Slot, SleepStart(c, p) PROVE Untouched(d)
  BY <1>0, <1>a, <1>b, <1>c, <1>20, Zenon DEF Untouched, SleepStart, AcquireT, PushCli
<1>21. ASSUME NEW p \in Slot, SleepDone(c, p) PROVE Untouched(d)
  <2>1. tlock = c
    BY <1>21, Zenon DEF IInv, LockInv, LockAt, HoldsT, TLocs, SleepDone
  <2>q. QED  BY <1>0, <1>a, <1>b, <1>c, <1>21, <2>1, Zenon DEF Untouched, SleepDone, Woken
<1>22. ASSUME NEW p \in Slot, SleepLock(c, p) PROVE Untouched(d)
  BY <1>0, <1>a, <1>b, <1>c, <1>22, Zenon DEF Untouched, SleepLock, AcquireP, PushCli
<1>23. ASSUME NEW p \in Slot, SleepGo(c, p) PROVE Untouched(d)
  <2>1. tlock = c
    BY <1>23, Zenon DEF IInv, LockInv, LockAt, HoldsT, TLocs, SleepGo
  <2>q. QED  BY <1>0, <1>a, <1>b, <1>c, <1>23, <2>1, Zenon DEF Untouched, SleepGo, Woken
<1>24. ASSUME NEW p \in Slot, SleepResume(c, p) PROVE Untouched(d)
  <2>1. plock = c
    BY <1>24, Zenon DEF IInv, LockInv, LockAt, HoldsP, PLocs, SleepResume
  <2>q. QED  BY <1>0, <1>a, <1>b, <1>c, <1>24, <2>1, Zenon DEF Untouched, SleepResume, ResumeRelease
<1>25. ASSUME NEW p \in Slot, SleepRelock(c, p) PROVE Untouched(d)
  BY <1>0, <1>a, <1>b, <1>c, <1>25, Zenon DEF Untouched, SleepRelock, AcquireT, PushCli
<1>26. ASSUME NEW p \in Slot, Sched(c, p) PROVE Untouched(d)
  <2>1. /\ on[c] = p /\ saved' = [saved EXCEPT ![p] = intena[c]] /\ on' = [on EXCEPT ![c] = c]
        /\ UNCHANGED <<state, kstack, plock, tlock, proc, cr3, flagIF, intena>>
    BY <1>26, SchedEffect, Zenon
  <2>2. \A t \in Thread \ {p} : pc'[t] = pc[t] /\ ipc'[t] = ipc[t]
    BY <1>26, SchedMove, Zenon
  <2>q. QED  BY <1>0, <1>a, <1>b, <1>c, <2>1, <2>2, Zenon DEF Untouched
<1>27. ASSUME NEW p \in Slot, IrqExit(c, p) PROVE Untouched(d)
  BY <1>0, <1>a, <1>b, <1>c, <1>27, Zenon DEF Untouched, IrqExit
<1>28. ASSUME NEW p \in Slot, Yield(c, p) PROVE Untouched(d)
  BY <1>0, <1>a, <1>b, <1>c, <1>28, Zenon DEF Untouched, Yield, AcquireP, PushCli
<1>29. ASSUME NEW p \in Slot, YieldResume(c, p) PROVE Untouched(d)
  <2>1. plock = c
    BY <1>29, Zenon DEF IInv, LockInv, LockAt, HoldsP, PLocs, YieldResume
  <2>q. QED  BY <1>0, <1>a, <1>b, <1>c, <1>29, <2>1, Zenon DEF Untouched, YieldResume, ResumeRelease
<1>30. ASSUME NEW p \in Slot, Fault(c, p) PROVE Untouched(d)
  BY <1>0, <1>a, <1>b, <1>c, <1>30, Zenon DEF Untouched, Fault
<1>31. ASSUME NEW p \in Slot, NEW call \in Syscalls, SyscallEntry(c, p, call) PROVE Untouched(d)
  BY <1>0, <1>a, <1>b, <1>c, <1>31, Zenon DEF Untouched, SyscallEntry
<1>32. ASSUME NEW t \in Thread, Interrupt(c, t) PROVE Untouched(d)
  BY <1>0, <1>a, <1>b, <1>c, <1>32, Zenon DEF Untouched, Interrupt
<1>33. ASSUME NEW t \in Thread, Tick(c, t) PROVE Untouched(d)
  BY <1>0, <1>a, <1>b, <1>c, <1>33, Zenon DEF Untouched, Tick, AcquireT, PushCli
<1>34. ASSUME NEW t \in Thread, TickWake(c, t) PROVE Untouched(d)
  <2>1. tlock = c
    BY <1>34, Zenon DEF IInv, LockInv, LockAt, HoldsT, TLocs, TickWake
  <2>q. QED  BY <1>0, <1>a, <1>b, <1>c, <1>34, <2>1, Zenon DEF Untouched, TickWake, Woken
<1>35. ASSUME NEW t \in Thread, Iret(c, t) PROVE Untouched(d)
  BY <1>0, <1>a, <1>b, <1>c, <1>35, Zenon DEF Untouched, Iret
<1>36. ASSUME NEW p \in Slot, SleepTest(c, p) PROVE Untouched(d)
  BY <1>0, <1>a, <1>b, <1>c, <1>36, Zenon DEF Untouched, SleepTest
<1>q. QED
  BY Zenon, <1>1, <1>2, <1>3, <1>4, <1>5, <1>6, <1>7, <1>8, <1>9, <1>10, <1>11, <1>12,
     <1>13, <1>14, <1>15, <1>16, <1>17, <1>18, <1>19, <1>20, <1>21, <1>22, <1>23, <1>24,
     <1>25, <1>26, <1>27, <1>28, <1>29, <1>30, <1>31, <1>32, <1>33, <1>34, <1>35, <1>36
  DEF Step, SchedulerStep, SyscallStep, ForkStep, SleepStep, YieldStep, UserStep, IrqStep

-----------------------------------------------------------------------------
(* The invariants about a processor survive the steps of another.          *)
LEMMA OthersInv ==
  ASSUME IInv, NEW d \in CPU, Untouched(d)
  PROVE  LockAt(d)' /\ MaskAt(d)' /\ CpuAt(d)'
<1>1. LockAt(d) /\ MaskAt(d) /\ CpuAt(d)
  BY Zenon DEF IInv, LockInv, MaskInv, CpuInv
<1>2. on[d] \in Slot \union {d} /\ (on[d] \in Slot => on[d] = proc[d] /\ proc[d] # NoProc)
  BY <1>1, Here, ProcAssumption, ZenonT(60) DEF LockAt
<1>3. pc'[on[d]] = pc[on[d]] /\ ipc'[on[d]] = ipc[on[d]]
  BY <1>2, Zenon DEF Untouched
<1>4. LockAt(d)'
  BY <1>1, <1>3, Zenon DEF LockAt, Untouched, HoldsP, HoldsT
<1>5. MaskAt(d)'
  BY <1>1, <1>3, Zenon DEF MaskAt, Untouched
<1>6. CpuAt(d)'
  <2>1. pc[d] \in {"swtch", "back"} => proc[d] # NoProc
    BY <1>1, ProcAssumption, Zenon DEF CpuAt
  <2>2. on[d] \in Slot => state'[on[d]] = state[on[d]]
    BY <1>2, Zenon DEF Untouched
  <2>q. QED  BY <1>1, <1>2, <1>3, <2>1, <2>2, ZenonT(30) DEF CpuAt, Untouched, AtSched, Saved
<1>q. QED  BY <1>4, <1>5, <1>6, Zenon
-----------------------------------------------------------------------------
(* Every step keeps the variables in their types.                          *)
LEMMA TypeStep ==
  ASSUME IInv, NEW c \in CPU, Step(c) PROVE TypeOK'
<1>. USE ProcAssumption DEF Slot, Thread, Chan, initproc, Goto, GotoIrq, At, AtIrq, Runs,
         tableVars, cpuVars, threadVars
<1>0. TypeOK /\ ForkInv /\ CpuInv
  BY Zenon DEF IInv
<1>1. CASE Sti(c)
  BY <1>0, <1>1, Zenon DEF TypeOK, Sti, PC
<1>2. CASE ScanNone(c)
  BY <1>0, <1>2, Zenon DEF TypeOK, ScanNone, PC
<1>3. CASE SwtchTo(c)
  <2>1. proc[c] \in Slot
    BY <1>0, <1>3, Zenon DEF CpuInv, CpuAt, SwtchTo
  <2>q. QED  BY <1>0, <1>3, <2>1, Zenon DEF TypeOK, SwtchTo, PC
<1>4. CASE Back(c)
  BY <1>0, <1>4, Zenon DEF TypeOK, Back, PC
<1>5. ASSUME NEW p \in Slot, Dispatch(c, p) PROVE TypeOK'
  BY <1>0, <1>5, Zenon DEF TypeOK, Dispatch, AcquireP, PushCli, States, PC
<1>6. ASSUME NEW p \in Slot, Forkret(c, p) PROVE TypeOK'
  BY <1>0, <1>6, Zenon DEF TypeOK, Forkret, PC
<1>7. ASSUME NEW p \in Slot, SyscallExit(c, p) PROVE TypeOK'
  BY <1>0, <1>7, Zenon DEF TypeOK, SyscallExit, PC
<1>8. ASSUME NEW p \in Slot, AllocProc(c, p) PROVE TypeOK'
  <2>0. nextpid' = nextpid + 1 /\ pc' = [pc EXCEPT ![p] = "fkalloc"]
        /\ UNCHANGED <<parent, chan, killed, kstack, plock, tlock, on, proc, cr3,
                       flagIF, intena, ipc, saved, left>>
    BY <1>8, AllocProcEffect, Zenon
  <2>1. PICK s \in Slot : /\ state' = [state EXCEPT ![s] = "EMBRYO"]
                          /\ pid' = [pid EXCEPT ![s] = nextpid]
                          /\ np' = [np EXCEPT ![p] = s]
    BY <1>8, AllocProcEffect
  <2>2. state' \in [Slot -> States]
    BY <1>0, <2>1, Zenon DEF TypeOK, States
  <2>3. pid' \in [Slot -> Nat] /\ nextpid' \in Nat
    BY <1>0, <2>0, <2>1 DEF TypeOK
  <2>4. np' \in [Slot -> Slot \union {NoProc}]
    BY <1>0, <2>1, Zenon DEF TypeOK
  <2>q. QED  BY <1>0, <2>0, <2>2, <2>3, <2>4, Zenon DEF TypeOK, PC
<1>9. ASSUME NEW p \in Slot, AllocProcFull(c, p) PROVE TypeOK'
  BY <1>0, <1>9, Zenon DEF TypeOK, AllocProcFull, PC
<1>10. ASSUME NEW p \in Slot, AllocStack(c, p) PROVE TypeOK'
  BY <1>0, <1>10, Zenon DEF TypeOK, AllocStack, ForkInv, InFork, PC
<1>11. ASSUME NEW p \in Slot, ForkFails(c, p) PROVE TypeOK'
  BY <1>0, <1>11, Zenon DEF TypeOK, ForkFails, ForkInv, InFork, States, PC
<1>12. ASSUME NEW p \in Slot, ForkCopy(c, p) PROVE TypeOK'
  BY <1>0, <1>12, Zenon DEF TypeOK, ForkCopy, ForkInv, InFork, PC
<1>13. ASSUME NEW p \in Slot, ForkReady(c, p) PROVE TypeOK'
  BY <1>0, <1>13, Zenon DEF TypeOK, ForkReady, ForkInv, InFork, States, PC
<1>14. ASSUME NEW p \in Slot, InitExits(c, p) PROVE TypeOK'
  BY <1>0, <1>14, Zenon DEF TypeOK, InitExits
<1>15. ASSUME NEW p \in Slot, Exit(c, p) PROVE TypeOK'
  <2>1. state' \in [Slot -> States]
    BY <1>0, <1>15, Zenon DEF TypeOK, Exit, AfterExit, Woken, States
  <2>2. parent' \in [Slot -> Slot \union {NoProc}]
    BY <1>0, <1>15 DEF TypeOK, Exit, Heir
  <2>q. QED  BY <1>0, <1>15, <2>1, <2>2, Zenon DEF TypeOK, Exit, AcquireP, PushCli, PC
<1>16. ASSUME NEW p \in Slot, Reap(c, p) PROVE TypeOK'
  <2>1. WaitReturns(c, p) /\ chan' = [chan EXCEPT ![p] = NoChan]
        /\ UNCHANGED <<nextpid, tlock, on, proc, cr3, ipc, saved, np, left>>
    BY <1>16, ReapEffect, Zenon
  <2>2. PICK z \in Slot : /\ kstack' = [kstack EXCEPT ![z] = FALSE]
                          /\ pid' = [pid EXCEPT ![z] = 0]
                          /\ parent' = [parent EXCEPT ![z] = NoProc]
                          /\ killed' = [killed EXCEPT ![z] = FALSE]
                          /\ state' = [state EXCEPT ![z] = "UNUSED"]
                          /\ pc' = [pc EXCEPT ![p] = "sysret", ![z] = "none"]
    BY <1>16, ReapEffect, Zenon
  <2>3. /\ plock' = NoCPU /\ flagIF' = [flagIF EXCEPT ![c] = TRUE]
        /\ intena' \in [CPU -> BOOLEAN]
    BY <2>1, WaitReturnsEffect, Zenon
  <2>q. QED  BY <1>0, <2>1, <2>2, <2>3, Zenon DEF TypeOK, States, PC
<1>17. ASSUME NEW p \in Slot, WaitFails(c, p) PROVE TypeOK'
  <2>1. /\ plock' = NoCPU /\ flagIF' = [flagIF EXCEPT ![c] = TRUE]
        /\ intena' \in [CPU -> BOOLEAN]
    BY <1>17, WaitReturnsEffect, Zenon DEF WaitFails
  <2>q. QED  BY <1>0, <1>17, <2>1, Zenon DEF TypeOK, WaitFails, PC
<1>18. ASSUME NEW p \in Slot, WaitSleep(c, p) PROVE TypeOK'
  <2>1. /\ plock' = c /\ flagIF' = [flagIF EXCEPT ![c] = FALSE]
        /\ intena' = [intena EXCEPT ![c] = TRUE]
    BY <1>18, WaitAgainEffect, Zenon DEF WaitSleep
  <2>q. QED  BY <1>0, <1>18, <2>1, Zenon DEF TypeOK, WaitSleep, States, PC
<1>19. ASSUME NEW p \in Slot, Kill(c, p) PROVE TypeOK'
  <2>0. pc' = [pc EXCEPT ![p] = "sysret"]
        /\ UNCHANGED <<pid, parent, chan, kstack, nextpid, plock, tlock, on, proc, cr3,
                       flagIF, intena, ipc, saved, np, left>>
    BY <1>19, KillEffect, Zenon
  <2>1. PICK q \in Slot : \/ UNCHANGED <<killed, state>>
                          \/ /\ killed' = [killed EXCEPT ![q] = TRUE]
                             /\ state' = [state EXCEPT ![q] = KillState(state[q])]
    BY <1>19, KillEffect, Zenon
  <2>2. state' \in [Slot -> States] /\ killed' \in [Slot -> BOOLEAN]
    BY <1>0, <2>1, Zenon DEF TypeOK, KillState, States
  <2>q. QED  BY <1>0, <2>0, <2>2, Zenon DEF TypeOK, PC
<1>20. ASSUME NEW p \in Slot, SleepStart(c, p) PROVE TypeOK'
  <2>1. left' \in [Slot -> Nat]
    BY <1>0, <1>20 DEF TypeOK, SleepStart
  <2>q. QED  BY <1>0, <1>20, <2>1, Zenon DEF TypeOK, SleepStart, AcquireT, PushCli, PC
<1>21. ASSUME NEW p \in Slot, SleepDone(c, p) PROVE TypeOK'
  BY <1>0, <1>21, Zenon DEF TypeOK, SleepDone, PC
<1>22. ASSUME NEW p \in Slot, SleepLock(c, p) PROVE TypeOK'
  BY <1>0, <1>22, Zenon DEF TypeOK, SleepLock, AcquireP, PushCli, PC
<1>23. ASSUME NEW p \in Slot, SleepGo(c, p) PROVE TypeOK'
  BY <1>0, <1>23, Zenon DEF TypeOK, SleepGo, States, PC
<1>24. ASSUME NEW p \in Slot, SleepResume(c, p) PROVE TypeOK'
  BY <1>0, <1>24, Zenon DEF TypeOK, SleepResume, ResumeRelease, PC
<1>25. ASSUME NEW p \in Slot, SleepRelock(c, p) PROVE TypeOK'
  BY <1>0, <1>25, Zenon DEF TypeOK, SleepRelock, AcquireT, PushCli, PC
<1>26. ASSUME NEW p \in Slot, Sched(c, p) PROVE TypeOK'
  <2>1. pc' \in [Thread -> PC] /\ ipc' \in [Thread -> IPC]
    BY <1>26, SchedMove, Zenon
  <2>2. /\ saved' = [saved EXCEPT ![p] = intena[c]]
        /\ on' = [on EXCEPT ![c] = c]
        /\ UNCHANGED <<state, pid, parent, chan, killed, kstack, nextpid, plock, tlock,
                       proc, cr3, flagIF, intena, np, left>>
    BY <1>26, SchedEffect, Zenon
  <2>q. QED  BY <1>0, <2>1, <2>2, Zenon DEF TypeOK
<1>27. ASSUME NEW p \in Slot, IrqExit(c, p) PROVE TypeOK'
  BY <1>0, <1>27, Zenon DEF TypeOK, IrqExit, PC, IPC
<1>28. ASSUME NEW p \in Slot, Yield(c, p) PROVE TypeOK'
  BY <1>0, <1>28, Zenon DEF TypeOK, Yield, AcquireP, PushCli, States, IPC
<1>29. ASSUME NEW p \in Slot, YieldResume(c, p) PROVE TypeOK'
  BY <1>0, <1>29, Zenon DEF TypeOK, YieldResume, ResumeRelease, IPC
<1>30. ASSUME NEW p \in Slot, Fault(c, p) PROVE TypeOK'
  BY <1>0, <1>30, Zenon DEF TypeOK, Fault, PC
<1>31. ASSUME NEW p \in Slot, NEW call \in Syscalls, SyscallEntry(c, p, call) PROVE TypeOK'
  <2>1. call \in PC
    BY <1>31, Zenon DEF SyscallNames, PC
  <2>q. QED  BY <1>0, <1>31, <2>1, Zenon DEF TypeOK, SyscallEntry, PC
<1>32. ASSUME NEW t \in Thread, Interrupt(c, t) PROVE TypeOK'
  BY <1>0, <1>32, Zenon DEF TypeOK, Interrupt, IPC
<1>33. ASSUME NEW t \in Thread, Tick(c, t) PROVE TypeOK'
  <2>1. left' \in [Slot -> Nat]
    BY <1>0, <1>33 DEF TypeOK, Tick
  <2>q. QED  BY <1>0, <1>33, <2>1, Zenon DEF TypeOK, Tick, AcquireT, PushCli, IPC
<1>34. ASSUME NEW t \in Thread, TickWake(c, t) PROVE TypeOK'
  BY <1>0, <1>34, Zenon DEF TypeOK, TickWake, Woken, States, IPC
<1>35. ASSUME NEW t \in Thread, Iret(c, t) PROVE TypeOK'
  BY <1>0, <1>35, Zenon DEF TypeOK, Iret, IPC
<1>36. ASSUME NEW p \in Slot, SleepTest(c, p) PROVE TypeOK'
  BY <1>0, <1>36, Zenon DEF TypeOK, SleepTest, PC
<1>q. QED
  BY Zenon, <1>1, <1>2, <1>3, <1>4, <1>5, <1>6, <1>7, <1>8, <1>9, <1>10, <1>11, <1>12,
     <1>13, <1>14, <1>15, <1>16, <1>17, <1>18, <1>19, <1>20, <1>21, <1>22, <1>23, <1>24,
     <1>25, <1>26, <1>27, <1>28, <1>29, <1>30, <1>31, <1>32, <1>33, <1>34, <1>35, <1>36
  DEF Step, SchedulerStep, SyscallStep, ForkStep, SleepStep, YieldStep, UserStep, IrqStep

-----------------------------------------------------------------------------
(* A step of a processor keeps its account of the locks.                   *)
LEMMA LockHere ==
  ASSUME IInv, NEW c \in CPU, Step(c) PROVE LockAt(c)'
<1>. USE DEF Goto, GotoIrq, At, AtIrq, Runs, tableVars, cpuVars, threadVars
<1>0. /\ on \in [CPU -> Thread] /\ flagIF \in [CPU -> BOOLEAN] /\ pc \in [Thread -> PC]
      /\ ipc \in [Thread -> IPC]
      /\ LockAt(c) /\ ThreadInv
  BY Zenon DEF IInv, LockInv, TypeOK
<1>a. c \in Thread /\ Slot \subseteq Thread /\ c \notin Slot /\ c # NoCPU
  BY ProcAssumption, Zenon DEF Thread, Slot
<1>1. CASE Sti(c)
  BY <1>0, <1>a, <1>1, Zenon DEF ThreadInv, LockAt, HoldsP, HoldsT, PLocs, TLocs, Sti
<1>2. CASE ScanNone(c)
  BY <1>0, <1>a, <1>2, Zenon DEF ThreadInv, LockAt, HoldsP, HoldsT, PLocs, TLocs, ScanNone
<1>3. CASE SwtchTo(c)
  <2>1. proc[c] \in Slot /\ Saved(proc[c])
    BY <1>3, Zenon DEF IInv, CpuInv, CpuAt, SwtchTo
  <2>2. plock = c /\ tlock # c /\ ~flagIF[c]
    BY <1>0, <1>3, Zenon DEF LockAt, HoldsP, HoldsT, PLocs, TLocs, SwtchTo
  <2>3. ~HoldsT(proc[c]) /\ HoldsP(proc[c])
    BY <2>1, Zenon DEF Saved, HoldsT, HoldsP, TLocs, PLocs
  <2>q. QED  BY <1>0, <1>a, <1>3, <2>1, <2>2, <2>3, Zenon DEF LockAt, HoldsP, HoldsT, SwtchTo
<1>4. CASE Back(c)
  BY <1>0, <1>a, <1>4, Zenon DEF ThreadInv, LockAt, HoldsP, HoldsT, PLocs, TLocs, Back
<1>5. ASSUME NEW p \in Slot, Dispatch(c, p) PROVE LockAt(c)'
  BY <1>0, <1>a, <1>5, Zenon DEF ThreadInv, LockAt, HoldsP, HoldsT, PLocs, TLocs, Dispatch,
     AcquireP, PushCli
<1>6. ASSUME NEW p \in Slot, Forkret(c, p) PROVE LockAt(c)'
  BY <1>0, <1>a, <1>6, Zenon DEF ThreadInv, LockAt, HoldsP, HoldsT, PLocs, TLocs, Forkret
<1>7. ASSUME NEW p \in Slot, SyscallExit(c, p) PROVE LockAt(c)'
  BY <1>0, <1>a, <1>7, Zenon DEF ThreadInv, LockAt, HoldsP, HoldsT, PLocs, TLocs, SyscallExit
<1>8. ASSUME NEW p \in Slot, AllocProc(c, p) PROVE LockAt(c)'
  <2>0. /\ on[c] = p /\ ipc[p] = "none" /\ pc[p] = "fork" /\ pc' = [pc EXCEPT ![p] = "fkalloc"]
        /\ UNCHANGED <<plock, tlock, on, flagIF, ipc>>
    BY <1>8, AllocProcEffect, Zenon DEF Runs
  <2>q. QED  BY <1>0, <1>a, <2>0, Zenon DEF LockAt, HoldsP, HoldsT, PLocs, TLocs
<1>9. ASSUME NEW p \in Slot, AllocProcFull(c, p) PROVE LockAt(c)'
  BY <1>0, <1>a, <1>9, Zenon DEF ThreadInv, LockAt, HoldsP, HoldsT, PLocs, TLocs, AllocProcFull
<1>10. ASSUME NEW p \in Slot, AllocStack(c, p) PROVE LockAt(c)'
  BY <1>0, <1>a, <1>10 DEF ThreadInv, LockAt, HoldsP, HoldsT, PLocs, TLocs, AllocStack
<1>11. ASSUME NEW p \in Slot, ForkFails(c, p) PROVE LockAt(c)'
  BY <1>0, <1>a, <1>11, Zenon DEF ThreadInv, LockAt, HoldsP, HoldsT, PLocs, TLocs, ForkFails
<1>12. ASSUME NEW p \in Slot, ForkCopy(c, p) PROVE LockAt(c)'
  BY <1>0, <1>a, <1>12, Zenon DEF ThreadInv, LockAt, HoldsP, HoldsT, PLocs, TLocs, ForkCopy
<1>13. ASSUME NEW p \in Slot, ForkReady(c, p) PROVE LockAt(c)'
  BY <1>0, <1>a, <1>13, Zenon DEF ThreadInv, LockAt, HoldsP, HoldsT, PLocs, TLocs, ForkReady
<1>14. ASSUME NEW p \in Slot, InitExits(c, p) PROVE LockAt(c)'
  BY <1>0, <1>a, <1>14, Zenon DEF ThreadInv, LockAt, HoldsP, HoldsT, PLocs, TLocs, InitExits
<1>15. ASSUME NEW p \in Slot, Exit(c, p) PROVE LockAt(c)'
  BY <1>0, <1>a, <1>15, Zenon DEF ThreadInv, LockAt, HoldsP, HoldsT, PLocs, TLocs, Exit,
     AcquireP, PushCli, AfterExit, Heir, Woken
<1>16. ASSUME NEW p \in Slot, Reap(c, p) PROVE LockAt(c)'
  <2>1. WaitReturns(c, p) /\ UNCHANGED <<tlock, on, ipc>>
    BY <1>16, ReapEffect, Zenon
  <2>2. /\ on[c] = p /\ ipc[p] = "none" /\ pc[p] \in {"wait", "wresume"} /\ plock' = NoCPU
    BY <2>1, WaitReturnsEffect, Zenon
  <2>3. PICK z \in Slot : state[z] = "ZOMBIE" /\ pc' = [pc EXCEPT ![p] = "sysret", ![z] = "none"]
    BY <1>16, ReapEffect, Zenon
  <2>4. pc'[p] \in {"sysret", "none"}
    BY <1>0, <1>a, <2>3, Zenon
  <2>5. tlock # c
    BY <1>0, <2>2, Zenon DEF LockAt, HoldsT, TLocs
  <2>q. QED  BY <1>0, <1>a, <2>1, <2>2, <2>4, <2>5, Zenon DEF LockAt, HoldsP, HoldsT, PLocs, TLocs
<1>17. ASSUME NEW p \in Slot, WaitFails(c, p) PROVE LockAt(c)'
  <2>1. /\ on[c] = p /\ ipc[p] = "none" /\ pc[p] \in {"wait", "wresume"} /\ plock' = NoCPU
    BY <1>17, WaitReturnsEffect, Zenon DEF WaitFails
  <2>2. UNCHANGED <<tlock, on, ipc>> /\ pc' = [pc EXCEPT ![p] = "sysret"]
    BY <1>17, Zenon DEF WaitFails
  <2>q. QED  BY <1>0, <1>a, <2>1, <2>2, Zenon DEF LockAt, HoldsP, HoldsT, PLocs, TLocs
<1>18. ASSUME NEW p \in Slot, WaitSleep(c, p) PROVE LockAt(c)'
  <2>1. /\ on[c] = p /\ ipc[p] = "none" /\ pc[p] \in {"wait", "wresume"} /\ plock' = c
        /\ flagIF' = [flagIF EXCEPT ![c] = FALSE]
    BY <1>18, WaitAgainEffect, Zenon DEF WaitSleep
  <2>2. UNCHANGED <<tlock, on, ipc>> /\ pc' = [pc EXCEPT ![p] = "wsched"]
    BY <1>18, Zenon DEF WaitSleep
  <2>q. QED  BY <1>0, <1>a, <2>1, <2>2, Zenon DEF LockAt, HoldsP, HoldsT, PLocs, TLocs
<1>19. ASSUME NEW p \in Slot, Kill(c, p) PROVE LockAt(c)'
  <2>0. /\ on[c] = p /\ ipc[p] = "none" /\ pc[p] = "kill" /\ pc' = [pc EXCEPT ![p] = "sysret"]
        /\ UNCHANGED <<plock, tlock, on, flagIF, ipc>>
    BY <1>19, KillEffect, Zenon DEF Runs
  <2>q. QED  BY <1>0, <1>a, <2>0, Zenon DEF LockAt, HoldsP, HoldsT, PLocs, TLocs
<1>20. ASSUME NEW p \in Slot, SleepStart(c, p) PROVE LockAt(c)'
  BY <1>0, <1>a, <1>20, Zenon DEF ThreadInv, LockAt, HoldsP, HoldsT, PLocs, TLocs, SleepStart,
     AcquireT, PushCli
<1>21. ASSUME NEW p \in Slot, SleepDone(c, p) PROVE LockAt(c)'
  BY <1>0, <1>a, <1>21, Zenon DEF ThreadInv, LockAt, HoldsP, HoldsT, PLocs, TLocs, SleepDone
<1>22. ASSUME NEW p \in Slot, SleepLock(c, p) PROVE LockAt(c)'
  BY <1>0, <1>a, <1>22, Zenon DEF ThreadInv, LockAt, HoldsP, HoldsT, PLocs, TLocs, SleepLock,
     AcquireP, PushCli
<1>23. ASSUME NEW p \in Slot, SleepGo(c, p) PROVE LockAt(c)'
  BY <1>0, <1>a, <1>23, Zenon DEF ThreadInv, LockAt, HoldsP, HoldsT, PLocs, TLocs, SleepGo
<1>24. ASSUME NEW p \in Slot, SleepResume(c, p) PROVE LockAt(c)'
  BY <1>0, <1>a, <1>24, Zenon DEF ThreadInv, LockAt, HoldsP, HoldsT, PLocs, TLocs, SleepResume,
     ResumeRelease
<1>25. ASSUME NEW p \in Slot, SleepRelock(c, p) PROVE LockAt(c)'
  BY <1>0, <1>a, <1>25, Zenon DEF ThreadInv, LockAt, HoldsP, HoldsT, PLocs, TLocs, SleepRelock,
     AcquireT, PushCli
<1>26. ASSUME NEW p \in Slot, Sched(c, p) PROVE LockAt(c)'
  <2>1. /\ on[c] = p /\ plock = c /\ AtSched(p) /\ on' = [on EXCEPT ![c] = c]
        /\ UNCHANGED <<plock, tlock, flagIF>>
    BY <1>26, SchedEffect, Zenon
  <2>2. pc[c] = "back" /\ ipc[c] = "none"
    BY <1>0, <1>a, <2>1, Here, Zenon DEF ThreadInv, PLocs
  <2>3. pc'[c] = pc[c] /\ ipc'[c] = ipc[c]
    BY <1>a, <1>26, SchedMove
  <2>4. tlock # c
    BY <1>0, <2>1, Zenon DEF LockAt, AtSched, HoldsT, TLocs
  <2>q. QED  BY <1>0, <1>a, <2>1, <2>2, <2>3, <2>4, Zenon DEF LockAt, HoldsP, HoldsT, PLocs, TLocs
<1>27. ASSUME NEW p \in Slot, IrqExit(c, p) PROVE LockAt(c)'
  BY <1>0, <1>a, <1>27, Zenon DEF ThreadInv, LockAt, HoldsP, HoldsT, PLocs, TLocs, IrqExit
<1>28. ASSUME NEW p \in Slot, Yield(c, p) PROVE LockAt(c)'
  BY <1>0, <1>a, <1>28, Zenon DEF ThreadInv, LockAt, HoldsP, HoldsT, PLocs, TLocs, Yield,
     AcquireP, PushCli
<1>29. ASSUME NEW p \in Slot, YieldResume(c, p) PROVE LockAt(c)'
  BY <1>0, <1>a, <1>29, Zenon DEF ThreadInv, LockAt, HoldsP, HoldsT, PLocs, TLocs, YieldResume,
     ResumeRelease
<1>30. ASSUME NEW p \in Slot, Fault(c, p) PROVE LockAt(c)'
  BY <1>0, <1>a, <1>30, Zenon DEF ThreadInv, LockAt, HoldsP, HoldsT, PLocs, TLocs, Fault
<1>31. ASSUME NEW p \in Slot, NEW call \in Syscalls, SyscallEntry(c, p, call) PROVE LockAt(c)'
  <2>1. call \in SyscallNames
    BY ProcAssumption, Zenon
  <2>q. QED  BY <1>0, <1>a, <1>31, <2>1, Zenon
             DEF LockAt, HoldsP, HoldsT, PLocs, TLocs, SyscallEntry, SyscallNames
<1>32. ASSUME NEW t \in Thread, Interrupt(c, t) PROVE LockAt(c)'
  BY <1>0, <1>a, <1>32, Zenon DEF ThreadInv, LockAt, HoldsP, HoldsT, PLocs, TLocs, Interrupt
<1>33. ASSUME NEW t \in Thread, Tick(c, t) PROVE LockAt(c)'
  BY <1>0, <1>a, <1>33, Zenon DEF ThreadInv, LockAt, HoldsP, HoldsT, PLocs, TLocs, Tick,
     AcquireT, PushCli
<1>34. ASSUME NEW t \in Thread, TickWake(c, t) PROVE LockAt(c)'
  BY <1>0, <1>a, <1>34, Zenon DEF ThreadInv, LockAt, HoldsP, HoldsT, PLocs, TLocs, TickWake,
     Woken
<1>35. ASSUME NEW t \in Thread, Iret(c, t) PROVE LockAt(c)'
  BY <1>0, <1>a, <1>35, Zenon DEF ThreadInv, LockAt, HoldsP, HoldsT, PLocs, TLocs, Iret
<1>36. ASSUME NEW p \in Slot, SleepTest(c, p) PROVE LockAt(c)'
  BY <1>0, <1>a, <1>36, Zenon DEF ThreadInv, LockAt, HoldsP, HoldsT, PLocs, TLocs, SleepTest
<1>q. QED
  BY Zenon, <1>1, <1>2, <1>3, <1>4, <1>5, <1>6, <1>7, <1>8, <1>9, <1>10, <1>11, <1>12,
     <1>13, <1>14, <1>15, <1>16, <1>17, <1>18, <1>19, <1>20, <1>21, <1>22, <1>23, <1>24,
     <1>25, <1>26, <1>27, <1>28, <1>29, <1>30, <1>31, <1>32, <1>33, <1>34, <1>35, <1>36
  DEF Step, SchedulerStep, SyscallStep, ForkStep, SleepStep, YieldStep, UserStep, IrqStep

-----------------------------------------------------------------------------
(* A step keeps handlers away from code that holds a lock.                 *)
LEMMA ThreadStep ==
  ASSUME IInv, NEW c \in CPU, Step(c) PROVE ThreadInv'
<1>. USE DEF Goto, GotoIrq, At, AtIrq, Runs, tableVars, cpuVars, threadVars
<1>0. /\ pc \in [Thread -> PC] /\ ipc \in [Thread -> IPC]
      /\ LockAt(c) /\ ThreadInv
  BY Zenon DEF IInv, LockInv, TypeOK
<1>a. /\ CPU \subseteq Thread /\ Slot \subseteq Thread /\ \A p \in Slot : p \notin CPU
      /\ c \in Thread
  BY ProcAssumption, Zenon DEF Thread, Slot
<1>1. CASE Sti(c)
  BY <1>0, <1>a, <1>1, Zenon DEF ThreadInv, PLocs, TLocs, SchedPC, Sti
<1>2. CASE ScanNone(c)
  BY <1>0, <1>a, <1>2, Zenon DEF ThreadInv, PLocs, TLocs, SchedPC, ScanNone
<1>3. CASE SwtchTo(c)
  BY <1>0, <1>a, <1>3, Zenon DEF ThreadInv, PLocs, TLocs, SchedPC, SwtchTo
<1>4. CASE Back(c)
  BY <1>0, <1>a, <1>4, Zenon DEF ThreadInv, PLocs, TLocs, SchedPC, Back
<1>5. ASSUME NEW p \in Slot, Dispatch(c, p) PROVE ThreadInv'
  BY <1>0, <1>a, <1>5, Zenon DEF ThreadInv, PLocs, TLocs, SchedPC, Dispatch, AcquireP, PushCli
<1>6. ASSUME NEW p \in Slot, Forkret(c, p) PROVE ThreadInv'
  BY <1>0, <1>a, <1>6, Zenon DEF ThreadInv, PLocs, TLocs, SchedPC, Forkret
<1>7. ASSUME NEW p \in Slot, SyscallExit(c, p) PROVE ThreadInv'
  BY <1>0, <1>a, <1>7, Zenon DEF ThreadInv, PLocs, TLocs, SchedPC, SyscallExit
<1>8. ASSUME NEW p \in Slot, AllocProc(c, p) PROVE ThreadInv'
  <2>0. ipc[p] = "none" /\ pc' = [pc EXCEPT ![p] = "fkalloc"] /\ UNCHANGED ipc
    BY <1>8, AllocProcEffect, Zenon
  <2>q. QED  BY <1>0, <1>a, <2>0, Zenon DEF ThreadInv, PLocs, TLocs, SchedPC
<1>9. ASSUME NEW p \in Slot, AllocProcFull(c, p) PROVE ThreadInv'
  BY <1>0, <1>a, <1>9, Zenon DEF ThreadInv, PLocs, TLocs, SchedPC, AllocProcFull
<1>10. ASSUME NEW p \in Slot, AllocStack(c, p) PROVE ThreadInv'
  <2>1. np[p] \in Slot /\ ipc[np[p]] = "none" /\ ipc[p] = "none"
    BY <1>10, Zenon DEF IInv, ForkInv, SlotInv, SlotAt, InFork, AllocStack
  <2>q. QED  BY <1>0, <1>a, <1>10, <2>1, ZenonT(60) DEF ThreadInv, PLocs, TLocs, SchedPC, AllocStack
<1>11. ASSUME NEW p \in Slot, ForkFails(c, p) PROVE ThreadInv'
  <2>1. np[p] \in Slot /\ ipc[np[p]] = "none" /\ ipc[p] = "none"
    BY <1>11, Zenon DEF IInv, ForkInv, SlotInv, SlotAt, InFork, ForkFails
  <2>q. QED  BY <1>0, <1>a, <1>11, <2>1, Zenon DEF ThreadInv, PLocs, TLocs, SchedPC, ForkFails
<1>12. ASSUME NEW p \in Slot, ForkCopy(c, p) PROVE ThreadInv'
  BY <1>0, <1>a, <1>12, Zenon DEF ThreadInv, PLocs, TLocs, SchedPC, ForkCopy
<1>13. ASSUME NEW p \in Slot, ForkReady(c, p) PROVE ThreadInv'
  BY <1>0, <1>a, <1>13, Zenon DEF ThreadInv, PLocs, TLocs, SchedPC, ForkReady
<1>14. ASSUME NEW p \in Slot, InitExits(c, p) PROVE ThreadInv'
  BY <1>0, <1>a, <1>14, Zenon DEF ThreadInv, PLocs, TLocs, SchedPC, InitExits
<1>15. ASSUME NEW p \in Slot, Exit(c, p) PROVE ThreadInv'
  BY <1>0, <1>a, <1>15, Zenon DEF ThreadInv, PLocs, TLocs, SchedPC, Exit, AcquireP, PushCli,
     AfterExit, Heir, Woken
<1>16. ASSUME NEW p \in Slot, Reap(c, p) PROVE ThreadInv'
  <2>1. UNCHANGED ipc
    BY <1>16, ReapEffect, Zenon
  <2>2. PICK z \in Slot : pc' = [pc EXCEPT ![p] = "sysret", ![z] = "none"]
    BY <1>16, ReapEffect, Zenon
  <2>q. QED  BY <1>0, <1>a, <2>1, <2>2, Zenon DEF ThreadInv, PLocs, TLocs, SchedPC
<1>17. ASSUME NEW p \in Slot, WaitFails(c, p) PROVE ThreadInv'
  BY <1>0, <1>a, <1>17, Zenon DEF ThreadInv, PLocs, TLocs, SchedPC, WaitFails
<1>18. ASSUME NEW p \in Slot, WaitSleep(c, p) PROVE ThreadInv'
  <2>1. ipc[p] = "none"
    BY <1>18, WaitAgainEffect, Zenon DEF WaitSleep
  <2>2. UNCHANGED ipc /\ pc' = [pc EXCEPT ![p] = "wsched"]
    BY <1>18, Zenon DEF WaitSleep
  <2>q. QED  BY <1>0, <1>a, <2>1, <2>2, Zenon DEF ThreadInv, PLocs, TLocs, SchedPC
<1>19. ASSUME NEW p \in Slot, Kill(c, p) PROVE ThreadInv'
  <2>0. ipc[p] = "none" /\ pc' = [pc EXCEPT ![p] = "sysret"] /\ UNCHANGED ipc
    BY <1>19, KillEffect, Zenon
  <2>q. QED  BY <1>0, <1>a, <2>0, Zenon DEF ThreadInv, PLocs, TLocs, SchedPC
<1>20. ASSUME NEW p \in Slot, SleepStart(c, p) PROVE ThreadInv'
  BY <1>0, <1>a, <1>20, Zenon DEF ThreadInv, PLocs, TLocs, SchedPC, SleepStart, AcquireT,
     PushCli
<1>21. ASSUME NEW p \in Slot, SleepDone(c, p) PROVE ThreadInv'
  BY <1>0, <1>a, <1>21, Zenon DEF ThreadInv, PLocs, TLocs, SchedPC, SleepDone
<1>22. ASSUME NEW p \in Slot, SleepLock(c, p) PROVE ThreadInv'
  BY <1>0, <1>a, <1>22, Zenon DEF ThreadInv, PLocs, TLocs, SchedPC, SleepLock, AcquireP,
     PushCli
<1>23. ASSUME NEW p \in Slot, SleepGo(c, p) PROVE ThreadInv'
  BY <1>0, <1>a, <1>23, Zenon DEF ThreadInv, PLocs, TLocs, SchedPC, SleepGo
<1>24. ASSUME NEW p \in Slot, SleepResume(c, p) PROVE ThreadInv'
  BY <1>0, <1>a, <1>24, Zenon DEF ThreadInv, PLocs, TLocs, SchedPC, SleepResume, ResumeRelease
<1>25. ASSUME NEW p \in Slot, SleepRelock(c, p) PROVE ThreadInv'
  BY <1>0, <1>a, <1>25, Zenon DEF ThreadInv, PLocs, TLocs, SchedPC, SleepRelock, AcquireT,
     PushCli
<1>26. ASSUME NEW p \in Slot, Sched(c, p) PROVE ThreadInv'
  <2>1. \A t \in Thread \ {p} : pc'[t] = pc[t] /\ ipc'[t] = ipc[t]
    BY <1>26, SchedMove, Zenon
  <2>2. \/ ipc[p] = "ysched" /\ ipc'[p] = "yresume" /\ pc'[p] = pc[p]
        \/ ipc'[p] = "none" /\ pc'[p] \in {"zombie", "wresume", "sresume"}
    BY <1>26, SchedMove, Zenon
  <2>q. QED  BY <1>0, <1>a, <2>1, <2>2, Zenon DEF ThreadInv, PLocs, TLocs, SchedPC
<1>27. ASSUME NEW p \in Slot, IrqExit(c, p) PROVE ThreadInv'
  BY <1>0, <1>a, <1>27, Zenon DEF ThreadInv, PLocs, TLocs, SchedPC, IrqExit
<1>28. ASSUME NEW p \in Slot, Yield(c, p) PROVE ThreadInv'
  BY <1>0, <1>a, <1>28, Zenon DEF ThreadInv, PLocs, TLocs, SchedPC, Yield, AcquireP, PushCli
<1>29. ASSUME NEW p \in Slot, YieldResume(c, p) PROVE ThreadInv'
  BY <1>0, <1>a, <1>29, Zenon DEF ThreadInv, PLocs, TLocs, SchedPC, YieldResume, ResumeRelease
<1>30. ASSUME NEW p \in Slot, Fault(c, p) PROVE ThreadInv'
  BY <1>0, <1>a, <1>30, ZenonT(60) DEF ThreadInv, PLocs, TLocs, SchedPC, Fault
<1>31. ASSUME NEW p \in Slot, NEW call \in Syscalls, SyscallEntry(c, p, call) PROVE ThreadInv'
  <2>1. call \in SyscallNames
    BY ProcAssumption, Zenon
  <2>q. QED  BY <1>0, <1>a, <1>31, <2>1, Zenon
             DEF ThreadInv, PLocs, TLocs, SchedPC, SyscallEntry, SyscallNames
<1>32. ASSUME NEW t \in Thread, Interrupt(c, t) PROVE ThreadInv'
  <2>1. pc[t] \notin PLocs \union TLocs
    BY <1>0, <1>32, Zenon DEF LockAt, HoldsP, HoldsT, Interrupt
  <2>2. t \in Slot \/ t = c
    BY <1>0, <1>32, Zenon DEF LockAt, Interrupt
  <2>q. QED  BY <1>0, <1>a, <1>32, <2>1, <2>2, Zenon DEF ThreadInv, Interrupt
<1>33. ASSUME NEW t \in Thread, Tick(c, t) PROVE ThreadInv'
  BY <1>0, <1>a, <1>33, ZenonT(60) DEF ThreadInv, PLocs, TLocs, SchedPC, Tick, AcquireT, PushCli
<1>34. ASSUME NEW t \in Thread, TickWake(c, t) PROVE ThreadInv'
  BY <1>0, <1>a, <1>34, Zenon DEF ThreadInv, PLocs, TLocs, SchedPC, TickWake, Woken
<1>35. ASSUME NEW t \in Thread, Iret(c, t) PROVE ThreadInv'
  BY <1>0, <1>a, <1>35, Zenon DEF ThreadInv, PLocs, TLocs, SchedPC, Iret
<1>36. ASSUME NEW p \in Slot, SleepTest(c, p) PROVE ThreadInv'
  BY <1>0, <1>a, <1>36, Zenon DEF ThreadInv, PLocs, TLocs, SchedPC, SleepTest
<1>q. QED
  BY Zenon, <1>1, <1>2, <1>3, <1>4, <1>5, <1>6, <1>7, <1>8, <1>9, <1>10, <1>11, <1>12,
     <1>13, <1>14, <1>15, <1>16, <1>17, <1>18, <1>19, <1>20, <1>21, <1>22, <1>23, <1>24,
     <1>25, <1>26, <1>27, <1>28, <1>29, <1>30, <1>31, <1>32, <1>33, <1>34, <1>35, <1>36
  DEF Step, SchedulerStep, SyscallStep, ForkStep, SleepStep, YieldStep, UserStep, IrqStep

-----------------------------------------------------------------------------
(* No step panics, except the exit of init.                                *)
LEMMA PanicStep ==
  ASSUME IInv, NEW c \in CPU, Step(c) PROVE NoPanic'
<1>. USE DEF At, AtIrq, Runs, NoPanic
<1>0. NoPanic /\ LockAt(c)
  BY Zenon DEF IInv, LockInv
<1>1. CASE Sti(c)
  BY <1>0, <1>1, Zenon DEF Sti
<1>2. CASE ScanNone(c)
  BY <1>0, <1>2, Zenon DEF ScanNone
<1>3. CASE SwtchTo(c)
  <2>1. proc[c] \in Slot /\ state[proc[c]] = "RUNNING"
    BY <1>3, Zenon DEF IInv, CpuInv, CpuAt, SwtchTo
  <2>2. pc[proc[c]] # "zombie"
    BY <2>1, Zenon DEF IInv, SlotInv, SlotAt
  <2>q. QED  BY <1>0, <1>3, <2>2, Zenon DEF SwtchTo
<1>4. CASE Back(c)
  BY <1>0, <1>4, Zenon DEF Back, LockAt, HoldsP, PLocs
<1>5. ASSUME NEW p \in Slot, Dispatch(c, p) PROVE NoPanic'
  <2>1. kstack[p]
    BY <1>5, Zenon DEF IInv, SlotInv, SlotAt, Dispatch
  <2>q. QED  BY <1>0, <1>5, <2>1, Zenon DEF Dispatch
<1>6. ASSUME NEW p \in Slot, Forkret(c, p) PROVE NoPanic'
  BY <1>0, <1>6, Zenon DEF Forkret, LockAt, HoldsP, PLocs
<1>7. ASSUME NEW p \in Slot, SyscallExit(c, p) PROVE NoPanic'
  BY <1>0, <1>7, Zenon DEF SyscallExit
<1>8. ASSUME NEW p \in Slot, AllocProc(c, p) PROVE NoPanic'
  BY <1>0, <1>8, AllocProcEffect, Zenon
<1>9. ASSUME NEW p \in Slot, AllocProcFull(c, p) PROVE NoPanic'
  BY <1>0, <1>9, Zenon DEF AllocProcFull
<1>10. ASSUME NEW p \in Slot, AllocStack(c, p) PROVE NoPanic'
  BY <1>0, <1>10, Zenon DEF AllocStack
<1>11. ASSUME NEW p \in Slot, ForkFails(c, p) PROVE NoPanic'
  BY <1>0, <1>11, Zenon DEF ForkFails
<1>12. ASSUME NEW p \in Slot, ForkCopy(c, p) PROVE NoPanic'
  BY <1>0, <1>12, Zenon DEF ForkCopy
<1>13. ASSUME NEW p \in Slot, ForkReady(c, p) PROVE NoPanic'
  BY <1>0, <1>13, Zenon DEF ForkReady
<1>14. ASSUME NEW p \in Slot, InitExits(c, p) PROVE NoPanic'
  BY <1>0, <1>14, Zenon DEF InitExits
<1>15. ASSUME NEW p \in Slot, Exit(c, p) PROVE NoPanic'
  BY <1>0, <1>15, Zenon DEF Exit, AcquireP, PushCli, AfterExit, Heir, Woken
<1>16. ASSUME NEW p \in Slot, Reap(c, p) PROVE NoPanic'
  BY <1>0, <1>16, ReapEffect, WaitReturnsEffect, Zenon
<1>17. ASSUME NEW p \in Slot, WaitFails(c, p) PROVE NoPanic'
  BY <1>0, <1>17, WaitReturnsEffect, Zenon DEF WaitFails
<1>18. ASSUME NEW p \in Slot, WaitSleep(c, p) PROVE NoPanic'
  BY <1>0, <1>18, WaitAgainEffect, Zenon DEF WaitSleep
<1>19. ASSUME NEW p \in Slot, Kill(c, p) PROVE NoPanic'
  BY <1>0, <1>19, KillEffect, Zenon
<1>20. ASSUME NEW p \in Slot, SleepStart(c, p) PROVE NoPanic'
  BY <1>0, <1>20, Zenon DEF SleepStart, AcquireT, PushCli
<1>21. ASSUME NEW p \in Slot, SleepDone(c, p) PROVE NoPanic'
  BY <1>0, <1>21, Zenon DEF SleepDone
<1>22. ASSUME NEW p \in Slot, SleepLock(c, p) PROVE NoPanic'
  BY <1>0, <1>22, Zenon DEF SleepLock, AcquireP, PushCli
<1>23. ASSUME NEW p \in Slot, SleepGo(c, p) PROVE NoPanic'
  BY <1>0, <1>23, Zenon DEF SleepGo
<1>24. ASSUME NEW p \in Slot, SleepResume(c, p) PROVE NoPanic'
  BY <1>0, <1>24, Zenon DEF SleepResume, ResumeRelease, LockAt, HoldsP, PLocs
<1>25. ASSUME NEW p \in Slot, SleepRelock(c, p) PROVE NoPanic'
  BY <1>0, <1>25, Zenon DEF SleepRelock, AcquireT, PushCli
<1>26. ASSUME NEW p \in Slot, Sched(c, p) PROVE NoPanic'
  BY <1>0, <1>26, SchedEffect, Zenon
<1>27. ASSUME NEW p \in Slot, IrqExit(c, p) PROVE NoPanic'
  BY <1>0, <1>27, Zenon DEF IrqExit
<1>28. ASSUME NEW p \in Slot, Yield(c, p) PROVE NoPanic'
  BY <1>0, <1>28, Zenon DEF Yield, AcquireP, PushCli
<1>29. ASSUME NEW p \in Slot, YieldResume(c, p) PROVE NoPanic'
  BY <1>0, <1>29, Zenon DEF YieldResume, ResumeRelease, LockAt, HoldsP, PLocs
<1>30. ASSUME NEW p \in Slot, Fault(c, p) PROVE NoPanic'
  BY <1>0, <1>30, Zenon DEF Fault
<1>31. ASSUME NEW p \in Slot, NEW call \in Syscalls, SyscallEntry(c, p, call) PROVE NoPanic'
  BY <1>0, <1>31, Zenon DEF SyscallEntry
<1>32. ASSUME NEW t \in Thread, Interrupt(c, t) PROVE NoPanic'
  BY <1>0, <1>32, Zenon DEF Interrupt
<1>33. ASSUME NEW t \in Thread, Tick(c, t) PROVE NoPanic'
  BY <1>0, <1>33, Zenon DEF Tick, AcquireT, PushCli
<1>34. ASSUME NEW t \in Thread, TickWake(c, t) PROVE NoPanic'
  BY <1>0, <1>34, Zenon DEF TickWake, Woken
<1>35. ASSUME NEW t \in Thread, Iret(c, t) PROVE NoPanic'
  BY <1>0, <1>35, Zenon DEF Iret
<1>36. ASSUME NEW p \in Slot, SleepTest(c, p) PROVE NoPanic'
  BY <1>0, <1>36, Zenon DEF SleepTest
<1>q. QED
  BY Zenon, <1>1, <1>2, <1>3, <1>4, <1>5, <1>6, <1>7, <1>8, <1>9, <1>10, <1>11, <1>12,
     <1>13, <1>14, <1>15, <1>16, <1>17, <1>18, <1>19, <1>20, <1>21, <1>22, <1>23, <1>24,
     <1>25, <1>26, <1>27, <1>28, <1>29, <1>30, <1>31, <1>32, <1>33, <1>34, <1>35, <1>36
  DEF Step, SchedulerStep, SyscallStep, ForkStep, SleepStep, YieldStep, UserStep, IrqStep

-----------------------------------------------------------------------------
(* A step of a processor keeps its account of the interrupt flag.          *)
LEMMA MaskHere ==
  ASSUME IInv, NEW c \in CPU, Step(c) PROVE MaskAt(c)'
<1>. USE DEF Goto, GotoIrq, At, AtIrq, Runs, tableVars, cpuVars, threadVars
<1>0. /\ on \in [CPU -> Thread] /\ flagIF \in [CPU -> BOOLEAN] /\ intena \in [CPU -> BOOLEAN]
      /\ pc \in [Thread -> PC] /\ ipc \in [Thread -> IPC] /\ saved \in [Slot -> BOOLEAN]
      /\ LockAt(c) /\ MaskAt(c) /\ ThreadInv
  BY Zenon DEF IInv, LockInv, MaskInv, TypeOK
<1>a. c \in Thread /\ Slot \subseteq Thread /\ c \notin Slot
  BY ProcAssumption, Zenon DEF Thread, Slot
<1>b. \A p \in Slot : SavedAt(p)
  BY Zenon DEF IInv, MaskInv
<1>1. CASE Sti(c)
  BY <1>0, <1>a, <1>1, Zenon DEF MaskAt, OpenLocs, Sti
<1>2. CASE ScanNone(c)
  BY <1>0, <1>a, <1>2, Zenon DEF MaskAt, OpenLocs, ScanNone
<1>3. CASE SwtchTo(c)
  <2>1. proc[c] \in Slot /\ Saved(proc[c])
    BY <1>3, Zenon DEF IInv, CpuInv, CpuAt, SwtchTo
  <2>2. ~flagIF[c]
    BY <1>0, <1>3, Zenon DEF LockAt, HoldsP, PLocs, SwtchTo
  <2>3. /\ on'[c] = proc[c] /\ ipc' = ipc /\ flagIF' = flagIF /\ intena' = intena
        /\ pc'[proc[c]] = pc[proc[c]]
    BY <1>0, <1>a, <1>3, <2>1, Zenon DEF SwtchTo
  <2>q. QED  BY <2>1, <2>2, <2>3, Zenon DEF MaskAt, Saved, OpenLocs
<1>4. CASE Back(c)
  BY <1>0, <1>a, <1>4, Zenon DEF MaskAt, OpenLocs, Back
<1>5. ASSUME NEW p \in Slot, Dispatch(c, p) PROVE MaskAt(c)'
  BY <1>0, <1>a, <1>5, Zenon DEF MaskAt, OpenLocs, Dispatch, AcquireP, PushCli
<1>6. ASSUME NEW p \in Slot, Forkret(c, p) PROVE MaskAt(c)'
  BY <1>0, <1>a, <1>6, Zenon DEF MaskAt, OpenLocs, Forkret
<1>7. ASSUME NEW p \in Slot, SyscallExit(c, p) PROVE MaskAt(c)'
  BY <1>0, <1>a, <1>7, Zenon DEF MaskAt, OpenLocs, SyscallExit
<1>8. ASSUME NEW p \in Slot, AllocProc(c, p) PROVE MaskAt(c)'
  <2>0. /\ on[c] = p /\ ipc[p] = "none" /\ pc[p] = "fork" /\ pc' = [pc EXCEPT ![p] = "fkalloc"]
        /\ UNCHANGED <<on, flagIF, intena, ipc>>
    BY <1>8, AllocProcEffect, ZenonT(60) DEF Runs
  <2>q. QED  BY <1>0, <1>a, <2>0, Zenon DEF MaskAt, OpenLocs
<1>9. ASSUME NEW p \in Slot, AllocProcFull(c, p) PROVE MaskAt(c)'
  BY <1>0, <1>a, <1>9, Zenon DEF MaskAt, OpenLocs, AllocProcFull
<1>10. ASSUME NEW p \in Slot, AllocStack(c, p) PROVE MaskAt(c)'
  <2>1. np[p] \in Slot /\ np[p] # p
    BY <1>10, Here, Zenon DEF IInv, ForkInv, InFork, AllocStack
  <2>q. QED  BY <1>0, <1>a, <1>10, <2>1, Zenon DEF MaskAt, OpenLocs, AllocStack
<1>11. ASSUME NEW p \in Slot, ForkFails(c, p) PROVE MaskAt(c)'
  <2>1. np[p] \in Slot /\ np[p] # p
    BY <1>11, Here DEF IInv, ForkInv, InFork, ForkFails
  <2>q. QED  BY <1>0, <1>a, <1>11, <2>1, Zenon DEF MaskAt, OpenLocs, ForkFails
<1>12. ASSUME NEW p \in Slot, ForkCopy(c, p) PROVE MaskAt(c)'
  BY <1>0, <1>a, <1>12, Zenon DEF MaskAt, OpenLocs, ForkCopy
<1>13. ASSUME NEW p \in Slot, ForkReady(c, p) PROVE MaskAt(c)'
  BY <1>0, <1>a, <1>13, Zenon DEF MaskAt, OpenLocs, ForkReady
<1>14. ASSUME NEW p \in Slot, InitExits(c, p) PROVE MaskAt(c)'
  BY <1>0, <1>a, <1>14, Zenon DEF MaskAt, OpenLocs, InitExits
<1>15. ASSUME NEW p \in Slot, Exit(c, p) PROVE MaskAt(c)'
  BY <1>0, <1>a, <1>15, Zenon DEF MaskAt, OpenLocs, Exit, AcquireP, PushCli, AfterExit, Heir,
     Woken
<1>16. ASSUME NEW p \in Slot, Reap(c, p) PROVE MaskAt(c)'
  <2>1. WaitReturns(c, p) /\ UNCHANGED <<on, ipc>>
    BY <1>16, ReapEffect, Zenon
  <2>2. on[c] = p /\ ipc[p] = "none" /\ flagIF' = [flagIF EXCEPT ![c] = TRUE]
    BY <2>1, WaitReturnsEffect, Zenon
  <2>3. PICK z \in Slot : pc' = [pc EXCEPT ![p] = "sysret", ![z] = "none"]
    BY <1>16, ReapEffect, Zenon
  <2>4. pc'[p] \in {"sysret", "none"} /\ flagIF'[c]
    BY <1>0, <1>a, <2>2, <2>3, Zenon
  <2>q. QED  BY <2>1, <2>2, <2>4, Zenon DEF MaskAt, OpenLocs
<1>17. ASSUME NEW p \in Slot, WaitFails(c, p) PROVE MaskAt(c)'
  <2>1. on[c] = p /\ ipc[p] = "none" /\ flagIF' = [flagIF EXCEPT ![c] = TRUE]
    BY <1>17, WaitReturnsEffect, Zenon DEF WaitFails
  <2>2. UNCHANGED <<on, ipc>> /\ pc' = [pc EXCEPT ![p] = "sysret"]
    BY <1>17, Zenon DEF WaitFails
  <2>3. pc'[p] = "sysret" /\ flagIF'[c]
    BY <1>0, <1>a, <2>1, <2>2, Zenon
  <2>q. QED  BY <2>1, <2>2, <2>3, Zenon DEF MaskAt, OpenLocs
<1>18. ASSUME NEW p \in Slot, WaitSleep(c, p) PROVE MaskAt(c)'
  <2>1. on[c] = p /\ ipc[p] = "none" /\ intena' = [intena EXCEPT ![c] = TRUE]
    BY <1>18, WaitAgainEffect, Zenon DEF WaitSleep
  <2>2. UNCHANGED <<on, ipc>> /\ pc' = [pc EXCEPT ![p] = "wsched"]
    BY <1>18, Zenon DEF WaitSleep
  <2>3. pc'[p] = "wsched" /\ intena'[c]
    BY <1>0, <1>a, <2>1, <2>2, Zenon
  <2>q. QED  BY <2>1, <2>2, <2>3, Zenon DEF MaskAt, OpenLocs
<1>19. ASSUME NEW p \in Slot, Kill(c, p) PROVE MaskAt(c)'
  <2>0. /\ on[c] = p /\ ipc[p] = "none" /\ pc[p] = "kill" /\ pc' = [pc EXCEPT ![p] = "sysret"]
        /\ UNCHANGED <<on, flagIF, intena, ipc>>
    BY <1>19, KillEffect, Zenon DEF Runs
  <2>q. QED  BY <1>0, <1>a, <2>0, Zenon DEF MaskAt, OpenLocs
<1>20. ASSUME NEW p \in Slot, SleepStart(c, p) PROVE MaskAt(c)'
  <2>1. flagIF[c] /\ ncli(c) = 0
    BY <1>0, <1>20 DEF MaskAt, OpenLocs, LockAt, ncli, SleepStart
  <2>2. intena' = [intena EXCEPT ![c] = TRUE]
    BY <1>0, <1>20, <2>1, Zenon DEF SleepStart, AcquireT, PushCli
  <2>q. QED  BY <1>0, <1>a, <1>20, <2>2, Zenon DEF MaskAt, OpenLocs, SleepStart
<1>21. ASSUME NEW p \in Slot, SleepDone(c, p) PROVE MaskAt(c)'
  BY <1>0, <1>a, <1>21, Zenon DEF MaskAt, OpenLocs, SleepDone
<1>22. ASSUME NEW p \in Slot, SleepLock(c, p) PROVE MaskAt(c)'
  <2>1. tlock = c /\ plock # c
    BY <1>0, <1>22, Zenon DEF LockAt, HoldsP, HoldsT, PLocs, TLocs, SleepLock
  <2>2. ncli(c) # 0
    BY <2>1 DEF ncli
  <2>3. intena'[c] = intena[c]
    BY <1>0, <1>22, <2>2, Zenon DEF SleepLock, AcquireP, PushCli
  <2>q. QED  BY <1>0, <1>a, <1>22, <2>3, Zenon DEF MaskAt, OpenLocs, SleepLock
<1>23. ASSUME NEW p \in Slot, SleepGo(c, p) PROVE MaskAt(c)'
  BY <1>0, <1>a, <1>23, Zenon DEF MaskAt, OpenLocs, SleepGo
<1>24. ASSUME NEW p \in Slot, SleepResume(c, p) PROVE MaskAt(c)'
  <2>1. saved[p] = TRUE
    BY <1>0, <1>b, <1>24, Zenon DEF SavedAt, SleepResume
  <2>2. flagIF'[c] = TRUE
    BY <1>0, <1>24, <2>1, Zenon DEF SleepResume, ResumeRelease
  <2>q. QED  BY <1>0, <1>a, <1>24, <2>2, Zenon DEF MaskAt, OpenLocs, SleepResume
<1>25. ASSUME NEW p \in Slot, SleepRelock(c, p) PROVE MaskAt(c)'
  <2>1. flagIF[c] /\ ncli(c) = 0
    BY <1>0, <1>25 DEF MaskAt, OpenLocs, LockAt, ncli, SleepRelock
  <2>2. intena' = [intena EXCEPT ![c] = TRUE]
    BY <1>0, <1>25, <2>1, Zenon DEF SleepRelock, AcquireT, PushCli
  <2>q. QED  BY <1>0, <1>a, <1>25, <2>2, Zenon DEF MaskAt, OpenLocs, SleepRelock
<1>26. ASSUME NEW p \in Slot, Sched(c, p) PROVE MaskAt(c)'
  <2>1. on[c] = p /\ on' = [on EXCEPT ![c] = c]
    BY <1>26, SchedEffect, Zenon
  <2>2. ipc[c] = "none"
    BY <1>0, <1>a, <2>1, Here, Zenon DEF ThreadInv, PLocs
  <2>3. ipc'[c] = ipc[c]
    BY <1>a, <1>26, SchedMove
  <2>4. on'[c] = c
    BY <1>0, <2>1, Zenon
  <2>q. QED  BY <1>a, <2>2, <2>3, <2>4, Zenon DEF MaskAt
<1>27. ASSUME NEW p \in Slot, IrqExit(c, p) PROVE MaskAt(c)'
  BY <1>0, <1>a, <1>27, Zenon DEF MaskAt, OpenLocs, IrqExit
<1>28. ASSUME NEW p \in Slot, Yield(c, p) PROVE MaskAt(c)'
  <2>1. ~flagIF[c] /\ plock # c /\ tlock # c
    BY <1>0, <1>28, Zenon DEF MaskAt, LockAt, ThreadInv, HoldsP, HoldsT, Yield
  <2>2. ncli(c) = 0
    BY <2>1 DEF ncli
  <2>3. flagIF'[c] = FALSE /\ intena'[c] = FALSE
    BY <1>0, <1>28, <2>1, <2>2, Zenon DEF Yield, AcquireP, PushCli
  <2>4. on'[c] = p /\ ipc'[p] = "ysched"
    BY <1>0, <1>a, <1>28, Zenon DEF Yield
  <2>q. QED  BY <2>3, <2>4, Zenon DEF MaskAt
<1>29. ASSUME NEW p \in Slot, YieldResume(c, p) PROVE MaskAt(c)'
  <2>1. saved[p] = FALSE
    BY <1>0, <1>b, <1>29, Zenon DEF SavedAt, YieldResume
  <2>2. flagIF'[c] = FALSE
    BY <1>0, <1>29, <2>1, Zenon DEF YieldResume, ResumeRelease
  <2>q. QED  BY <1>0, <1>a, <1>29, <2>2, Zenon DEF MaskAt, OpenLocs, YieldResume
<1>30. ASSUME NEW p \in Slot, Fault(c, p) PROVE MaskAt(c)'
  BY <1>0, <1>a, <1>30, Zenon DEF MaskAt, OpenLocs, Fault
<1>31. ASSUME NEW p \in Slot, NEW call \in Syscalls, SyscallEntry(c, p, call) PROVE MaskAt(c)'
  <2>1. call \in SyscallNames
    BY ProcAssumption, Zenon
  <2>q. QED  BY <1>0, <1>a, <1>31, <2>1, Zenon DEF MaskAt, OpenLocs, SyscallEntry, SyscallNames
<1>32. ASSUME NEW t \in Thread, Interrupt(c, t) PROVE MaskAt(c)'
  BY <1>0, <1>a, <1>32, Zenon DEF MaskAt, OpenLocs, Interrupt
<1>33. ASSUME NEW t \in Thread, Tick(c, t) PROVE MaskAt(c)'
  <2>1. ~flagIF[c] /\ plock # c /\ tlock # c
    BY <1>0, <1>33, Zenon DEF MaskAt, LockAt, ThreadInv, HoldsP, HoldsT, Tick
  <2>2. ncli(c) = 0
    BY <2>1 DEF ncli
  <2>3. flagIF'[c] = FALSE /\ intena'[c] = FALSE
    BY <1>0, <1>33, <2>1, <2>2, Zenon DEF Tick, AcquireT, PushCli
  <2>4. on'[c] = t /\ ipc'[t] = "tickw"
    BY <1>0, <1>a, <1>33, Zenon DEF Tick
  <2>q. QED  BY <2>3, <2>4, Zenon DEF MaskAt
<1>34. ASSUME NEW t \in Thread, TickWake(c, t) PROVE MaskAt(c)'
  BY <1>0, <1>a, <1>34, Zenon DEF MaskAt, OpenLocs, TickWake, Woken
<1>35. ASSUME NEW t \in Thread, Iret(c, t) PROVE MaskAt(c)'
  BY <1>0, <1>a, <1>35, Zenon DEF MaskAt, OpenLocs, Iret, ThreadInv, PLocs, TLocs
<1>36. ASSUME NEW p \in Slot, SleepTest(c, p) PROVE MaskAt(c)'
  BY <1>0, <1>a, <1>36, Zenon DEF MaskAt, OpenLocs, SleepTest
<1>q. QED
  BY Zenon, <1>1, <1>2, <1>3, <1>4, <1>5, <1>6, <1>7, <1>8, <1>9, <1>10, <1>11, <1>12,
     <1>13, <1>14, <1>15, <1>16, <1>17, <1>18, <1>19, <1>20, <1>21, <1>22, <1>23, <1>24,
     <1>25, <1>26, <1>27, <1>28, <1>29, <1>30, <1>31, <1>32, <1>33, <1>34, <1>35, <1>36
  DEF Step, SchedulerStep, SyscallStep, ForkStep, SleepStep, YieldStep, UserStep, IrqStep

-----------------------------------------------------------------------------
(* A thread that sched() has left keeps the intena it had.                 *)
LEMMA SavedStep ==
  ASSUME IInv, NEW c \in CPU, Step(c), NEW r \in Slot PROVE SavedAt(r)'
<1>. USE DEF Goto, GotoIrq, At, AtIrq, Runs, tableVars, cpuVars, threadVars
<1>0. /\ pc \in [Thread -> PC] /\ ipc \in [Thread -> IPC] /\ saved \in [Slot -> BOOLEAN]
      /\ SavedAt(r)
  BY Zenon DEF IInv, MaskInv, TypeOK
<1>a. CPU \subseteq Thread /\ Slot \subseteq Thread /\ c \notin Slot
  BY ProcAssumption, Zenon DEF Thread, Slot
<1>1. CASE Sti(c)
  BY <1>0, <1>a, <1>1, Zenon DEF SavedAt, Sti
<1>2. CASE ScanNone(c)
  BY <1>0, <1>a, <1>2, Zenon DEF SavedAt, ScanNone
<1>3. CASE SwtchTo(c)
  BY <1>0, <1>a, <1>3, Zenon DEF SavedAt, SwtchTo
<1>4. CASE Back(c)
  BY <1>0, <1>a, <1>4, Zenon DEF SavedAt, Back
<1>5. ASSUME NEW p \in Slot, Dispatch(c, p) PROVE SavedAt(r)'
  BY <1>0, <1>a, <1>5, Zenon DEF SavedAt, Dispatch, AcquireP, PushCli
<1>6. ASSUME NEW p \in Slot, Forkret(c, p) PROVE SavedAt(r)'
  BY <1>0, <1>a, <1>6, Zenon DEF SavedAt, Forkret
<1>7. ASSUME NEW p \in Slot, SyscallExit(c, p) PROVE SavedAt(r)'
  BY <1>0, <1>a, <1>7, Zenon DEF SavedAt, SyscallExit
<1>8. ASSUME NEW p \in Slot, AllocProc(c, p) PROVE SavedAt(r)'
  <2>0. pc' = [pc EXCEPT ![p] = "fkalloc"] /\ UNCHANGED <<ipc, saved>>
    BY <1>8, AllocProcEffect, Zenon
  <2>q. QED  BY <1>0, <1>a, <2>0, Zenon DEF SavedAt
<1>9. ASSUME NEW p \in Slot, AllocProcFull(c, p) PROVE SavedAt(r)'
  BY <1>0, <1>a, <1>9, Zenon DEF SavedAt, AllocProcFull
<1>10. ASSUME NEW p \in Slot, AllocStack(c, p) PROVE SavedAt(r)'
  BY <1>0, <1>a, <1>10, Zenon DEF SavedAt, AllocStack
<1>11. ASSUME NEW p \in Slot, ForkFails(c, p) PROVE SavedAt(r)'
  BY <1>0, <1>a, <1>11, Zenon DEF SavedAt, ForkFails
<1>12. ASSUME NEW p \in Slot, ForkCopy(c, p) PROVE SavedAt(r)'
  BY <1>0, <1>a, <1>12, Zenon DEF SavedAt, ForkCopy
<1>13. ASSUME NEW p \in Slot, ForkReady(c, p) PROVE SavedAt(r)'
  BY <1>0, <1>a, <1>13, Zenon DEF SavedAt, ForkReady
<1>14. ASSUME NEW p \in Slot, InitExits(c, p) PROVE SavedAt(r)'
  BY <1>0, <1>a, <1>14, Zenon DEF SavedAt, InitExits
<1>15. ASSUME NEW p \in Slot, Exit(c, p) PROVE SavedAt(r)'
  BY <1>0, <1>a, <1>15, Zenon DEF SavedAt, Exit, AcquireP, PushCli, AfterExit, Heir, Woken
<1>16. ASSUME NEW p \in Slot, Reap(c, p) PROVE SavedAt(r)'
  <2>1. UNCHANGED <<ipc, saved>>
    BY <1>16, ReapEffect, Zenon
  <2>2. PICK z \in Slot : pc' = [pc EXCEPT ![p] = "sysret", ![z] = "none"]
    BY <1>16, ReapEffect, Zenon
  <2>q. QED  BY <1>0, <1>a, <2>1, <2>2, Zenon DEF SavedAt
<1>17. ASSUME NEW p \in Slot, WaitFails(c, p) PROVE SavedAt(r)'
  BY <1>0, <1>a, <1>17, Zenon DEF SavedAt, WaitFails
<1>18. ASSUME NEW p \in Slot, WaitSleep(c, p) PROVE SavedAt(r)'
  BY <1>0, <1>a, <1>18, Zenon DEF SavedAt, WaitSleep
<1>19. ASSUME NEW p \in Slot, Kill(c, p) PROVE SavedAt(r)'
  <2>0. pc' = [pc EXCEPT ![p] = "sysret"] /\ UNCHANGED <<ipc, saved>>
    BY <1>19, KillEffect, Zenon
  <2>q. QED  BY <1>0, <1>a, <2>0, Zenon DEF SavedAt
<1>20. ASSUME NEW p \in Slot, SleepStart(c, p) PROVE SavedAt(r)'
  BY <1>0, <1>a, <1>20, Zenon DEF SavedAt, SleepStart, AcquireT, PushCli
<1>21. ASSUME NEW p \in Slot, SleepDone(c, p) PROVE SavedAt(r)'
  BY <1>0, <1>a, <1>21, Zenon DEF SavedAt, SleepDone
<1>22. ASSUME NEW p \in Slot, SleepLock(c, p) PROVE SavedAt(r)'
  BY <1>0, <1>a, <1>22, Zenon DEF SavedAt, SleepLock, AcquireP, PushCli
<1>23. ASSUME NEW p \in Slot, SleepGo(c, p) PROVE SavedAt(r)'
  BY <1>0, <1>a, <1>23, Zenon DEF SavedAt, SleepGo
<1>24. ASSUME NEW p \in Slot, SleepResume(c, p) PROVE SavedAt(r)'
  BY <1>0, <1>a, <1>24, Zenon DEF SavedAt, SleepResume, ResumeRelease
<1>25. ASSUME NEW p \in Slot, SleepRelock(c, p) PROVE SavedAt(r)'
  BY <1>0, <1>a, <1>25, Zenon DEF SavedAt, SleepRelock, AcquireT, PushCli
<1>26. ASSUME NEW p \in Slot, Sched(c, p) PROVE SavedAt(r)'
  <2>1. CASE r # p
    BY <1>0, <1>a, <1>26, <2>1, SchedEffect, SchedMove DEF SavedAt
  <2>2. CASE r = p
    <3>1. MaskAt(c)
      BY Zenon DEF IInv, MaskInv
    <3>2. on[c] = p /\ saved'[p] = intena[c]
      BY <1>0, <1>26, SchedEffect
    <3>3. \/ ipc[p] = "ysched" /\ ipc'[p] = "yresume"
          \/ ipc[p] = "none" /\ ipc'[p] = "none" /\ pc'[p] = "zombie"
          \/ ipc[p] = "none" /\ ipc'[p] = "none" /\ pc[p] \in {"wsched", "ssched"}
      BY <1>26, SchedMove, Zenon
    <3>q. QED  BY <2>2, <3>1, <3>2, <3>3, Zenon DEF MaskAt, SavedAt
  <2>q. QED  BY <2>1, <2>2, Zenon
<1>27. ASSUME NEW p \in Slot, IrqExit(c, p) PROVE SavedAt(r)'
  BY <1>0, <1>a, <1>27, Zenon DEF SavedAt, IrqExit
<1>28. ASSUME NEW p \in Slot, Yield(c, p) PROVE SavedAt(r)'
  BY <1>0, <1>a, <1>28, Zenon DEF SavedAt, Yield, AcquireP, PushCli
<1>29. ASSUME NEW p \in Slot, YieldResume(c, p) PROVE SavedAt(r)'
  BY <1>0, <1>a, <1>29, Zenon DEF SavedAt, YieldResume, ResumeRelease
<1>30. ASSUME NEW p \in Slot, Fault(c, p) PROVE SavedAt(r)'
  BY <1>0, <1>a, <1>30, Zenon DEF SavedAt, Fault
<1>31. ASSUME NEW p \in Slot, NEW call \in Syscalls, SyscallEntry(c, p, call) PROVE SavedAt(r)'
  <2>1. call \in SyscallNames
    BY ProcAssumption, Zenon
  <2>q. QED  BY <1>0, <1>a, <1>31, <2>1, Zenon DEF SavedAt, SyscallEntry, SyscallNames
<1>32. ASSUME NEW t \in Thread, Interrupt(c, t) PROVE SavedAt(r)'
  BY <1>0, <1>a, <1>32, Zenon DEF SavedAt, Interrupt
<1>33. ASSUME NEW t \in Thread, Tick(c, t) PROVE SavedAt(r)'
  BY <1>0, <1>a, <1>33, Zenon DEF SavedAt, Tick, AcquireT, PushCli
<1>34. ASSUME NEW t \in Thread, TickWake(c, t) PROVE SavedAt(r)'
  BY <1>0, <1>a, <1>34, Zenon DEF SavedAt, TickWake, Woken
<1>35. ASSUME NEW t \in Thread, Iret(c, t) PROVE SavedAt(r)'
  <2>1. ipc[t] = "none" \/ pc[t] \notin PLocs
    BY Zenon DEF IInv, ThreadInv
  <2>q. QED  BY <1>0, <1>a, <1>35, <2>1, Zenon DEF SavedAt, Iret, PLocs
<1>36. ASSUME NEW p \in Slot, SleepTest(c, p) PROVE SavedAt(r)'
  BY <1>0, <1>a, <1>36, Zenon DEF SavedAt, SleepTest
<1>q. QED
  BY Zenon, <1>1, <1>2, <1>3, <1>4, <1>5, <1>6, <1>7, <1>8, <1>9, <1>10, <1>11, <1>12,
     <1>13, <1>14, <1>15, <1>16, <1>17, <1>18, <1>19, <1>20, <1>21, <1>22, <1>23, <1>24,
     <1>25, <1>26, <1>27, <1>28, <1>29, <1>30, <1>31, <1>32, <1>33, <1>34, <1>35, <1>36
  DEF Step, SchedulerStep, SyscallStep, ForkStep, SleepStep, YieldStep, UserStep, IrqStep

-----------------------------------------------------------------------------
(* A step gives no slot in use the pid of another.                         *)
LEMMA PidStep ==
  ASSUME IInv, NEW c \in CPU, Step(c) PROVE PidInv'
<1>. USE DEF tableVars, PidInv, PidUnique
<1>0. /\ state \in [Slot -> States] /\ pid \in [Slot -> Nat] /\ nextpid \in Nat
      /\ PidInv
  BY Zenon DEF IInv, TypeOK
<1>1. CASE Sti(c)
  BY <1>0, <1>1, Zenon DEF Sti
<1>2. CASE ScanNone(c)
  BY <1>0, <1>2, Zenon DEF ScanNone
<1>3. CASE SwtchTo(c)
  BY <1>0, <1>3, Zenon DEF SwtchTo
<1>4. CASE Back(c)
  BY <1>0, <1>4, Zenon DEF Back
<1>5. ASSUME NEW p \in Slot, Dispatch(c, p) PROVE PidInv'
  BY <1>0, <1>5, Zenon DEF Dispatch, AcquireP, PushCli
<1>6. ASSUME NEW p \in Slot, Forkret(c, p) PROVE PidInv'
  BY <1>0, <1>6, Zenon DEF Forkret
<1>7. ASSUME NEW p \in Slot, SyscallExit(c, p) PROVE PidInv'
  BY <1>0, <1>7, Zenon DEF SyscallExit
<1>8. ASSUME NEW p \in Slot, AllocProc(c, p) PROVE PidInv'
  <2>0. nextpid' = nextpid + 1
    BY <1>8, AllocProcEffect, Zenon
  <2>1. PICK s \in Slot : /\ state' = [state EXCEPT ![s] = "EMBRYO"]
                          /\ pid' = [pid EXCEPT ![s] = nextpid]
    BY <1>8, AllocProcEffect, Zenon
  <2>q. QED  BY <1>0, <2>0, <2>1
<1>9. ASSUME NEW p \in Slot, AllocProcFull(c, p) PROVE PidInv'
  BY <1>0, <1>9, Zenon DEF AllocProcFull
<1>10. ASSUME NEW p \in Slot, AllocStack(c, p) PROVE PidInv'
  BY <1>0, <1>10, Zenon DEF AllocStack
<1>11. ASSUME NEW p \in Slot, ForkFails(c, p) PROVE PidInv'
  BY <1>0, <1>11, Zenon DEF ForkFails
<1>12. ASSUME NEW p \in Slot, ForkCopy(c, p) PROVE PidInv'
  BY <1>0, <1>12, Zenon DEF ForkCopy
<1>13. ASSUME NEW p \in Slot, ForkReady(c, p) PROVE PidInv'
  <2>1. np[p] \in Slot /\ state[np[p]] = "EMBRYO"
    BY <1>13, Zenon DEF IInv, ForkInv, InFork, ForkReady, At
  <2>q. QED  BY <1>0, <1>13, <2>1, Zenon DEF ForkReady
<1>14. ASSUME NEW p \in Slot, InitExits(c, p) PROVE PidInv'
  BY <1>0, <1>14, Zenon DEF InitExits
<1>15. ASSUME NEW p \in Slot, Exit(c, p) PROVE PidInv'
  <2>1. state[p] # "UNUSED"
    BY <1>15, Here, Zenon DEF Exit, At, Runs
  <2>2. \A r \in Slot : state[r] = "UNUSED" => state'[r] = "UNUSED"
    BY <1>0, <1>15, <2>1, Zenon DEF Exit, AfterExit, Woken
  <2>q. QED  BY <1>0, <1>15, <2>2, Zenon DEF Exit
<1>16. ASSUME NEW p \in Slot, Reap(c, p) PROVE PidInv'
  <2>1. UNCHANGED nextpid
    BY <1>16, ReapEffect, Zenon
  <2>2. PICK z \in Slot : pid' = [pid EXCEPT ![z] = 0] /\ state' = [state EXCEPT ![z] = "UNUSED"]
    BY <1>16, ReapEffect, Zenon
  <2>q. QED  BY <1>0, <2>1, <2>2, Zenon
<1>17. ASSUME NEW p \in Slot, WaitFails(c, p) PROVE PidInv'
  BY <1>0, <1>17, Zenon DEF WaitFails
<1>18. ASSUME NEW p \in Slot, WaitSleep(c, p) PROVE PidInv'
  <2>1. state[p] # "UNUSED"
    <3>1. on[c] = p
      BY <1>18, WaitAgainEffect, Zenon DEF WaitSleep
    <3>q. QED  BY <3>1, Here, Zenon
  <2>q. QED  BY <1>0, <1>18, <2>1, Zenon DEF WaitSleep
<1>19. ASSUME NEW p \in Slot, Kill(c, p) PROVE PidInv'
  <2>0. UNCHANGED <<pid, nextpid>>
    BY <1>19, KillEffect, Zenon
  <2>1. PICK q \in Slot : \/ state' = state
                          \/ state' = [state EXCEPT ![q] = KillState(state[q])]
    BY <1>19, KillEffect, Zenon
  <2>2. \A r \in Slot : state[r] = "UNUSED" => state'[r] = "UNUSED"
    BY <1>0, <2>1, Zenon DEF KillState
  <2>q. QED  BY <1>0, <2>0, <2>2, Zenon
<1>20. ASSUME NEW p \in Slot, SleepStart(c, p) PROVE PidInv'
  BY <1>0, <1>20, Zenon DEF SleepStart, AcquireT, PushCli
<1>21. ASSUME NEW p \in Slot, SleepDone(c, p) PROVE PidInv'
  BY <1>0, <1>21, Zenon DEF SleepDone
<1>22. ASSUME NEW p \in Slot, SleepLock(c, p) PROVE PidInv'
  BY <1>0, <1>22, Zenon DEF SleepLock, AcquireP, PushCli
<1>23. ASSUME NEW p \in Slot, SleepGo(c, p) PROVE PidInv'
  <2>1. state[p] # "UNUSED"
    BY <1>23, Here, Zenon DEF SleepGo, At, AtIrq, Runs
  <2>q. QED  BY <1>0, <1>23, <2>1, Zenon DEF SleepGo
<1>24. ASSUME NEW p \in Slot, SleepResume(c, p) PROVE PidInv'
  BY <1>0, <1>24, Zenon DEF SleepResume, ResumeRelease
<1>25. ASSUME NEW p \in Slot, SleepRelock(c, p) PROVE PidInv'
  BY <1>0, <1>25, Zenon DEF SleepRelock, AcquireT, PushCli
<1>26. ASSUME NEW p \in Slot, Sched(c, p) PROVE PidInv'
  <2>1. UNCHANGED <<state, pid, nextpid>>
    BY <1>26, SchedEffect, Zenon
  <2>q. QED  BY <1>0, <2>1, Zenon
<1>27. ASSUME NEW p \in Slot, IrqExit(c, p) PROVE PidInv'
  BY <1>0, <1>27, Zenon DEF IrqExit
<1>28. ASSUME NEW p \in Slot, Yield(c, p) PROVE PidInv'
  <2>1. state[p] # "UNUSED"
    BY <1>28, Here, Zenon DEF Yield, At, AtIrq, Runs
  <2>q. QED  BY <1>0, <1>28, <2>1, Zenon DEF Yield
<1>29. ASSUME NEW p \in Slot, YieldResume(c, p) PROVE PidInv'
  BY <1>0, <1>29, Zenon DEF YieldResume, ResumeRelease
<1>30. ASSUME NEW p \in Slot, Fault(c, p) PROVE PidInv'
  BY <1>0, <1>30, Zenon DEF Fault
<1>31. ASSUME NEW p \in Slot, NEW call \in Syscalls, SyscallEntry(c, p, call) PROVE PidInv'
  BY <1>0, <1>31, Zenon DEF SyscallEntry
<1>32. ASSUME NEW t \in Thread, Interrupt(c, t) PROVE PidInv'
  BY <1>0, <1>32, Zenon DEF Interrupt
<1>33. ASSUME NEW t \in Thread, Tick(c, t) PROVE PidInv'
  BY <1>0, <1>33, Zenon DEF Tick, AcquireT, PushCli
<1>34. ASSUME NEW t \in Thread, TickWake(c, t) PROVE PidInv'
  BY <1>0, <1>34, Zenon DEF TickWake, Woken
<1>35. ASSUME NEW t \in Thread, Iret(c, t) PROVE PidInv'
  BY <1>0, <1>35, Zenon DEF Iret
<1>36. ASSUME NEW p \in Slot, SleepTest(c, p) PROVE PidInv'
  BY <1>0, <1>36, Zenon DEF SleepTest
<1>q. QED
  BY Zenon, <1>1, <1>2, <1>3, <1>4, <1>5, <1>6, <1>7, <1>8, <1>9, <1>10, <1>11, <1>12,
     <1>13, <1>14, <1>15, <1>16, <1>17, <1>18, <1>19, <1>20, <1>21, <1>22, <1>23, <1>24,
     <1>25, <1>26, <1>27, <1>28, <1>29, <1>30, <1>31, <1>32, <1>33, <1>34, <1>35, <1>36
  DEF Step, SchedulerStep, SyscallStep, ForkStep, SleepStep, YieldStep, UserStep, IrqStep

-----------------------------------------------------------------------------
(* A step leaves the slot of a fork() in progress to that fork().          *)
LEMMA ForkStepInv ==
  ASSUME IInv, NEW c \in CPU, Step(c) PROVE ForkInv'
<1>. USE DEF Goto, GotoIrq, At, AtIrq, Runs, tableVars, cpuVars, threadVars, InFork
<1>0. /\ pc \in [Thread -> PC] /\ state \in [Slot -> States] /\ kstack \in [Slot -> BOOLEAN]
      /\ np \in [Slot -> Slot \union {NoProc}]
      /\ ForkInv
  BY Zenon DEF IInv, TypeOK
<1>a. CPU \subseteq Thread /\ Slot \subseteq Thread /\ c \notin Slot
  BY ProcAssumption, Zenon DEF Thread, Slot
<1>b. on[c] \in Slot => state[on[c]] \notin {"UNUSED", "EMBRYO"}
  BY Here, Zenon
<1>1. CASE Sti(c)
  BY <1>0, <1>a, <1>b, <1>1, Zenon DEF ForkInv, Sti
<1>2. CASE ScanNone(c)
  BY <1>0, <1>a, <1>b, <1>2, ZenonT(60) DEF ForkInv, ScanNone
<1>3. CASE SwtchTo(c)
  BY <1>0, <1>a, <1>3, Zenon DEF ForkInv, SwtchTo
<1>4. CASE Back(c)
  BY <1>0, <1>a, <1>b, <1>4, Zenon DEF ForkInv, Back
<1>5. ASSUME NEW p \in Slot, Dispatch(c, p) PROVE ForkInv'
  BY <1>0, <1>a, <1>5, ZenonT(60) DEF ForkInv, Dispatch
<1>6. ASSUME NEW p \in Slot, Forkret(c, p) PROVE ForkInv'
  BY <1>0, <1>a, <1>b, <1>6, ZenonT(60) DEF ForkInv, Forkret
<1>7. ASSUME NEW p \in Slot, SyscallExit(c, p) PROVE ForkInv'
  BY <1>0, <1>a, <1>b, <1>7, ZenonT(60) DEF ForkInv, SyscallExit
<1>8. ASSUME NEW p \in Slot, AllocProc(c, p) PROVE ForkInv'
  <2>0. /\ on[c] = p /\ pc[p] = "fork" /\ pc' = [pc EXCEPT ![p] = "fkalloc"] /\ UNCHANGED kstack
    BY <1>8, AllocProcEffect, ZenonT(60) DEF Runs
  <2>1. PICK s \in Slot : /\ state[s] = "UNUSED" /\ state' = [state EXCEPT ![s] = "EMBRYO"]
                          /\ np' = [np EXCEPT ![p] = s]
    BY <1>8, AllocProcEffect
  <2>q. QED  BY <1>0, <1>a, <1>b, <2>0, <2>1, ZenonT(30) DEF ForkInv
<1>9. ASSUME NEW p \in Slot, AllocProcFull(c, p) PROVE ForkInv'
  BY <1>0, <1>a, <1>b, <1>9, ZenonT(60) DEF ForkInv, AllocProcFull
<1>10. ASSUME NEW p \in Slot, AllocStack(c, p) PROVE ForkInv'
  BY <1>0, <1>a, <1>b, <1>10 DEF ForkInv, AllocStack
<1>11. ASSUME NEW p \in Slot, ForkFails(c, p) PROVE ForkInv'
  BY <1>0, <1>a, <1>b, <1>11, ZenonT(60) DEF ForkInv, ForkFails
<1>12. ASSUME NEW p \in Slot, ForkCopy(c, p) PROVE ForkInv'
  BY <1>0, <1>a, <1>b, <1>12 DEF ForkInv, ForkCopy
<1>13. ASSUME NEW p \in Slot, ForkReady(c, p) PROVE ForkInv'
  BY <1>0, <1>a, <1>b, <1>13, ZenonT(60) DEF ForkInv, ForkReady
<1>14. ASSUME NEW p \in Slot, InitExits(c, p) PROVE ForkInv'
  BY <1>0, <1>a, <1>b, <1>14, Zenon DEF ForkInv, InitExits
<1>15. ASSUME NEW p \in Slot, Exit(c, p) PROVE ForkInv'
  <2>2. \A r \in Slot \ {p} : state[r] = "EMBRYO" => state'[r] = "EMBRYO"
    BY <1>0, <1>15, Zenon DEF Exit, AfterExit, Woken
  <2>q. QED  BY <1>0, <1>a, <1>b, <1>15, <2>2 DEF ForkInv, Exit
<1>16. ASSUME NEW p \in Slot, Reap(c, p) PROVE ForkInv'
  <2>0. WaitReturns(c, p) /\ UNCHANGED np
    BY <1>16, ReapEffect, Zenon
  <2>1. on[c] = p
    BY <2>0, WaitReturnsEffect, Zenon
  <2>2. PICK z \in Slot : /\ state[z] = "ZOMBIE"
                          /\ kstack' = [kstack EXCEPT ![z] = FALSE]
                          /\ state' = [state EXCEPT ![z] = "UNUSED"]
                          /\ pc' = [pc EXCEPT ![p] = "sysret", ![z] = "none"]
    BY <1>16, ReapEffect, Zenon
  <2>q. QED  BY <1>0, <1>a, <1>b, <2>0, <2>1, <2>2, ZenonT(30) DEF ForkInv
<1>17. ASSUME NEW p \in Slot, WaitFails(c, p) PROVE ForkInv'
  <2>1. on[c] = p
    BY <1>17, WaitReturnsEffect, Zenon DEF WaitFails
  <2>q. QED  BY <1>0, <1>a, <1>b, <1>17, <2>1, ZenonT(60) DEF ForkInv, WaitFails
<1>18. ASSUME NEW p \in Slot, WaitSleep(c, p) PROVE ForkInv'
  <2>1. on[c] = p
    BY <1>18, WaitAgainEffect, Zenon DEF WaitSleep
  <2>q. QED  BY <1>0, <1>a, <1>b, <1>18, <2>1, ZenonT(60) DEF ForkInv, WaitSleep
<1>19. ASSUME NEW p \in Slot, Kill(c, p) PROVE ForkInv'
  <2>0. on[c] = p /\ pc' = [pc EXCEPT ![p] = "sysret"] /\ UNCHANGED <<kstack, np>>
    BY <1>19, KillEffect, Zenon DEF Runs
  <2>1. PICK q \in Slot : \/ state' = state
                          \/ state' = [state EXCEPT ![q] = KillState(state[q])]
    BY <1>19, KillEffect, Zenon
  <2>2. \A r \in Slot : state[r] = "EMBRYO" => state'[r] = "EMBRYO"
    BY <1>0, <2>1, Zenon DEF KillState
  <2>q. QED  BY <1>0, <1>a, <1>b, <2>0, <2>2, ZenonT(60) DEF ForkInv
<1>20. ASSUME NEW p \in Slot, SleepStart(c, p) PROVE ForkInv'
  BY <1>0, <1>a, <1>b, <1>20, ZenonT(60) DEF ForkInv, SleepStart, AcquireT, PushCli
<1>21. ASSUME NEW p \in Slot, SleepDone(c, p) PROVE ForkInv'
  BY <1>0, <1>a, <1>b, <1>21, ZenonT(60) DEF ForkInv, SleepDone
<1>22. ASSUME NEW p \in Slot, SleepLock(c, p) PROVE ForkInv'
  BY <1>0, <1>a, <1>b, <1>22, ZenonT(60) DEF ForkInv, SleepLock, AcquireP, PushCli
<1>23. ASSUME NEW p \in Slot, SleepGo(c, p) PROVE ForkInv'
  BY <1>0, <1>a, <1>b, <1>23, Zenon DEF ForkInv, SleepGo
<1>24. ASSUME NEW p \in Slot, SleepResume(c, p) PROVE ForkInv'
  BY <1>0, <1>a, <1>b, <1>24, ZenonT(60) DEF ForkInv, SleepResume, ResumeRelease
<1>25. ASSUME NEW p \in Slot, SleepRelock(c, p) PROVE ForkInv'
  BY <1>0, <1>a, <1>b, <1>25, ZenonT(60) DEF ForkInv, SleepRelock, AcquireT, PushCli
<1>26. ASSUME NEW p \in Slot, Sched(c, p) PROVE ForkInv'
  <2>1. on[c] = p /\ UNCHANGED <<state, kstack, np>>
    BY <1>26, SchedEffect, Zenon
  <2>2. \A t \in Thread \ {p} : pc'[t] = pc[t]
    BY <1>26, SchedMove
  <2>3. pc'[p] = pc[p] \/ pc'[p] \in {"zombie", "wresume", "sresume"}
    BY <1>26, SchedMove, Zenon
  <2>4. \A q \in Slot : InFork(q)' => InFork(q) /\ pc'[q] = pc[q]
    BY <1>a, <2>2, <2>3, Zenon
  <2>5. \A q \in Slot : InFork(q) => np[q] \in Slot /\ pc'[np[q]] = pc[np[q]]
    BY <1>0, <1>a, <1>b, <2>1, <2>2 DEF ForkInv
  <2>q. QED  BY <1>0, <2>1, <2>4, <2>5, Zenon DEF ForkInv
<1>27. ASSUME NEW p \in Slot, IrqExit(c, p) PROVE ForkInv'
  BY <1>0, <1>a, <1>b, <1>27 DEF ForkInv, IrqExit
<1>28. ASSUME NEW p \in Slot, Yield(c, p) PROVE ForkInv'
  BY <1>0, <1>a, <1>b, <1>28, Zenon DEF ForkInv, Yield, AcquireP, PushCli
<1>29. ASSUME NEW p \in Slot, YieldResume(c, p) PROVE ForkInv'
  BY <1>0, <1>a, <1>b, <1>29, ZenonT(60) DEF ForkInv, YieldResume, ResumeRelease
<1>30. ASSUME NEW p \in Slot, Fault(c, p) PROVE ForkInv'
  BY <1>0, <1>a, <1>b, <1>30, ZenonT(60) DEF ForkInv, Fault
<1>31. ASSUME NEW p \in Slot, NEW call \in Syscalls, SyscallEntry(c, p, call) PROVE ForkInv'
  <2>1. call \in SyscallNames
    BY ProcAssumption, Zenon
  <2>q. QED  BY <1>0, <1>a, <1>b, <1>31, <2>1, Zenon DEF ForkInv, SyscallEntry, SyscallNames
<1>32. ASSUME NEW t \in Thread, Interrupt(c, t) PROVE ForkInv'
  BY <1>0, <1>a, <1>b, <1>32, Zenon DEF ForkInv, Interrupt
<1>33. ASSUME NEW t \in Thread, Tick(c, t) PROVE ForkInv'
  BY <1>0, <1>a, <1>b, <1>33, Zenon DEF ForkInv, Tick, AcquireT, PushCli
<1>34. ASSUME NEW t \in Thread, TickWake(c, t) PROVE ForkInv'
  BY <1>0, <1>a, <1>b, <1>34, Zenon DEF ForkInv, TickWake, Woken
<1>35. ASSUME NEW t \in Thread, Iret(c, t) PROVE ForkInv'
  BY <1>0, <1>a, <1>b, <1>35, Zenon DEF ForkInv, Iret
<1>36. ASSUME NEW p \in Slot, SleepTest(c, p) PROVE ForkInv'
  BY <1>0, <1>a, <1>b, <1>36, ZenonT(60) DEF ForkInv, SleepTest
<1>q. QED
  BY Zenon, <1>1, <1>2, <1>3, <1>4, <1>5, <1>6, <1>7, <1>8, <1>9, <1>10, <1>11, <1>12,
     <1>13, <1>14, <1>15, <1>16, <1>17, <1>18, <1>19, <1>20, <1>21, <1>22, <1>23, <1>24,
     <1>25, <1>26, <1>27, <1>28, <1>29, <1>30, <1>31, <1>32, <1>33, <1>34, <1>35, <1>36
  DEF Step, SchedulerStep, SyscallStep, ForkStep, SleepStep, YieldStep, UserStep, IrqStep

-----------------------------------------------------------------------------
(* With ptable.lock free, a RUNNABLE process is at a saved context and no  *)
(* processor is attached to it: scheduler() may take it.                   *)
LEMMA RunnableFree ==
  ASSUME IInv, plock = NoCPU, NEW p \in Slot, state[p] = "RUNNABLE"
  PROVE  Saved(p) /\ kstack[p] /\ \A d \in CPU : proc[d] # p /\ on[d] # p
<1>1. NoCPU \notin CPU /\ \A d \in CPU : d # p
  BY ProcAssumption, Zenon DEF Slot
<1>2. \A d \in CPU : proc[d] # p
  BY <1>1, Elsewhere, ProcAssumption, Zenon
<1>3. \A d \in CPU : on[d] # p
  BY <1>2, Here, Zenon
<1>4. (Saved(p) \/ AtSched(p)) /\ kstack[p]
  BY Zenon DEF IInv, SlotInv, SlotAt
<1>5. ~AtSched(p)
  BY <1>3 DEF IInv, SlotInv, SlotAt
<1>q. QED  BY <1>2, <1>3, <1>4, <1>5, Zenon

(* A step of a processor keeps its account of the process it has chosen.   *)
LEMMA CpuHere ==
  ASSUME IInv, NEW c \in CPU, Step(c) PROVE CpuAt(c)'
<1>. USE DEF Goto, GotoIrq, At, AtIrq, Runs, tableVars, cpuVars, threadVars
<1>0. /\ on \in [CPU -> Thread] /\ proc \in [CPU -> Slot \union {NoProc}]
      /\ cr3 \in [CPU -> Slot \union {NoProc}]
      /\ pc \in [Thread -> PC] /\ ipc \in [Thread -> IPC] /\ state \in [Slot -> States]
      /\ CpuAt(c)
  BY Zenon DEF IInv, CpuInv, TypeOK
<1>a. c \in Thread /\ Slot \subseteq Thread /\ c \notin Slot /\ NoProc \notin Slot
  BY ProcAssumption, Zenon DEF Thread, Slot
<1>b. on[c] \in Slot => /\ proc[c] = on[c] /\ cr3[c] = on[c] /\ pc[c] = "back"
                        /\ state[on[c]] \notin {"UNUSED", "EMBRYO"}
  BY Here, Zenon
<1>1. CASE Sti(c)
  BY <1>0, <1>a, <1>b, <1>1, Zenon DEF CpuAt, AtSched, Sti
<1>2. CASE ScanNone(c)
  BY <1>0, <1>a, <1>b, <1>2, Zenon DEF CpuAt, AtSched, ScanNone
<1>3. CASE SwtchTo(c)
  <2>1. proc[c] \in Slot /\ state[proc[c]] = "RUNNING" /\ Saved(proc[c]) /\ cr3[c] = proc[c]
    BY <1>0, <1>3, Zenon DEF CpuAt, SwtchTo
  <2>2. ~AtSched(proc[c])
    BY <2>1, Zenon DEF Saved, AtSched
  <2>q. QED  BY <1>0, <1>a, <1>3, <2>1, <2>2, Zenon DEF CpuAt, AtSched, SwtchTo
<1>4. CASE Back(c)
  BY <1>0, <1>a, <1>b, <1>4, Zenon DEF CpuAt, AtSched, Back
<1>5. ASSUME NEW p \in Slot, Dispatch(c, p) PROVE CpuAt(c)'
  <2>1. Saved(p)
    BY <1>5, RunnableFree, Zenon DEF Dispatch, AcquireP
  <2>q. QED  BY <1>0, <1>a, <1>5, <2>1, Zenon DEF CpuAt, Saved, Dispatch
<1>6. ASSUME NEW p \in Slot, Forkret(c, p) PROVE CpuAt(c)'
  BY <1>0, <1>a, <1>b, <1>6, Zenon DEF CpuAt, AtSched, Forkret
<1>7. ASSUME NEW p \in Slot, SyscallExit(c, p) PROVE CpuAt(c)'
  BY <1>0, <1>a, <1>b, <1>7, Zenon DEF CpuAt, AtSched, SyscallExit
<1>8. ASSUME NEW p \in Slot, AllocProc(c, p) PROVE CpuAt(c)'
  <2>0. /\ on[c] = p /\ ipc[p] = "none" /\ pc[p] = "fork" /\ pc' = [pc EXCEPT ![p] = "fkalloc"]
        /\ UNCHANGED <<on, proc, cr3, ipc>>
    BY <1>8, AllocProcEffect, Zenon DEF Runs
  <2>1. PICK s \in Slot : state[s] = "UNUSED" /\ state' = [state EXCEPT ![s] = "EMBRYO"]
    BY <1>8, AllocProcEffect, Zenon
  <2>2. s # p /\ state'[p] = state[p]
    BY <1>0, <1>b, <2>0, <2>1, Zenon
  <2>q. QED  BY <1>0, <1>a, <1>b, <2>0, <2>2, Zenon DEF CpuAt, AtSched
<1>9. ASSUME NEW p \in Slot, AllocProcFull(c, p) PROVE CpuAt(c)'
  BY <1>0, <1>a, <1>b, <1>9, Zenon DEF CpuAt, AtSched, AllocProcFull
<1>10. ASSUME NEW p \in Slot, AllocStack(c, p) PROVE CpuAt(c)'
  <2>1. np[p] \in Slot /\ state[np[p]] = "EMBRYO"
    BY <1>10, Zenon DEF IInv, ForkInv, InFork, AllocStack
  <2>q. QED  BY <1>0, <1>a, <1>b, <1>10, <2>1, Zenon DEF CpuAt, AtSched, AllocStack
<1>11. ASSUME NEW p \in Slot, ForkFails(c, p) PROVE CpuAt(c)'
  <2>1. np[p] \in Slot /\ state[np[p]] = "EMBRYO"
    BY <1>11, Zenon DEF IInv, ForkInv, InFork, ForkFails
  <2>q. QED  BY <1>0, <1>a, <1>b, <1>11, <2>1, Zenon DEF CpuAt, AtSched, ForkFails
<1>12. ASSUME NEW p \in Slot, ForkCopy(c, p) PROVE CpuAt(c)'
  BY <1>0, <1>a, <1>b, <1>12, Zenon DEF CpuAt, AtSched, ForkCopy
<1>13. ASSUME NEW p \in Slot, ForkReady(c, p) PROVE CpuAt(c)'
  <2>1. np[p] \in Slot /\ state[np[p]] = "EMBRYO"
    BY <1>13, Zenon DEF IInv, ForkInv, InFork, ForkReady
  <2>q. QED  BY <1>0, <1>a, <1>b, <1>13, <2>1, Zenon DEF CpuAt, AtSched, ForkReady
<1>14. ASSUME NEW p \in Slot, InitExits(c, p) PROVE CpuAt(c)'
  BY <1>0, <1>a, <1>b, <1>14, Zenon DEF CpuAt, AtSched, InitExits
<1>15. ASSUME NEW p \in Slot, Exit(c, p) PROVE CpuAt(c)'
  <2>1. state'[p] = "ZOMBIE"
    BY <1>0, <1>15, Zenon DEF Exit, AfterExit, Woken
  <2>q. QED  BY <1>0, <1>a, <1>b, <1>15, <2>1, Zenon DEF CpuAt, AtSched, Exit
<1>16. ASSUME NEW p \in Slot, Reap(c, p) PROVE CpuAt(c)'
  <2>1. WaitReturns(c, p) /\ UNCHANGED <<on, proc, cr3, ipc>>
    BY <1>16, ReapEffect, Zenon
  <2>2. on[c] = p /\ ipc[p] = "none" /\ pc[p] \in {"wait", "wresume"}
    BY <2>1, WaitReturnsEffect, Zenon
  <2>3. PICK z \in Slot : /\ state[z] = "ZOMBIE"
                          /\ state' = [state EXCEPT ![z] = "UNUSED"]
                          /\ pc' = [pc EXCEPT ![p] = "sysret", ![z] = "none"]
    BY <1>16, ReapEffect, Zenon
  <2>4. state[p] = "RUNNING"
    BY <1>0, <2>2, Zenon DEF CpuAt, AtSched
  <2>5. state'[p] = "RUNNING" /\ pc'[p] = "sysret" /\ pc'[c] = pc[c]
    BY <1>0, <1>a, <2>3, <2>4, Zenon
  <2>q. QED  BY <1>0, <1>a, <1>b, <2>1, <2>2, <2>5, Zenon DEF CpuAt, AtSched
<1>17. ASSUME NEW p \in Slot, WaitFails(c, p) PROVE CpuAt(c)'
  <2>1. on[c] = p /\ ipc[p] = "none" /\ pc[p] \in {"wait", "wresume"}
    BY <1>17, WaitReturnsEffect, Zenon DEF WaitFails
  <2>2. UNCHANGED <<state, on, proc, cr3, ipc>> /\ pc' = [pc EXCEPT ![p] = "sysret"]
    BY <1>17, Zenon DEF WaitFails
  <2>q. QED  BY <1>0, <1>a, <1>b, <2>1, <2>2, Zenon DEF CpuAt, AtSched
<1>18. ASSUME NEW p \in Slot, WaitSleep(c, p) PROVE CpuAt(c)'
  <2>1. on[c] = p /\ ipc[p] = "none"
    BY <1>18, WaitAgainEffect, Zenon DEF WaitSleep
  <2>2. /\ UNCHANGED <<on, proc, cr3, ipc>> /\ pc' = [pc EXCEPT ![p] = "wsched"]
        /\ state' = [state EXCEPT ![p] = "SLEEPING"]
    BY <1>18, Zenon DEF WaitSleep
  <2>q. QED  BY <1>0, <1>a, <1>b, <2>1, <2>2, Zenon DEF CpuAt, AtSched
<1>19. ASSUME NEW p \in Slot, Kill(c, p) PROVE CpuAt(c)'
  <2>0. /\ on[c] = p /\ ipc[p] = "none" /\ pc[p] = "kill" /\ pc' = [pc EXCEPT ![p] = "sysret"]
        /\ UNCHANGED <<on, proc, cr3, ipc>>
    BY <1>19, KillEffect, Zenon DEF Runs
  <2>1. PICK q \in Slot : \/ state' = state
                          \/ state' = [state EXCEPT ![q] = KillState(state[q])]
    BY <1>19, KillEffect, Zenon
  <2>2. state[p] = "RUNNING"
    BY <1>0, <2>0, Zenon DEF CpuAt, AtSched
  <2>3. state'[p] = "RUNNING"
    BY <1>0, <2>1, <2>2, Zenon DEF KillState
  <2>q. QED  BY <1>0, <1>a, <1>b, <2>0, <2>3, Zenon DEF CpuAt, AtSched
<1>20. ASSUME NEW p \in Slot, SleepStart(c, p) PROVE CpuAt(c)'
  BY <1>0, <1>a, <1>b, <1>20, Zenon DEF CpuAt, AtSched, SleepStart, AcquireT, PushCli
<1>21. ASSUME NEW p \in Slot, SleepDone(c, p) PROVE CpuAt(c)'
  BY <1>0, <1>a, <1>b, <1>21, Zenon DEF CpuAt, AtSched, SleepDone
<1>22. ASSUME NEW p \in Slot, SleepLock(c, p) PROVE CpuAt(c)'
  BY <1>0, <1>a, <1>b, <1>22, Zenon DEF CpuAt, AtSched, SleepLock, AcquireP, PushCli
<1>23. ASSUME NEW p \in Slot, SleepGo(c, p) PROVE CpuAt(c)'
  BY <1>0, <1>a, <1>b, <1>23, Zenon DEF CpuAt, AtSched, SleepGo
<1>24. ASSUME NEW p \in Slot, SleepResume(c, p) PROVE CpuAt(c)'
  BY <1>0, <1>a, <1>b, <1>24, Zenon DEF CpuAt, AtSched, SleepResume, ResumeRelease
<1>25. ASSUME NEW p \in Slot, SleepRelock(c, p) PROVE CpuAt(c)'
  BY <1>0, <1>a, <1>b, <1>25, Zenon DEF CpuAt, AtSched, SleepRelock, AcquireT, PushCli
<1>26. ASSUME NEW p \in Slot, Sched(c, p) PROVE CpuAt(c)'
  <2>1. on[c] = p /\ on' = [on EXCEPT ![c] = c] /\ UNCHANGED <<state, proc, cr3>>
    BY <1>26, SchedEffect, Zenon
  <2>2. pc'[c] = pc[c]
    BY <1>a, <1>26, SchedMove
  <2>q. QED  BY <1>0, <1>a, <1>b, <2>1, <2>2, Zenon DEF CpuAt
<1>27. ASSUME NEW p \in Slot, IrqExit(c, p) PROVE CpuAt(c)'
  BY <1>0, <1>a, <1>b, <1>27, Zenon DEF CpuAt, AtSched, IrqExit
<1>28. ASSUME NEW p \in Slot, Yield(c, p) PROVE CpuAt(c)'
  BY <1>0, <1>a, <1>b, <1>28, Zenon DEF CpuAt, AtSched, Yield, AcquireP, PushCli
<1>29. ASSUME NEW p \in Slot, YieldResume(c, p) PROVE CpuAt(c)'
  BY <1>0, <1>a, <1>b, <1>29, Zenon DEF CpuAt, AtSched, YieldResume, ResumeRelease
<1>30. ASSUME NEW p \in Slot, Fault(c, p) PROVE CpuAt(c)'
  BY <1>0, <1>a, <1>b, <1>30, Zenon DEF CpuAt, AtSched, Fault
<1>31. ASSUME NEW p \in Slot, NEW call \in Syscalls, SyscallEntry(c, p, call) PROVE CpuAt(c)'
  <2>1. call \in SyscallNames
    BY ProcAssumption, Zenon
  <2>q. QED  BY <1>0, <1>a, <1>b, <1>31, <2>1, Zenon DEF CpuAt, AtSched, SyscallEntry, SyscallNames
<1>32. ASSUME NEW t \in Thread, Interrupt(c, t) PROVE CpuAt(c)'
  <2>0. ipc[t] = "none" /\ pc[t] \notin PLocs
    BY <1>32, Zenon DEF IInv, LockInv, LockAt, HoldsP, Interrupt
  <2>1. CASE t \in Slot
    BY <1>0, <1>a, <1>b, <1>32, <2>0, <2>1, Zenon DEF CpuAt, AtSched, PLocs, Interrupt
  <2>2. CASE t = c
    <3>1. pc[c] \in {"idle", "scan"}
      BY <2>0, <2>2, Zenon DEF IInv, ThreadInv, SchedPC, PLocs
    <3>q. QED  BY <1>0, <1>a, <1>32, <2>2, <3>1, Zenon DEF CpuAt, Interrupt
  <2>q. QED  BY <1>32, <2>1, <2>2, Zenon DEF IInv, LockInv, LockAt, Interrupt
<1>33. ASSUME NEW t \in Thread, Tick(c, t) PROVE CpuAt(c)'
  <2>1. CASE t \in Slot
    BY <1>0, <1>a, <1>b, <1>33, <2>1, Zenon DEF CpuAt, AtSched, IInv, ThreadInv, PLocs, Tick
  <2>2. CASE t = c
    <3>1. pc[c] \in {"idle", "scan"}
      BY <1>33, <2>2, Zenon DEF IInv, ThreadInv, SchedPC, PLocs, Tick
    <3>q. QED  BY <1>0, <1>a, <1>33, <2>2, <3>1, Zenon DEF CpuAt, Tick
  <2>q. QED  BY <1>33, <2>1, <2>2, Zenon DEF IInv, LockInv, LockAt, Tick
<1>34. ASSUME NEW t \in Thread, TickWake(c, t) PROVE CpuAt(c)'
  <2>1. plock # c
    BY <1>a, <1>34, ProcAssumption, Zenon DEF TickWake
  <2>2. proc[c] # NoProc => state[proc[c]] = "RUNNING" /\ proc[c] \in Slot
    BY <2>1, Elsewhere, Zenon
  <2>3. proc[c] # NoProc => state'[proc[c]] = "RUNNING"
    BY <1>0, <1>34, <2>2, Zenon DEF TickWake, Woken
  <2>4. CASE t \in Slot
    BY <1>0, <1>a, <1>b, <1>34, <2>2, <2>3, <2>4, Zenon DEF CpuAt, AtSched, TickWake
  <2>5. CASE t = c
    <3>1. pc[c] \in {"idle", "scan"}
      BY <1>0, <1>34, <2>5, Zenon DEF IInv, ThreadInv, SchedPC, PLocs, TickWake
    <3>q. QED  BY <1>0, <1>a, <1>34, <2>5, <3>1, Zenon DEF CpuAt, TickWake
  <2>q. QED  BY <1>34, <2>4, <2>5, Zenon DEF IInv, LockInv, LockAt, TickWake
<1>35. ASSUME NEW t \in Thread, Iret(c, t) PROVE CpuAt(c)'
  <2>1. CASE t \in Slot
    BY <1>0, <1>a, <1>b, <1>35, <2>1, Zenon DEF CpuAt, AtSched, IInv, ThreadInv, PLocs, Iret
  <2>2. CASE t = c
    <3>1. pc[c] \in {"idle", "scan"}
      BY <1>35, <2>2, Zenon DEF IInv, ThreadInv, SchedPC, PLocs, Iret
    <3>q. QED  BY <1>0, <1>a, <1>35, <2>2, <3>1, Zenon DEF CpuAt, Iret
  <2>q. QED  BY <1>35, <2>1, <2>2, Zenon DEF IInv, LockInv, LockAt, Iret
<1>36. ASSUME NEW p \in Slot, SleepTest(c, p) PROVE CpuAt(c)'
  BY <1>0, <1>a, <1>b, <1>36, Zenon DEF CpuAt, AtSched, SleepTest
<1>q. QED
  BY Zenon, <1>1, <1>2, <1>3, <1>4, <1>5, <1>6, <1>7, <1>8, <1>9, <1>10, <1>11, <1>12,
     <1>13, <1>14, <1>15, <1>16, <1>17, <1>18, <1>19, <1>20, <1>21, <1>22, <1>23, <1>24,
     <1>25, <1>26, <1>27, <1>28, <1>29, <1>30, <1>31, <1>32, <1>33, <1>34, <1>35, <1>36
  DEF Step, SchedulerStep, SyscallStep, ForkStep, SleepStep, YieldStep, UserStep, IrqStep

-----------------------------------------------------------------------------
(* Two processors never choose the same process.                           *)
LEMMA ProcStep ==
  ASSUME IInv, NEW c \in CPU, Step(c) PROVE ProcInv'
<1>. USE DEF cpuVars
<1>0. ProcInv
  BY Zenon DEF IInv
<1>1. CASE Sti(c)
  BY <1>0, <1>1, Zenon DEF ProcInv, Sti
<1>2. CASE ScanNone(c)
  BY <1>0, <1>2, Zenon DEF ProcInv, ScanNone
<1>3. CASE SwtchTo(c)
  BY <1>0, <1>3, Zenon DEF ProcInv, SwtchTo
<1>4. CASE Back(c)
  <2>1. proc \in [CPU -> Slot \union {NoProc}]
    BY Zenon DEF IInv, TypeOK
  <2>q. QED  BY <1>0, <1>4, <2>1, Zenon DEF ProcInv, Back
<1>5. ASSUME NEW p \in Slot, Dispatch(c, p) PROVE ProcInv'
  <2>1. \A d \in CPU : proc[d] # p
    BY <1>5, RunnableFree, Zenon DEF Dispatch, AcquireP
  <2>2. proc \in [CPU -> Slot \union {NoProc}]
    BY Zenon DEF IInv, TypeOK
  <2>q. QED  BY <1>0, <1>5, <2>1, <2>2, Zenon DEF ProcInv, Dispatch
<1>6. ASSUME NEW p \in Slot, Forkret(c, p) PROVE ProcInv'
  BY <1>0, <1>6, Zenon DEF ProcInv, Forkret
<1>7. ASSUME NEW p \in Slot, SyscallExit(c, p) PROVE ProcInv'
  BY <1>0, <1>7, Zenon DEF ProcInv, SyscallExit
<1>8. ASSUME NEW p \in Slot, AllocProc(c, p) PROVE ProcInv'
  BY <1>0, <1>8, Zenon DEF ProcInv, AllocProc
<1>9. ASSUME NEW p \in Slot, AllocProcFull(c, p) PROVE ProcInv'
  BY <1>0, <1>9, Zenon DEF ProcInv, AllocProcFull
<1>10. ASSUME NEW p \in Slot, AllocStack(c, p) PROVE ProcInv'
  BY <1>0, <1>10, Zenon DEF ProcInv, AllocStack
<1>11. ASSUME NEW p \in Slot, ForkFails(c, p) PROVE ProcInv'
  BY <1>0, <1>11, Zenon DEF ProcInv, ForkFails
<1>12. ASSUME NEW p \in Slot, ForkCopy(c, p) PROVE ProcInv'
  BY <1>0, <1>12, Zenon DEF ProcInv, ForkCopy
<1>13. ASSUME NEW p \in Slot, ForkReady(c, p) PROVE ProcInv'
  BY <1>0, <1>13, Zenon DEF ProcInv, ForkReady
<1>14. ASSUME NEW p \in Slot, InitExits(c, p) PROVE ProcInv'
  BY <1>0, <1>14, Zenon DEF ProcInv, InitExits
<1>15. ASSUME NEW p \in Slot, Exit(c, p) PROVE ProcInv'
  BY <1>0, <1>15, Zenon DEF ProcInv, Exit
<1>16. ASSUME NEW p \in Slot, Reap(c, p) PROVE ProcInv'
  BY <1>0, <1>16, Zenon DEF ProcInv, Reap
<1>17. ASSUME NEW p \in Slot, WaitFails(c, p) PROVE ProcInv'
  BY <1>0, <1>17, Zenon DEF ProcInv, WaitFails
<1>18. ASSUME NEW p \in Slot, WaitSleep(c, p) PROVE ProcInv'
  BY <1>0, <1>18, Zenon DEF ProcInv, WaitSleep
<1>19. ASSUME NEW p \in Slot, Kill(c, p) PROVE ProcInv'
  BY <1>0, <1>19, Zenon DEF ProcInv, Kill
<1>20. ASSUME NEW p \in Slot, SleepStart(c, p) PROVE ProcInv'
  BY <1>0, <1>20, Zenon DEF ProcInv, SleepStart
<1>21. ASSUME NEW p \in Slot, SleepDone(c, p) PROVE ProcInv'
  BY <1>0, <1>21, Zenon DEF ProcInv, SleepDone
<1>22. ASSUME NEW p \in Slot, SleepLock(c, p) PROVE ProcInv'
  BY <1>0, <1>22, Zenon DEF ProcInv, SleepLock
<1>23. ASSUME NEW p \in Slot, SleepGo(c, p) PROVE ProcInv'
  BY <1>0, <1>23, Zenon DEF ProcInv, SleepGo
<1>24. ASSUME NEW p \in Slot, SleepResume(c, p) PROVE ProcInv'
  BY <1>0, <1>24, Zenon DEF ProcInv, SleepResume
<1>25. ASSUME NEW p \in Slot, SleepRelock(c, p) PROVE ProcInv'
  BY <1>0, <1>25, Zenon DEF ProcInv, SleepRelock
<1>26. ASSUME NEW p \in Slot, Sched(c, p) PROVE ProcInv'
  BY <1>0, <1>26, Zenon DEF ProcInv, Sched
<1>27. ASSUME NEW p \in Slot, IrqExit(c, p) PROVE ProcInv'
  BY <1>0, <1>27, Zenon DEF ProcInv, IrqExit
<1>28. ASSUME NEW p \in Slot, Yield(c, p) PROVE ProcInv'
  BY <1>0, <1>28, Zenon DEF ProcInv, Yield
<1>29. ASSUME NEW p \in Slot, YieldResume(c, p) PROVE ProcInv'
  BY <1>0, <1>29, Zenon DEF ProcInv, YieldResume
<1>30. ASSUME NEW p \in Slot, Fault(c, p) PROVE ProcInv'
  BY <1>0, <1>30, Zenon DEF ProcInv, Fault
<1>31. ASSUME NEW p \in Slot, NEW call \in Syscalls, SyscallEntry(c, p, call) PROVE ProcInv'
  BY <1>0, <1>31, Zenon DEF ProcInv, SyscallEntry
<1>32. ASSUME NEW t \in Thread, Interrupt(c, t) PROVE ProcInv'
  BY <1>0, <1>32, Zenon DEF ProcInv, Interrupt
<1>33. ASSUME NEW t \in Thread, Tick(c, t) PROVE ProcInv'
  BY <1>0, <1>33, Zenon DEF ProcInv, Tick
<1>34. ASSUME NEW t \in Thread, TickWake(c, t) PROVE ProcInv'
  BY <1>0, <1>34, Zenon DEF ProcInv, TickWake
<1>35. ASSUME NEW t \in Thread, Iret(c, t) PROVE ProcInv'
  BY <1>0, <1>35, Zenon DEF ProcInv, Iret
<1>36. ASSUME NEW p \in Slot, SleepTest(c, p) PROVE ProcInv'
  BY <1>0, <1>36, Zenon DEF ProcInv, SleepTest
<1>q. QED
  BY Zenon, <1>1, <1>2, <1>3, <1>4, <1>5, <1>6, <1>7, <1>8, <1>9, <1>10, <1>11, <1>12,
     <1>13, <1>14, <1>15, <1>16, <1>17, <1>18, <1>19, <1>20, <1>21, <1>22, <1>23, <1>24,
     <1>25, <1>26, <1>27, <1>28, <1>29, <1>30, <1>31, <1>32, <1>33, <1>34, <1>35, <1>36
  DEF Step, SchedulerStep, SyscallStep, ForkStep, SleepStep, YieldStep, UserStep, IrqStep

-----------------------------------------------------------------------------
(* What the table says of a process survives the steps of a processor      *)
(* other than its own.                                                     *)
LEMMA OthersSlot ==
  ASSUME IInv, NEW d \in CPU, Untouched(d), NEW q \in Slot, proc[d] = q
  PROVE  SlotAt(q)'
<1>1. q # NoProc
  BY ProcAssumption, Zenon
<1>2. SlotAt(q)
  BY Zenon DEF IInv, SlotInv
<1>3. \A e \in CPU : on[e] = q \/ proc[e] = q => e = d
  BY <1>1, Here, Zenon DEF IInv, ProcInv
<1>4. state[q] = "RUNNING" => proc[d] = q /\ (pc[d] = "swtch" \/ on[d] = q)
  BY <1>2, <1>3, Zenon DEF SlotAt
<1>5. AtSched(q) => on[d] = q
  BY <1>2, <1>3, Zenon DEF SlotAt
<1>6. /\ pc'[q] = pc[q] /\ ipc'[q] = ipc[q] /\ state'[q] = state[q] /\ kstack'[q] = kstack[q]
      /\ proc'[d] = proc[d] /\ on'[d] = on[d] /\ pc'[d] = pc[d]
  BY <1>1, Zenon DEF Untouched
<1>q. QED  BY <1>2, <1>4, <1>5, <1>6, Zenon DEF SlotAt, Saved, AtSched

(* The same, for a slot that no processor but c is attached to.            *)
SlotHere(c, q) ==
  /\ state[q] = "UNUSED" => ipc[q] = "none" /\ pc[q] = "none"
  /\ state[q] = "EMBRYO" => ipc[q] = "none" /\ pc[q] \in {"none", "forkret"}
  /\ state[q] = "ZOMBIE" <=> pc[q] \in {"zsched", "zombie"}
  /\ state[q] \in {"SLEEPING", "RUNNABLE"} => Saved(q) \/ AtSched(q)
  /\ state[q] = "RUNNING" => proc[c] = q /\ (pc[c] = "swtch" \/ on[c] = q)
  /\ AtSched(q) => on[c] = q
  /\ state[q] \notin {"UNUSED", "EMBRYO"} => kstack[q]

(* A step of a processor keeps the table true of its own process and of    *)
(* the slots that no processor is attached to.                             *)
LEMMA SlotStep ==
  ASSUME IInv, NEW c \in CPU, Step(c), NEW q \in Slot, \A d \in CPU \ {c} : proc[d] # q
  PROVE  SlotHere(c, q)'
<1>. USE DEF Goto, GotoIrq, At, AtIrq, Runs, tableVars, cpuVars, threadVars
<1>0. /\ on \in [CPU -> Thread] /\ proc \in [CPU -> Slot \union {NoProc}] /\ pc \in [Thread -> PC]
      /\ ipc \in [Thread -> IPC] /\ state \in [Slot -> States] /\ kstack \in [Slot -> BOOLEAN]
      /\ CpuAt(c)
  BY Zenon DEF IInv, CpuInv, TypeOK
<1>a. c \in Thread /\ Slot \subseteq Thread /\ c \notin Slot /\ NoProc \notin Slot
  BY ProcAssumption, Zenon DEF Thread, Slot
<1>b. on[c] \in Slot => /\ proc[c] = on[c] /\ cr3[c] = on[c] /\ pc[c] = "back"
                        /\ state[on[c]] \notin {"UNUSED", "EMBRYO"}
  BY Here, Zenon
<1>c. SlotHere(c, q)
  <2>1. \A d \in CPU \ {c} : on[d] # q
    BY Here, Zenon
  <2>q. QED  BY <2>1 DEF IInv, SlotInv, SlotAt, SlotHere
<1>1. CASE Sti(c)
  BY <1>0, <1>a, <1>b, <1>c, <1>1, Zenon DEF CpuAt, SlotHere, AtSched, Saved, Sti
<1>2. CASE ScanNone(c)
  BY <1>0, <1>a, <1>b, <1>c, <1>2, Zenon DEF CpuAt, SlotHere, AtSched, Saved, ScanNone
<1>3. CASE SwtchTo(c)
  BY <1>0, <1>a, <1>b, <1>c, <1>3, Zenon DEF CpuAt, SlotHere, AtSched, Saved, SwtchTo
<1>4. CASE Back(c)
  BY <1>0, <1>a, <1>b, <1>c, <1>4, Zenon DEF CpuAt, SlotHere, AtSched, Saved, Back
<1>5. ASSUME NEW p \in Slot, Dispatch(c, p) PROVE SlotHere(c, q)'
  BY <1>0, <1>a, <1>b, <1>c, <1>5, Zenon DEF CpuAt, SlotHere, AtSched, Saved, Dispatch,
     AcquireP, PushCli
<1>6. ASSUME NEW p \in Slot, Forkret(c, p) PROVE SlotHere(c, q)'
  BY <1>0, <1>a, <1>b, <1>c, <1>6, Zenon DEF CpuAt, SlotHere, AtSched, Saved, Forkret
<1>7. ASSUME NEW p \in Slot, SyscallExit(c, p) PROVE SlotHere(c, q)'
  BY <1>0, <1>a, <1>b, <1>c, <1>7, Zenon DEF CpuAt, SlotHere, AtSched, Saved, SyscallExit
<1>8. ASSUME NEW p \in Slot, AllocProc(c, p) PROVE SlotHere(c, q)'
  <2>0. /\ on[c] = p /\ ipc[p] = "none" /\ pc[p] = "fork" /\ pc' = [pc EXCEPT ![p] = "fkalloc"]
        /\ UNCHANGED <<kstack, on, proc, ipc>>
    BY <1>8, AllocProcEffect, ZenonT(60) DEF Runs
  <2>1. PICK s \in Slot : state[s] = "UNUSED" /\ state' = [state EXCEPT ![s] = "EMBRYO"]
    BY <1>8, AllocProcEffect, Zenon
  <2>q. QED  BY <1>0, <1>a, <1>b, <1>c, <2>0, <2>1, Zenon DEF CpuAt, SlotHere, AtSched, Saved
<1>9. ASSUME NEW p \in Slot, AllocProcFull(c, p) PROVE SlotHere(c, q)'
  BY <1>0, <1>a, <1>b, <1>c, <1>9, Zenon DEF CpuAt, SlotHere, AtSched, Saved, AllocProcFull
<1>10. ASSUME NEW p \in Slot, AllocStack(c, p) PROVE SlotHere(c, q)'
  <2>1. /\ np[p] \in Slot /\ state[np[p]] = "EMBRYO"
        /\ (pc[p] # "fkalloc" => kstack[np[p]] /\ pc[np[p]] = "forkret")
    BY <1>10, Zenon DEF IInv, ForkInv, InFork, AllocStack
  <2>q. QED  BY <1>0, <1>a, <1>b, <1>c, <1>10, <2>1, Zenon
             DEF CpuAt, SlotHere, AtSched, Saved, AllocStack
<1>11. ASSUME NEW p \in Slot, ForkFails(c, p) PROVE SlotHere(c, q)'
  <2>1. /\ np[p] \in Slot /\ state[np[p]] = "EMBRYO"
        /\ (pc[p] # "fkalloc" => kstack[np[p]] /\ pc[np[p]] = "forkret")
    BY <1>11, Zenon DEF IInv, ForkInv, InFork, ForkFails
  <2>q. QED  BY <1>0, <1>a, <1>b, <1>c, <1>11, <2>1, Zenon
             DEF CpuAt, SlotHere, AtSched, Saved, ForkFails
<1>12. ASSUME NEW p \in Slot, ForkCopy(c, p) PROVE SlotHere(c, q)'
  BY <1>0, <1>a, <1>b, <1>c, <1>12, Zenon DEF CpuAt, SlotHere, AtSched, Saved, ForkCopy
<1>13. ASSUME NEW p \in Slot, ForkReady(c, p) PROVE SlotHere(c, q)'
  <2>1. /\ np[p] \in Slot /\ state[np[p]] = "EMBRYO"
        /\ (pc[p] # "fkalloc" => kstack[np[p]] /\ pc[np[p]] = "forkret")
    BY <1>13, Zenon DEF IInv, ForkInv, InFork, ForkReady
  <2>q. QED  BY <1>0, <1>a, <1>b, <1>c, <1>13, <2>1, Zenon
             DEF CpuAt, SlotHere, AtSched, Saved, ForkReady
<1>14. ASSUME NEW p \in Slot, InitExits(c, p) PROVE SlotHere(c, q)'
  BY <1>0, <1>a, <1>b, <1>c, <1>14, Zenon DEF CpuAt, SlotHere, AtSched, Saved, InitExits
<1>15. ASSUME NEW p \in Slot, Exit(c, p) PROVE SlotHere(c, q)'
  <2>1. state'[p] = "ZOMBIE"
    BY <1>0, <1>15, Zenon DEF Exit, AfterExit, Woken
  <2>2. q # p => state'[q] = state[q] \/ (state[q] = "SLEEPING" /\ state'[q] = "RUNNABLE")
    BY <1>0, <1>15, Zenon DEF Exit, AfterExit, Woken
  <2>q. QED  BY <1>0, <1>a, <1>b, <1>c, <1>15, <2>1, <2>2, Zenon
             DEF CpuAt, SlotHere, AtSched, Saved, Exit
<1>16. ASSUME NEW p \in Slot, Reap(c, p) PROVE SlotHere(c, q)'
  <2>1. WaitReturns(c, p) /\ UNCHANGED <<on, proc, ipc>>
    BY <1>16, ReapEffect, Zenon
  <2>2. on[c] = p /\ ipc[p] = "none" /\ pc[p] \in {"wait", "wresume"}
    BY <2>1, WaitReturnsEffect, Zenon
  <2>3. PICK z \in Slot : /\ state[z] = "ZOMBIE"
                          /\ kstack' = [kstack EXCEPT ![z] = FALSE]
                          /\ state' = [state EXCEPT ![z] = "UNUSED"]
                          /\ pc' = [pc EXCEPT ![p] = "sysret", ![z] = "none"]
    BY <1>16, ReapEffect, Zenon
  <2>4. state[p] = "RUNNING"
    BY <1>0, <2>2, Zenon DEF CpuAt, AtSched
  <2>5. CASE q = z
    <3>1. ipc[z] = "none"
      BY <1>a, <1>c, <2>3, <2>5, Zenon DEF IInv, ThreadInv, SlotHere, PLocs
    <3>2. state'[z] = "UNUSED" /\ pc'[z] = "none" /\ ipc'[z] = "none"
      BY <1>0, <1>a, <2>1, <2>3, <3>1, Zenon
    <3>q. QED  BY <2>5, <3>2, Zenon DEF SlotHere, AtSched
  <2>6. CASE q = p
    <3>1. state'[p] = "RUNNING" /\ pc'[p] = "sysret" /\ kstack'[p] = kstack[p]
      BY <1>0, <1>a, <2>3, <2>4, Zenon
    <3>q. QED  BY <1>b, <1>c, <2>1, <2>2, <2>4, <2>6, <3>1, Zenon DEF SlotHere, AtSched
  <2>7. CASE q # z /\ q # p
    <3>1. state'[q] = state[q] /\ pc'[q] = pc[q] /\ kstack'[q] = kstack[q] /\ pc'[c] = pc[c]
      BY <1>0, <1>a, <2>3, <2>7, Zenon
    <3>q. QED  BY <1>c, <2>1, <3>1, Zenon DEF SlotHere, AtSched, Saved
  <2>q. QED  BY <2>5, <2>6, <2>7, Zenon
<1>17. ASSUME NEW p \in Slot, WaitFails(c, p) PROVE SlotHere(c, q)'
  <2>1. on[c] = p /\ ipc[p] = "none" /\ pc[p] \in {"wait", "wresume"}
    BY <1>17, WaitReturnsEffect, Zenon DEF WaitFails
  <2>2. UNCHANGED <<state, kstack, on, proc, ipc>> /\ pc' = [pc EXCEPT ![p] = "sysret"]
    BY <1>17, Zenon DEF WaitFails
  <2>q. QED  BY <1>0, <1>a, <1>b, <1>c, <2>1, <2>2, Zenon DEF CpuAt, SlotHere, AtSched, Saved
<1>18. ASSUME NEW p \in Slot, WaitSleep(c, p) PROVE SlotHere(c, q)'
  <2>1. on[c] = p /\ ipc[p] = "none"
    BY <1>18, WaitAgainEffect, Zenon DEF WaitSleep
  <2>2. /\ UNCHANGED <<kstack, on, proc, ipc>> /\ pc' = [pc EXCEPT ![p] = "wsched"]
        /\ state' = [state EXCEPT ![p] = "SLEEPING"]
    BY <1>18, Zenon DEF WaitSleep
  <2>q. QED  BY <1>0, <1>a, <1>b, <1>c, <2>1, <2>2, Zenon DEF CpuAt, SlotHere, AtSched, Saved
<1>19. ASSUME NEW p \in Slot, Kill(c, p) PROVE SlotHere(c, q)'
  <2>0. /\ on[c] = p /\ ipc[p] = "none" /\ pc[p] = "kill" /\ pc' = [pc EXCEPT ![p] = "sysret"]
        /\ UNCHANGED <<kstack, on, proc, ipc>>
    BY <1>19, KillEffect, Zenon DEF Runs
  <2>1. PICK r \in Slot : \/ state' = state
                          \/ state' = [state EXCEPT ![r] = KillState(state[r])]
    BY <1>19, KillEffect, Zenon
  <2>2. state'[q] = state[q] \/ (state[q] = "SLEEPING" /\ state'[q] = "RUNNABLE")
    BY <1>0, <2>1, Zenon DEF KillState
  <2>3. state[p] = "RUNNING"
    BY <1>0, <2>0, Zenon DEF CpuAt, AtSched
  <2>q. QED  BY <1>0, <1>a, <1>b, <1>c, <2>0, <2>2, <2>3, Zenon DEF CpuAt, SlotHere, AtSched, Saved
<1>20. ASSUME NEW p \in Slot, SleepStart(c, p) PROVE SlotHere(c, q)'
  BY <1>0, <1>a, <1>b, <1>c, <1>20, Zenon DEF CpuAt, SlotHere, AtSched, Saved, SleepStart,
     AcquireT, PushCli
<1>21. ASSUME NEW p \in Slot, SleepDone(c, p) PROVE SlotHere(c, q)'
  BY <1>0, <1>a, <1>b, <1>c, <1>21, Zenon DEF CpuAt, SlotHere, AtSched, Saved, SleepDone
<1>22. ASSUME NEW p \in Slot, SleepLock(c, p) PROVE SlotHere(c, q)'
  BY <1>0, <1>a, <1>b, <1>c, <1>22, Zenon DEF CpuAt, SlotHere, AtSched, Saved, SleepLock,
     AcquireP, PushCli
<1>23. ASSUME NEW p \in Slot, SleepGo(c, p) PROVE SlotHere(c, q)'
  BY <1>0, <1>a, <1>b, <1>c, <1>23, Zenon DEF CpuAt, SlotHere, AtSched, Saved, SleepGo
<1>24. ASSUME NEW p \in Slot, SleepResume(c, p) PROVE SlotHere(c, q)'
  BY <1>0, <1>a, <1>b, <1>c, <1>24, Zenon DEF CpuAt, SlotHere, AtSched, Saved, SleepResume,
     ResumeRelease
<1>25. ASSUME NEW p \in Slot, SleepRelock(c, p) PROVE SlotHere(c, q)'
  BY <1>0, <1>a, <1>b, <1>c, <1>25, Zenon DEF CpuAt, SlotHere, AtSched, Saved, SleepRelock,
     AcquireT, PushCli
<1>26. ASSUME NEW p \in Slot, Sched(c, p) PROVE SlotHere(c, q)'
  <2>1. on[c] = p /\ AtSched(p) /\ on' = [on EXCEPT ![c] = c] /\ UNCHANGED <<state, kstack, proc>>
    BY <1>26, SchedEffect, Zenon
  <2>2. state[p] # "RUNNING"
    BY <1>0, <2>1, Zenon DEF CpuAt
  <2>3. CASE q = p
    <3>1. \/ ipc[p] = "ysched" /\ ipc'[p] = "yresume" /\ pc'[p] = pc[p]
          \/ /\ ipc[p] = "none" /\ ipc'[p] = "none"
             /\ \/ pc[p] = "zsched" /\ pc'[p] = "zombie"
                \/ pc[p] = "wsched" /\ pc'[p] = "wresume"
                \/ pc[p] = "ssched" /\ pc'[p] = "sresume"
      BY <1>26, SchedMove
    <3>q. QED  BY <1>b, <1>c, <2>1, <2>2, <2>3, <3>1, Zenon DEF SlotHere, AtSched, Saved
  <2>4. CASE q # p
    <3>0. \A t \in Thread \ {p} : pc'[t] = pc[t] /\ ipc'[t] = ipc[t]
      BY <1>26, SchedMove
    <3>1. pc'[q] = pc[q] /\ ipc'[q] = ipc[q]
      BY <1>a, <2>4, <3>0, Zenon
    <3>2. state[q] # "RUNNING" /\ ~AtSched(q)
      BY <1>a, <1>b, <1>c, <2>1, <2>4, Zenon DEF SlotHere
    <3>q. QED  BY <1>c, <2>1, <3>1, <3>2, Zenon DEF SlotHere, AtSched, Saved
  <2>q. QED  BY <2>3, <2>4, Zenon
<1>27. ASSUME NEW p \in Slot, IrqExit(c, p) PROVE SlotHere(c, q)'
  BY <1>0, <1>a, <1>b, <1>c, <1>27, Zenon DEF CpuAt, SlotHere, AtSched, Saved, IrqExit
<1>28. ASSUME NEW p \in Slot, Yield(c, p) PROVE SlotHere(c, q)'
  BY <1>0, <1>a, <1>b, <1>c, <1>28, Zenon DEF CpuAt, SlotHere, AtSched, Saved, Yield, AcquireP,
     PushCli
<1>29. ASSUME NEW p \in Slot, YieldResume(c, p) PROVE SlotHere(c, q)'
  BY <1>0, <1>a, <1>b, <1>c, <1>29, Zenon DEF CpuAt, SlotHere, AtSched, Saved, YieldResume,
     ResumeRelease
<1>30. ASSUME NEW p \in Slot, Fault(c, p) PROVE SlotHere(c, q)'
  BY <1>0, <1>a, <1>b, <1>c, <1>30, Zenon DEF CpuAt, SlotHere, AtSched, Saved, Fault
<1>31. ASSUME NEW p \in Slot, NEW call \in Syscalls, SyscallEntry(c, p, call) PROVE SlotHere(c, q)'
  <2>1. call \in SyscallNames
    BY ProcAssumption, Zenon
  <2>q. QED  BY <1>0, <1>a, <1>b, <1>c, <1>31, <2>1, Zenon
             DEF CpuAt, SlotHere, AtSched, Saved, SyscallEntry, SyscallNames
<1>32. ASSUME NEW t \in Thread, Interrupt(c, t) PROVE SlotHere(c, q)'
  <2>0. ipc[t] = "none" /\ pc[t] \notin PLocs /\ on[c] = t
    BY <1>32, Zenon DEF IInv, LockInv, LockAt, HoldsP, Interrupt
  <2>1. q = t => state[q] = "RUNNING"
    BY <1>0, <2>0, Zenon DEF CpuAt, AtSched, PLocs
  <2>q. QED  BY <1>0, <1>a, <1>c, <1>32, <2>0, <2>1, Zenon DEF SlotHere, AtSched, Saved, Interrupt
<1>33. ASSUME NEW t \in Thread, Tick(c, t) PROVE SlotHere(c, q)'
  <2>0. ipc[t] \notin {"none", "ysched"} /\ pc[t] \notin PLocs /\ on[c] = t
    BY <1>33, Zenon DEF IInv, ThreadInv, Tick
  <2>1. q = t => state[q] = "RUNNING"
    BY <1>0, <2>0, Zenon DEF CpuAt, AtSched
  <2>q. QED  BY <1>0, <1>a, <1>c, <1>33, <2>0, <2>1, Zenon DEF SlotHere, AtSched, Saved, PLocs, Tick
<1>34. ASSUME NEW t \in Thread, TickWake(c, t) PROVE SlotHere(c, q)'
  <2>1. state'[q] = state[q] \/ (state[q] = "SLEEPING" /\ state'[q] = "RUNNABLE")
    BY <1>0, <1>34, Zenon DEF TickWake, Woken
  <2>2. UNCHANGED <<pc, on, proc, kstack>> /\ ipc' = [ipc EXCEPT ![t] = "tail"]
    BY <1>34, Zenon DEF TickWake
  <2>3. on[c] = t /\ ipc[t] = "tickw"
    BY <1>34, Zenon DEF TickWake
  <2>4. q = t => state[q] = "RUNNING"
    BY <1>0, <2>3, Zenon DEF CpuAt, AtSched
  <2>q. QED  BY <1>0, <1>a, <1>c, <2>1, <2>2, <2>3, <2>4, Zenon DEF SlotHere, AtSched, Saved
<1>35. ASSUME NEW t \in Thread, Iret(c, t) PROVE SlotHere(c, q)'
  <2>0. ipc[t] \notin {"none", "ysched"} /\ pc[t] \notin PLocs /\ on[c] = t
    BY <1>35, Zenon DEF IInv, ThreadInv, Iret
  <2>1. q = t => state[q] = "RUNNING"
    BY <1>0, <2>0, Zenon DEF CpuAt, AtSched
  <2>q. QED  BY <1>0, <1>a, <1>c, <1>35, <2>0, <2>1, Zenon DEF SlotHere, AtSched, Saved, PLocs, Iret
<1>36. ASSUME NEW p \in Slot, SleepTest(c, p) PROVE SlotHere(c, q)'
  BY <1>0, <1>a, <1>b, <1>c, <1>36, Zenon DEF CpuAt, SlotHere, AtSched, Saved, SleepTest
<1>q. QED
  BY Zenon, <1>1, <1>2, <1>3, <1>4, <1>5, <1>6, <1>7, <1>8, <1>9, <1>10, <1>11, <1>12,
     <1>13, <1>14, <1>15, <1>16, <1>17, <1>18, <1>19, <1>20, <1>21, <1>22, <1>23, <1>24,
     <1>25, <1>26, <1>27, <1>28, <1>29, <1>30, <1>31, <1>32, <1>33, <1>34, <1>35, <1>36
  DEF Step, SchedulerStep, SyscallStep, ForkStep, SleepStep, YieldStep, UserStep, IrqStep

-----------------------------------------------------------------------------
(* The machine starts in the invariant: userinit() has made init RUNNABLE. *)
LEMMA InitInv == Init => IInv
<1>. SUFFICES ASSUME Init PROVE IInv
  OBVIOUS
<1>0. /\ CPU \subseteq Thread /\ Slot \subseteq Thread /\ \A c \in CPU : c \notin Slot
      /\ initproc \in Slot /\ NoCPU \notin CPU /\ NoProc \notin Slot
  BY ProcAssumption DEF Thread, Slot, initproc
<1>1. TypeOK
  BY <1>0 DEF Init, TypeOK, States, PC, IPC, Chan, Thread
<1>2. /\ \A c \in CPU : on[c] = c /\ pc[c] = "idle" /\ ipc[c] = "none" /\ ~flagIF[c]
      /\ \A c \in CPU : proc[c] = NoProc /\ cr3[c] = NoProc
      /\ plock = NoCPU /\ tlock = NoCPU
  BY <1>0, Zenon DEF Init
<1>3. \A p \in Slot : /\ ipc[p] = "none" /\ (p = initproc => kstack[p])
                      /\ pc[p] = IF p = initproc THEN "forkret" ELSE "none"
                      /\ state[p] = IF p = initproc THEN "RUNNABLE" ELSE "UNUSED"
                      /\ pid[p] = IF p = initproc THEN 1 ELSE 0
  BY <1>0, Zenon DEF Init
<1>4. LockInv
  BY <1>0, <1>2, Zenon DEF LockInv, LockAt, HoldsP, HoldsT, PLocs, TLocs
<1>5. ThreadInv
  BY <1>2, <1>3 DEF ThreadInv, SchedPC, PLocs, TLocs, Thread
<1>6. CpuInv /\ ProcInv
  BY <1>0, <1>2 DEF CpuInv, CpuAt, ProcInv
<1>7. SlotInv
  BY <1>3 DEF SlotInv, SlotAt, Saved, AtSched
<1>8. ForkInv
  BY <1>3 DEF ForkInv, InFork
<1>9. MaskInv
  BY <1>0, <1>2, <1>3 DEF MaskInv, MaskAt, SavedAt
<1>10. PidInv
  <2>1. nextpid = 2
    BY DEF Init
  <2>q. QED  BY <1>3, <2>1 DEF PidInv, PidUnique
<1>11. NoPanic
  BY DEF Init, NoPanic
<1>q. QED  BY <1>1, <1>4, <1>5, <1>6, <1>7, <1>8, <1>9, <1>10, <1>11 DEF IInv

(* Every step of every processor keeps the invariant.                      *)
LEMMA NextInv == IInv /\ [Next]_vars => IInv'
<1>. SUFFICES ASSUME IInv, [Next]_vars PROVE IInv'
  OBVIOUS
<1>1. ASSUME NEW c \in CPU, Step(c) PROVE IInv'
  <2>1. \A d \in CPU \ {c} : Untouched(d)
    BY <1>1, OthersStep
  <2>2. \A d \in CPU \ {c} : LockAt(d)' /\ MaskAt(d)' /\ CpuAt(d)'
    BY <2>1, OthersInv
  <2>3. LockAt(c)' /\ MaskAt(c)' /\ CpuAt(c)'
    BY <1>1, LockHere, MaskHere, CpuHere
  <2>4. LockInv'
    BY <2>2, <2>3 DEF LockInv
  <2>5. CpuInv'
    BY <2>2, <2>3 DEF CpuInv
  <2>6. MaskInv'
    BY <1>1, <2>2, <2>3, SavedStep DEF MaskInv
  <2>7. SlotInv'
    <3>1. ASSUME NEW q \in Slot PROVE SlotAt(q)'
      <4>1. CASE \E d \in CPU \ {c} : proc[d] = q
        BY <2>1, <4>1, OthersSlot
      <4>2. CASE \A d \in CPU \ {c} : proc[d] # q
        <5>1. SlotHere(c, q)'
          BY <1>1, <4>2, SlotStep
        <5>q. QED  BY <5>1 DEF SlotHere, SlotAt
      <4>q. QED  BY <4>1, <4>2
    <3>q. QED  BY <3>1 DEF SlotInv
  <2>8. TypeOK' /\ ThreadInv' /\ ProcInv' /\ ForkInv' /\ PidInv' /\ NoPanic'
    BY <1>1, TypeStep, ThreadStep, ProcStep, ForkStepInv, PidStep, PanicStep
  <2>q. QED  BY <2>4, <2>5, <2>6, <2>7, <2>8 DEF IInv
<1>2. CASE UNCHANGED vars
  <2>. USE <1>2 DEF vars, IInv
  <2>1. TypeOK'
    BY DEF TypeOK
  <2>2. LockInv' /\ ThreadInv'
    BY DEF LockInv, LockAt, HoldsP, HoldsT, ThreadInv
  <2>3. CpuInv' /\ ProcInv'
    BY DEF CpuInv, CpuAt, ProcInv, AtSched, Saved
  <2>4. SlotInv'
    BY DEF SlotInv, SlotAt, AtSched, Saved
  <2>5. ForkInv'
    BY DEF ForkInv, InFork
  <2>6. MaskInv'
    BY DEF MaskInv, MaskAt, SavedAt
  <2>7. PidInv' /\ NoPanic'
    BY Zenon DEF PidInv, PidUnique, NoPanic
  <2>q. QED  BY <2>1, <2>2, <2>3, <2>4, <2>5, <2>6, <2>7
<1>q. QED  BY <1>1, <1>2 DEF Next, Halted

(* What the invariant says about the stacks, outside temporal logic.       *)
LEMMA StackSafeInv == IInv => StackSafe
<1>. SUFFICES ASSUME IInv PROVE StackSafe
  OBVIOUS
<1>1. \A c, d \in CPU : c # d => on[c] # on[d]
  BY OnDistinct
<1>2. \A c \in CPU : on[c] \in Slot => kstack[on[c]]
  BY Here DEF IInv, SlotInv, SlotAt
<1>3. ASSUME NEW c \in CPU, cr3[c] # NoProc PROVE kstack[cr3[c]]
  <2>1. pc[c] \in {"swtch", "back"}
    BY <1>3 DEF IInv, CpuInv, CpuAt, ThreadInv, SchedPC
  <2>2. cr3[c] \in Slot /\ state[cr3[c]] \notin {"UNUSED", "EMBRYO"}
    BY <2>1 DEF IInv, CpuInv, CpuAt
  <2>q. QED  BY <2>2 DEF IInv, SlotInv, SlotAt
<1>q. QED  BY <1>1, <1>2, <1>3 DEF StackSafe

(* What it says about RUNNING.                                             *)
LEMMA RunningExactInv == IInv => RunningExact
<1>. SUFFICES ASSUME IInv, plock = NoCPU PROVE
         /\ \A p \in Slot : state[p] = "RUNNING" <=> \E c \in CPU : on[c] = p
         /\ \A c \in CPU : on[c] \in Slot => proc[c] = on[c] /\ cr3[c] = on[c]
         /\ \A c \in CPU : on[c] = c => proc[c] = NoProc /\ cr3[c] = NoProc
  BY DEF RunningExact
<1>0. NoCPU \notin CPU /\ NoProc \notin Slot
  BY ProcAssumption
<1>1. \A c \in CPU : proc[c] # NoProc => on[c] = proc[c] /\ state[proc[c]] = "RUNNING"
  BY <1>0, Elsewhere
<1>2. \A c \in CPU : on[c] \in Slot => proc[c] = on[c] /\ cr3[c] = on[c]
  BY Here
<1>3. \A p \in Slot : state[p] = "RUNNING" <=> \E c \in CPU : on[c] = p
  <2>1. \A p \in Slot : state[p] = "RUNNING" => \E c \in CPU : proc[c] = p
    BY DEF IInv, SlotInv, SlotAt
  <2>q. QED  BY <1>0, <1>1, <1>2, <2>1
<1>4. ASSUME NEW c \in CPU, on[c] = c PROVE proc[c] = NoProc /\ cr3[c] = NoProc
  <2>1. c \notin Slot
    BY ProcAssumption DEF Slot
  <2>2. proc[c] = NoProc
    BY <1>0, <1>1, <1>4, <2>1 DEF IInv, TypeOK
  <2>3. pc[c] \in {"idle", "scan"}
    BY <1>0, <2>2 DEF IInv, CpuInv, CpuAt, ThreadInv, SchedPC
  <2>q. QED  BY <2>2, <2>3 DEF IInv, CpuInv, CpuAt
<1>q. QED  BY <1>2, <1>3, <1>4

(* IInv is an invariant of the process table and the context switch.       *)
THEOREM Invariance == Spec => []IInv
<1>1. Init => IInv
  BY InitInv
<1>2. IInv /\ [Next]_vars => IInv'
  BY NextInv
<1>q. QED  BY <1>1, <1>2, PTL DEF Spec

(* For any number of processors and slots: no two processors ever run on   *)
(* the same kernel stack, and none on a stack or with a page table that    *)
(* wait() or a failed fork() has freed.                                    *)
THEOREM StackSafeHolds == Spec => []StackSafe
<1>1. IInv => StackSafe
  BY StackSafeInv
<1>q. QED  BY <1>1, Invariance, PTL

(* No panic of sched(), scheduler(), release() or switchuvm() is reachable. *)
THEOREM NoPanicHolds == Spec => []NoPanic
<1>1. IInv => NoPanic
  BY DEF IInv
<1>q. QED  BY <1>1, Invariance, PTL

(* With ptable.lock free, RUNNING means: on exactly one processor, with    *)
(* proc and cr3 agreeing.                                                  *)
THEOREM RunningExactHolds == Spec => []RunningExact
<1>1. IInv => RunningExact
  BY RunningExactInv
<1>q. QED  BY <1>1, Invariance, PTL

(* A handler runs with interrupts off to its end, and a system call ends   *)
(* with interrupts on, whichever processor it resumes on.                  *)
THEOREM InterruptsKeptHolds == Spec => []InterruptsKept
<1>1. IInv => InterruptsKept
  BY DEF IInv, MaskInv, MaskAt, InterruptsKept, OpenLocs
<1>q. QED  BY <1>1, Invariance, PTL

(* Two slots in use never have the same pid, as long as nextpid does not   *)
(* wrap around (it is unbounded here).                                     *)
THEOREM PidUniqueHolds == Spec => []PidUnique
<1>1. IInv => PidUnique
  BY DEF IInv, PidInv
<1>q. QED  BY <1>1, Invariance, PTL

-----------------------------------------------------------------------------
Living == {"SLEEPING", "RUNNABLE", "RUNNING"}

(* Who is whose child.  A free slot has no parent, and the slot of a       *)
(* fork() in progress gets the forking process as its parent.              *)
FamilyInv ==
  /\ state[initproc] \in Living /\ parent[initproc] = NoProc
  /\ \A p \in Slot :
       /\ parent[p] # NoProc => state[parent[p]] \in Living /\ parent[p] # p
       /\ state[p] = "UNUSED" => parent[p] = NoProc
       /\ p # initproc /\ state[p] \notin {"UNUSED", "EMBRYO"} => parent[p] # NoProc
       /\ pc[p] \in {"fkalloc", "fcopy"} => parent[np[p]] = NoProc
       /\ pc[p] = "fready" => parent[np[p]] = p

(* Why a process sleeps in wait(), from its test to its wakeup.            *)
WaitLocs == {"wsched", "wresume"}
WaitAt(p) ==
  state[p] = "SLEEPING" /\ pc[p] \in WaitLocs =>
    chan[p] = p /\ Children(p) # {} /\ Zombies(p) = {} /\ ~killed[p]
WaitInv == \A p \in Slot : WaitAt(p)

(* Why a process sleeps in sys_sleep(): its time is not over, or the clock *)
(* interrupt that ended it has yet to call wakeup(&ticks).                 *)
SleepLocs == {"ssched", "sresume"}
Ticking == \E c \in CPU : ipc[on[c]] = "tickw"
SleepAt(p) ==
  /\ pc[p] \in {"sgo", "slock"} => left[p] > 0
  /\ state[p] = "SLEEPING" /\ pc[p] \in SleepLocs =>
       chan[p] = TICKS /\ (left[p] > 0 \/ Ticking)
SleepInv == \A p \in Slot : SleepAt(p)

FInv == FamilyInv /\ WaitInv /\ SleepInv
-----------------------------------------------------------------------------
(* The steps that make or end a family tie or a sleep.                     *)
Loud(c) ==
  \/ \E p \in Slot :
       \/ AllocProc(c, p) \/ AllocStack(c, p) \/ ForkFails(c, p) \/ ForkCopy(c, p)
       \/ ForkReady(c, p) \/ Exit(c, p) \/ Reap(c, p) \/ WaitSleep(c, p)
       \/ SleepTest(c, p) \/ SleepLock(c, p) \/ SleepGo(c, p)
  \/ \E t \in Thread : Tick(c, t) \/ TickWake(c, t)

(* What all the others may do to a slot: schedule it, wake it, or move it  *)
(* between places that the invariants do not speak of.                     *)
Watched == {"fkalloc", "fcopy", "fready", "wsched", "wresume", "sgo", "slock", "ssched",
            "sresume"}
StateStill(q) ==
  \/ state'[q] = state[q]
  \/ state[q] \in Living /\ state'[q] \in {"RUNNABLE", "RUNNING"}
PcStill(q) ==
  \/ pc'[q] = pc[q]
  \/ pc'[q] \notin Watched
  \/ pc[q] = "wsched" /\ pc'[q] = "wresume"
  \/ pc[q] = "ssched" /\ pc'[q] = "sresume"
Still(q) ==
  /\ StateStill(q) /\ PcStill(q)
  /\ state'[q] = "SLEEPING" => chan'[q] = chan[q] /\ killed'[q] = killed[q]
  /\ left'[q] = left[q] \/ pc'[q] \notin Watched
AllStill == UNCHANGED <<parent, np>> /\ \A q \in Slot : Still(q)

(* A process that runs, other than on its way into sched(), is RUNNING.    *)
LEMMA HereRunning ==
  ASSUME IInv, NEW c \in CPU, NEW p \in Slot, on[c] = p, ~AtSched(p)
  PROVE  state[p] = "RUNNING"
  BY Zenon DEF IInv, CpuInv, CpuAt

(* Only wakeup(&ticks) ends a clock interrupt's hold of tickslock.         *)
LEMMA TickingKept ==
  ASSUME IInv, NEW c \in CPU, Step(c), ipc[on[c]] # "tickw", Ticking
  PROVE  Ticking'
<1>1. PICK d \in CPU : ipc[on[d]] = "tickw"
  BY Zenon DEF Ticking
<1>2. d # c
  BY <1>1, Zenon
<1>3. Untouched(d)
  BY <1>2, OthersStep, Zenon
<1>4. on[d] = d \/ (on[d] = proc[d] /\ proc[d] # NoProc)
  <2>1. on[d] \in Slot \union {d}
    BY Zenon DEF IInv, LockInv, LockAt
  <2>2. on[d] \in Slot => on[d] = proc[d]
    BY Here, Zenon
  <2>q. QED  BY <2>1, <2>2, ProcAssumption, Zenon
<1>5. on'[d] = on[d] /\ ipc'[on[d]] = ipc[on[d]]
  BY <1>3, <1>4, Zenon DEF Untouched
<1>q. QED  BY <1>1, <1>5, Zenon DEF Ticking

(* Every other step leaves families and sleepers alone.                    *)
LEMMA QuietStep ==
  ASSUME IInv, NEW c \in CPU, Step(c), ~Loud(c)
  PROVE  AllStill /\ (Ticking => Ticking')
<1>. USE DEF Goto, GotoIrq, At, AtIrq, Runs, tableVars, cpuVars, threadVars
<1>0. /\ state \in [Slot -> States] /\ parent \in [Slot -> Slot \union {NoProc}]
      /\ chan \in [Slot -> Chan] /\ killed \in [Slot -> BOOLEAN]
      /\ pc \in [Thread -> PC] /\ ipc \in [Thread -> IPC]
      /\ np \in [Slot -> Slot \union {NoProc}] /\ left \in [Slot -> Nat]
  BY Zenon DEF IInv, TypeOK
<1>a. c \in Thread /\ Slot \subseteq Thread /\ c \notin Slot
  BY ProcAssumption, Zenon DEF Thread
<1> DEFINE Goal == AllStill /\ ipc[on[c]] # "tickw"
<1>1. ASSUME Sti(c) PROVE Goal
  BY <1>0, <1>a, <1>1, Zenon DEF AllStill, Still, StateStill, PcStill, Watched, Sti
<1>2. ASSUME ScanNone(c) PROVE Goal
  BY <1>0, <1>a, <1>2, Zenon DEF AllStill, Still, StateStill, PcStill, Watched, ScanNone
<1>3. ASSUME SwtchTo(c) PROVE Goal
  BY <1>0, <1>a, <1>3, Zenon DEF AllStill, Still, StateStill, PcStill, Watched, SwtchTo
<1>4. ASSUME Back(c) PROVE Goal
  BY <1>0, <1>a, <1>4, Zenon DEF AllStill, Still, StateStill, PcStill, Watched, Back
<1>5. ASSUME NEW p \in Slot, Dispatch(c, p) PROVE Goal
  BY <1>0, <1>a, <1>5, Zenon DEF AllStill, Still, StateStill, PcStill, Watched, Living,
     Dispatch
<1>6. ASSUME NEW p \in Slot, Forkret(c, p) PROVE Goal
  BY <1>0, <1>a, <1>6, Zenon DEF AllStill, Still, StateStill, PcStill, Watched, Forkret
<1>7. ASSUME NEW p \in Slot, SyscallExit(c, p) PROVE Goal
  BY <1>0, <1>a, <1>7, Zenon DEF AllStill, Still, StateStill, PcStill, Watched, SyscallExit
<1>8. ASSUME NEW p \in Slot, AllocProcFull(c, p) PROVE Goal
  BY <1>0, <1>a, <1>8, Zenon DEF AllStill, Still, StateStill, PcStill, Watched, AllocProcFull
<1>9. ASSUME NEW p \in Slot, InitExits(c, p) PROVE Goal
  BY <1>0, <1>a, <1>9, Zenon DEF AllStill, Still, StateStill, PcStill, Watched, InitExits
<1>10. ASSUME NEW p \in Slot, WaitFails(c, p) PROVE Goal
  <2>1. on[c] = p /\ ipc[p] = "none" /\ pc[p] \in {"wait", "wresume"}
    BY <1>10, WaitReturnsEffect, Zenon DEF WaitFails
  <2>2. state[p] = "RUNNING"
    BY <2>1, HereRunning, Zenon DEF AtSched
  <2>3. /\ UNCHANGED <<state, parent, killed, np, left>>
        /\ pc' = [pc EXCEPT ![p] = "sysret"] /\ chan' = [chan EXCEPT ![p] = NoChan]
    BY <1>10, Zenon DEF WaitFails
  <2>q. QED  BY <1>0, <1>a, <2>1, <2>2, <2>3, Zenon DEF AllStill, Still, StateStill,
     PcStill, Watched
<1>11. ASSUME NEW p \in Slot, Kill(c, p) PROVE Goal
  <2>1. /\ on[c] = p /\ ipc[p] = "none" /\ pc' = [pc EXCEPT ![p] = "sysret"]
        /\ UNCHANGED <<parent, chan, np, left>>
    BY <1>11, KillEffect, Zenon DEF Runs
  <2>2. PICK q \in Slot : \/ UNCHANGED <<killed, state>>
                          \/ /\ killed' = [killed EXCEPT ![q] = TRUE]
                             /\ state' = [state EXCEPT ![q] = KillState(state[q])]
    BY <1>11, KillEffect, Zenon
  <2>3. \A r \in Slot : /\ StateStill(r)
                        /\ state'[r] = "SLEEPING" => killed'[r] = killed[r]
    BY <1>0, <2>2, Zenon DEF StateStill, KillState, Living
  <2>4. \A r \in Slot : PcStill(r)
    BY <1>0, <1>a, <2>1, Zenon DEF PcStill, Watched
  <2>5. \A r \in Slot : Still(r)
    BY <2>1, <2>3, <2>4 DEF Still
  <2>6. ipc[on[c]] # "tickw"
    BY <2>1, Zenon
  <2>q. QED  BY <2>1, <2>5, <2>6, Zenon DEF AllStill
<1>12. ASSUME NEW p \in Slot, SleepStart(c, p) PROVE Goal
  BY <1>0, <1>a, <1>12, Zenon DEF AllStill, Still, StateStill, PcStill, Watched, SleepStart
<1>13. ASSUME NEW p \in Slot, SleepDone(c, p) PROVE Goal
  BY <1>0, <1>a, <1>13, Zenon DEF AllStill, Still, StateStill, PcStill, Watched, SleepDone
<1>14. ASSUME NEW p \in Slot, SleepResume(c, p) PROVE Goal
  <2>1. state[p] = "RUNNING"
    BY <1>14, HereRunning, Zenon DEF SleepResume, AtSched
  <2>q. QED  BY <1>0, <1>a, <1>14, <2>1, Zenon DEF AllStill, Still, StateStill, PcStill,
     Watched,
                SleepResume
<1>15. ASSUME NEW p \in Slot, SleepRelock(c, p) PROVE Goal
  BY <1>0, <1>a, <1>15, Zenon DEF AllStill, Still, StateStill, PcStill, Watched, SleepRelock
<1>16. ASSUME NEW p \in Slot, Sched(c, p) PROVE Goal
  <2>1. on[c] = p /\ UNCHANGED <<state, parent, chan, killed, np, left>>
    BY <1>16, SchedEffect, Zenon
  <2>2. ipc[p] # "tickw" /\ \A q \in Slot : PcStill(q)
    BY <1>a, <1>16, SchedMove, Zenon DEF PcStill, Watched
  <2>q. QED  BY <2>1, <2>2, Zenon DEF AllStill, Still, StateStill
<1>17. ASSUME NEW p \in Slot, IrqExit(c, p) PROVE Goal
  BY <1>0, <1>a, <1>17, Zenon DEF AllStill, Still, StateStill, PcStill, Watched, IrqExit
<1>18. ASSUME NEW p \in Slot, Yield(c, p) PROVE Goal
  BY <1>0, <1>a, <1>18, Zenon DEF AllStill, Still, StateStill, PcStill, Watched, Living, Yield
<1>19. ASSUME NEW p \in Slot, YieldResume(c, p) PROVE Goal
  BY <1>0, <1>a, <1>19, Zenon DEF AllStill, Still, StateStill, PcStill, Watched, YieldResume
<1>20. ASSUME NEW p \in Slot, Fault(c, p) PROVE Goal
  <2>1. state[p] = "RUNNING"
    BY <1>20, HereRunning, Zenon DEF Fault, AtSched
  <2>q. QED  BY <1>0, <1>a, <1>20, <2>1, Zenon DEF AllStill, Still, StateStill, PcStill,
     Watched,
                Fault
<1>21. ASSUME NEW p \in Slot, NEW call \in Syscalls, SyscallEntry(c, p, call) PROVE Goal
  <2>1. call \in SyscallNames
    BY ProcAssumption, Zenon
  <2>2. (IF killed[p] THEN "exit" ELSE call) \notin Watched
    BY <2>1, Zenon DEF SyscallNames, Watched
  <2>q. QED  BY <1>0, <1>a, <1>21, <2>2, Zenon DEF AllStill, Still, StateStill, PcStill,
     SyscallEntry
<1>22. ASSUME NEW t \in Thread, Interrupt(c, t) PROVE Goal
  BY <1>0, <1>a, <1>22, Zenon DEF AllStill, Still, StateStill, PcStill, Watched, Interrupt
<1>23. ASSUME NEW t \in Thread, Iret(c, t) PROVE Goal
  BY <1>0, <1>a, <1>23, Zenon DEF AllStill, Still, StateStill, PcStill, Watched, Iret
<1>t. Goal
  BY <1>1, <1>2, <1>3, <1>4, <1>5, <1>6, <1>7, <1>8, <1>9, <1>10, <1>11, <1>12, <1>13,
     <1>14, <1>15, <1>16, <1>17, <1>18, <1>19, <1>20, <1>21, <1>22, <1>23, Zenon
  DEF Loud, Step, SchedulerStep, SyscallStep, ForkStep, SleepStep, YieldStep, UserStep, IrqStep
<1>q. QED  BY <1>t, TickingKept, Zenon

-----------------------------------------------------------------------------
(* A step that only schedules, wakes or puts to sleep keeps the families.  *)
LEMMA FamilyKept ==
  ASSUME FamilyInv, UNCHANGED <<parent, np>>,
         \A q \in Slot : state'[q] = state[q] \/ (state[q] \in Living /\ state'[q] \in Living),
         \A q \in Slot : pc'[q] \in {"fkalloc", "fcopy", "fready"} => pc'[q] = pc[q],
         parent \in [Slot -> Slot \union {NoProc}]
  PROVE  FamilyInv'
<1>1. initproc \in Slot
  BY ProcAssumption DEF initproc, Slot
<1>2. \A q \in Slot : state[q] \in Living => state'[q] \in Living
  BY Zenon DEF Living
<1>3. \A q \in Slot : /\ state'[q] = "UNUSED" => state[q] = "UNUSED"
                      /\ state'[q] \notin {"UNUSED", "EMBRYO"} => state[q] \notin {"UNUSED", "EMBRYO"}
  BY Zenon DEF Living
<1>q. QED  BY <1>1, <1>2, <1>3 DEF FamilyInv

(* Every step keeps the families.                                          *)
LEMMA FamilyStep ==
  ASSUME IInv, FamilyInv, NEW c \in CPU, Step(c) PROVE FamilyInv'
<1>. USE DEF Goto, GotoIrq, At, AtIrq, Runs
<1>0. /\ state \in [Slot -> States] /\ parent \in [Slot -> Slot \union {NoProc}]
      /\ pc \in [Thread -> PC] /\ np \in [Slot -> Slot \union {NoProc}]
  BY Zenon DEF IInv, TypeOK
<1>a. Slot \subseteq Thread /\ NoProc \notin Slot /\ initproc \in Slot
  BY ProcAssumption DEF Thread, initproc, Slot
<1>b. \A p \in Slot : on[c] = p /\ ~AtSched(p) => state[p] \in Living
  BY HereRunning, Zenon DEF Living
<1>c. /\ \A p \in Slot : InFork(p) => np[p] \in Slot /\ state[np[p]] = "EMBRYO"
      /\ \A p, q \in Slot : InFork(p) /\ InFork(q) /\ p # q => np[p] # np[q]
  BY Zenon DEF IInv, ForkInv
<1>1. CASE ~Loud(c)
  <2>1. AllStill
    BY <1>1, QuietStep, Zenon
  <2>2. \A q \in Slot : state'[q] = state[q] \/ (state[q] \in Living /\ state'[q] \in Living)
    BY <2>1, Zenon DEF AllStill, Still, StateStill, Living
  <2>3. \A q \in Slot : pc'[q] \in {"fkalloc", "fcopy", "fready"} => pc'[q] = pc[q]
    BY <2>1, Zenon DEF AllStill, Still, PcStill, Watched
  <2>q. QED  BY <1>0, <2>1, <2>2, <2>3, FamilyKept, Zenon DEF AllStill
<1>2. ASSUME NEW p \in Slot, AllocProc(c, p) PROVE FamilyInv'
  <2>1. pc' = [pc EXCEPT ![p] = "fkalloc"] /\ parent' = parent
    BY <1>2, AllocProcEffect, Zenon
  <2>2. PICK s \in Slot : /\ state[s] = "UNUSED" /\ state' = [state EXCEPT ![s] = "EMBRYO"]
                          /\ np' = [np EXCEPT ![p] = s]
    BY <1>2, AllocProcEffect
  <2>3. \A q \in Slot : state[q] \in Living <=> state'[q] \in Living
    BY <1>0, <2>2, Zenon DEF Living
  <2>4. parent[s] = NoProc
    BY <2>2, Zenon DEF FamilyInv
  <2>q. QED  BY <1>0, <1>a, <2>1, <2>2, <2>3, <2>4, Zenon DEF FamilyInv
<1>3. ASSUME NEW p \in Slot, AllocStack(c, p) PROVE FamilyInv'
  <2>1. InFork(p) /\ np[p] \in Slot /\ np[p] # p
    BY <1>b, <1>c, <1>3, Zenon DEF AllocStack, InFork, AtSched, Living
  <2>2. /\ UNCHANGED <<state, parent, np>>
        /\ pc' = [pc EXCEPT ![p] = "fcopy", ![np[p]] = "forkret"] /\ pc[p] = "fkalloc"
    BY <1>3, Zenon DEF AllocStack
  <2>3. \A q \in Slot : pc'[q] = pc[q] \/ q = p \/ pc'[q] = "forkret"
    BY <1>0, <1>a, <2>1, <2>2, Zenon
  <2>4. pc'[p] = "fcopy"
    BY <1>0, <1>a, <2>1, <2>2, Zenon
  <2>5. \A q \in Slot : state[q] \in Living <=> state'[q] \in Living
    BY <2>2, Zenon DEF Living
  <2>q. QED  BY <1>0, <1>a, <2>2, <2>3, <2>4, <2>5 DEF FamilyInv
<1>4. ASSUME NEW p \in Slot, ForkFails(c, p) PROVE FamilyInv'
  <2>1. /\ InFork(p) /\ np[p] \in Slot /\ np[p] # p /\ state[np[p]] \notin Living
        /\ state[np[p]] = "EMBRYO"
    BY <1>b, <1>c, <1>4, Zenon DEF ForkFails, InFork, AtSched, Living
  <2>2. parent[np[p]] = NoProc
    BY <1>4, Zenon DEF ForkFails, FamilyInv
  <2>3. /\ state' = [state EXCEPT ![np[p]] = "UNUSED"] /\ np' = [np EXCEPT ![p] = NoProc]
        /\ pc' = [pc EXCEPT ![p] = "sysret", ![np[p]] = "none"] /\ parent' = parent
    BY <1>4, Zenon DEF ForkFails
  <2>4. \A q \in Slot : state[q] \in Living <=> state'[q] \in Living
    BY <1>0, <2>1, <2>3, Zenon DEF Living
  <2>5. \A q \in Slot : (pc'[q] = pc[q] /\ np'[q] = np[q]) \/ pc'[q] \in {"sysret", "none"}
    BY <1>0, <1>a, <2>1, <2>3, Zenon
  <2>6. \A q \in Slot : state'[q] = state[q] \/ (state'[q] = "UNUSED" /\ parent'[q] = NoProc)
    BY <1>0, <2>1, <2>2, <2>3, Zenon
  <2>q. QED  BY <1>0, <1>a, <2>3, <2>4, <2>5, <2>6 DEF FamilyInv
<1>5. ASSUME NEW p \in Slot, ForkCopy(c, p) PROVE FamilyInv'
  <2>1. /\ InFork(p) /\ np[p] \in Slot /\ state[p] \in Living /\ state[np[p]] = "EMBRYO"
    BY <1>b, <1>c, <1>5, Zenon DEF ForkCopy, InFork, AtSched
  <2>2. np[p] # p /\ np[p] # initproc
    BY <2>1, Zenon DEF Living, FamilyInv
  <2>3. /\ parent' = [parent EXCEPT ![np[p]] = p] /\ UNCHANGED <<state, np>>
        /\ pc' = [pc EXCEPT ![p] = "fready"]
    BY <1>5, Zenon DEF ForkCopy
  <2>4. \A q \in Slot : state[q] \in Living <=> state'[q] \in Living
    BY <2>3, Zenon DEF Living
  <2>5. \A q \in Slot \ {p} : InFork(q) => parent'[np[q]] = parent[np[q]]
    BY <1>0, <1>c, <2>1, <2>3, Zenon
  <2>6. \A q \in Slot \ {p} : pc'[q] = pc[q] /\ np'[q] = np[q]
    BY <1>0, <1>a, <2>3, Zenon
  <2>7. \A q \in Slot \ {np[p]} : parent'[q] = parent[q]
    BY <1>0, <2>3, Zenon
  <2>8. pc'[p] = "fready" /\ parent'[np'[p]] = p /\ parent'[np[p]] = p
    BY <1>0, <1>a, <2>1, <2>3, Zenon
  <2>9. state'[initproc] \in Living /\ parent'[initproc] = NoProc
    BY <1>a, <2>2, <2>4, <2>7, Zenon DEF FamilyInv
  <2>10. \A q \in Slot : /\ parent'[q] # NoProc => state'[parent'[q]] \in Living /\ parent'[q] # q
                         /\ state'[q] = "UNUSED" => parent'[q] = NoProc
                         /\ q # initproc /\ state'[q] \notin {"UNUSED", "EMBRYO"}
                              => parent'[q] # NoProc
    <3>. TAKE q \in Slot
    <3>1. CASE q = np[p]
      BY <2>1, <2>2, <2>3, <2>4, <2>8, <3>1, Zenon
    <3>2. CASE q # np[p]
      BY <1>0, <2>3, <2>4, <2>7, <3>2, Zenon DEF FamilyInv
    <3>q. QED  BY <3>1, <3>2, Zenon
  <2>11. \A q \in Slot : /\ pc'[q] \in {"fkalloc", "fcopy"} => parent'[np'[q]] = NoProc
                         /\ pc'[q] = "fready" => parent'[np'[q]] = q
    BY <2>5, <2>6, <2>8 DEF FamilyInv, InFork
  <2>q. QED  BY <2>9, <2>10, <2>11 DEF FamilyInv, Living
<1>6. ASSUME NEW p \in Slot, ForkReady(c, p) PROVE FamilyInv'
  <2>1. InFork(p) /\ np[p] \in Slot /\ state[np[p]] = "EMBRYO" /\ parent[np[p]] = p
    BY <1>c, <1>6, Zenon DEF ForkReady, InFork, FamilyInv
  <2>2. /\ state' = [state EXCEPT ![np[p]] = "RUNNABLE"] /\ np' = [np EXCEPT ![p] = NoProc]
        /\ pc' = [pc EXCEPT ![p] = "sysret"] /\ parent' = parent
    BY <1>6, Zenon DEF ForkReady
  <2>3. \A q \in Slot : state[q] \in Living => state'[q] \in Living
    BY <1>0, <2>1, <2>2, Zenon DEF Living
  <2>4. \A q \in Slot : (pc'[q] = pc[q] /\ np'[q] = np[q]) \/ pc'[q] = "sysret"
    BY <1>0, <1>a, <2>2, Zenon
  <2>5. \A q \in Slot : state'[q] = state[q] \/ (state'[q] = "RUNNABLE" /\ parent'[q] # NoProc)
    BY <1>0, <1>a, <2>1, <2>2, Zenon
  <2>q. QED  BY <1>0, <1>a, <2>2, <2>3, <2>4, <2>5 DEF FamilyInv
<1>7. ASSUME NEW p \in Slot, Exit(c, p) PROVE FamilyInv'
  <2>1. /\ p # initproc /\ pc[p] = "exit" /\ UNCHANGED np
        /\ pc' = [pc EXCEPT ![p] = "zsched"]
        /\ parent' = [q \in Slot |-> IF parent[q] = p THEN initproc ELSE parent[q]]
    BY <1>7, Zenon DEF Exit, Heir
  <2>2. state[p] \in Living
    BY <1>b, <1>7, Zenon DEF Exit, AtSched
  <2>3. \A q \in Slot \ {p} : state'[q] = state[q] \/ (state[q] \in Living /\ state'[q] \in Living)
    BY <1>0, <1>7, Zenon DEF Exit, AfterExit, Woken, Living
  <2>4. state'[p] = "ZOMBIE"
    BY <1>0, <1>7, Zenon DEF Exit, AfterExit, Woken
  <2>5. \A q \in Slot \ {p} : state[q] \in Living => state'[q] \in Living
    BY <2>3, Zenon DEF Living
  <2>6. state'[initproc] \in Living /\ parent'[initproc] = NoProc
    BY <1>0, <1>a, <2>1, <2>5, Zenon DEF FamilyInv
  <2>7. \A q \in Slot : parent'[q] # NoProc => state'[parent'[q]] \in Living /\ parent'[q] # q
    <3>. SUFFICES ASSUME NEW q \in Slot, parent'[q] # NoProc
                  PROVE  state'[parent'[q]] \in Living /\ parent'[q] # q
      OBVIOUS
    <3>1. CASE parent[q] = p
      BY <1>a, <2>1, <2>6, <3>1, Zenon
    <3>2. CASE parent[q] # p
      <4>1. parent'[q] = parent[q] /\ parent[q] \in Slot \ {p} /\ state[parent[q]] \in Living
        BY <1>0, <2>1, <3>2, Zenon DEF FamilyInv
      <4>2. state'[parent[q]] \in Living
        BY <2>5, <4>1, Zenon
      <4>q. QED  BY <4>1, <4>2, ZenonT(60) DEF FamilyInv, Living
    <3>q. QED  BY <3>1, <3>2, Zenon
  <2>8. \A q \in Slot : state'[q] = "UNUSED" => parent'[q] = NoProc
    BY <1>a, <2>1, <2>3, <2>4 DEF FamilyInv, Living
  <2>9. \A q \in Slot : q # initproc /\ state'[q] \notin {"UNUSED", "EMBRYO"}
                        => parent'[q] # NoProc
    BY <1>a, <2>1, <2>2, <2>3, <2>4, Zenon DEF FamilyInv, Living
  <2>10. \A q \in Slot : /\ pc'[q] \in {"fkalloc", "fcopy"} => parent'[np'[q]] = NoProc
                         /\ pc'[q] = "fready" => parent'[np'[q]] = q
    <3>. TAKE q \in Slot
    <3>1. InFork(q)' => /\ q # p /\ pc'[q] = pc[q] /\ InFork(q) /\ np[q] \in Slot
      BY <1>0, <1>a, <1>c, <2>1, Zenon DEF InFork
    <3>2. InFork(q)' => parent'[np[q]] = IF parent[np[q]] = p THEN initproc ELSE parent[np[q]]
      BY <2>1, <3>1, Zenon
    <3>q. QED  BY <1>a, <2>1, <3>1, <3>2, Zenon DEF FamilyInv, InFork
  <2>q. QED  BY <2>6, <2>7, <2>8, <2>9, <2>10, Zenon DEF FamilyInv
<1>8. ASSUME NEW p \in Slot, Reap(c, p) PROVE FamilyInv'
  <2>1. UNCHANGED np
    BY <1>8, ReapEffect, Zenon
  <2>2. PICK z \in Slot : /\ state[z] = "ZOMBIE" /\ parent' = [parent EXCEPT ![z] = NoProc]
                          /\ state' = [state EXCEPT ![z] = "UNUSED"]
                          /\ pc' = [pc EXCEPT ![p] = "sysret", ![z] = "none"]
    BY <1>8, ReapEffect, Zenon
  <2>3. \A q \in Slot : state[q] \in Living <=> state'[q] \in Living
    BY <1>0, <2>2, Zenon DEF Living
  <2>4. \A q \in Slot : parent'[q] = IF q = z THEN NoProc ELSE parent[q]
    BY <1>0, <2>2, Zenon
  <2>5. \A q \in Slot : state'[q] = IF q = z THEN "UNUSED" ELSE state[q]
    BY <1>0, <2>2, Zenon
  <2>6. \A q \in Slot : pc'[q] = pc[q] \/ pc'[q] \in {"sysret", "none"}
    BY <1>0, <1>a, <2>2, Zenon
  <2>7. \A q \in Slot : InFork(q) => np[q] # z /\ np[q] \in Slot
    BY <1>c, <2>2, Zenon
  <2>8. \A q \in Slot : /\ pc'[q] \in {"fkalloc", "fcopy"} => parent'[np'[q]] = NoProc
                        /\ pc'[q] = "fready" => parent'[np'[q]] = q
    BY <2>1, <2>4, <2>6, <2>7 DEF FamilyInv, InFork
  <2>9. \A q \in Slot : /\ parent'[q] # NoProc => state'[parent'[q]] \in Living /\ parent'[q] # q
                        /\ state'[q] = "UNUSED" => parent'[q] = NoProc
                        /\ q # initproc /\ state'[q] \notin {"UNUSED", "EMBRYO"}
                             => parent'[q] # NoProc
    <3>. TAKE q \in Slot
    <3>1. CASE q = z
      BY <2>4, <2>5, <3>1, Zenon
    <3>2. CASE q # z
      <4>1. parent'[q] = parent[q] /\ state'[q] = state[q]
        BY <2>4, <2>5, <3>2, Zenon
      <4>2. parent[q] # NoProc => state'[parent[q]] \in Living
        BY <1>0, <2>3 DEF FamilyInv
      <4>q. QED  BY <4>1, <4>2 DEF FamilyInv
    <3>q. QED  BY <3>1, <3>2, Zenon
  <2>10. state'[initproc] \in Living /\ parent'[initproc] = NoProc
    BY <1>a, <2>3, <2>4, Zenon DEF FamilyInv
  <2>q. QED  BY <2>8, <2>9, <2>10, Zenon DEF FamilyInv
<1>9. ASSUME NEW p \in Slot, WaitSleep(c, p) PROVE FamilyInv'
  <2>1. state[p] \in Living
    <3>1. on[c] = p /\ ipc[p] = "none" /\ pc[p] \in {"wait", "wresume"}
      BY <1>9, WaitAgainEffect, Zenon DEF WaitSleep
    <3>q. QED  BY <1>b, <3>1, Zenon DEF AtSched
  <2>2. /\ state' = [state EXCEPT ![p] = "SLEEPING"] /\ UNCHANGED <<parent, np>>
        /\ pc' = [pc EXCEPT ![p] = "wsched"]
    BY <1>9, Zenon DEF WaitSleep
  <2>3. \A q \in Slot : state'[q] = state[q] \/ (state[q] \in Living /\ state'[q] \in Living)
    BY <1>0, <2>1, <2>2, Zenon DEF Living
  <2>4. \A q \in Slot : pc'[q] \in {"fkalloc", "fcopy", "fready"} => pc'[q] = pc[q]
    BY <1>0, <1>a, <2>2, Zenon
  <2>q. QED  BY <1>0, <2>2, <2>3, <2>4, FamilyKept, Zenon
<1>10. ASSUME NEW p \in Slot, SleepTest(c, p) \/ SleepLock(c, p) PROVE FamilyInv'
  <2>1. /\ UNCHANGED <<state, parent, np>>
        /\ \E loc \in {"sgo", "slock"} : pc' = [pc EXCEPT ![p] = loc]
    BY <1>10, Zenon DEF SleepTest, SleepLock, tableVars
  <2>2. \A q \in Slot : pc'[q] \in {"fkalloc", "fcopy", "fready"} => pc'[q] = pc[q]
    BY <1>0, <1>a, <2>1, Zenon
  <2>q. QED  BY <1>0, <2>1, <2>2, FamilyKept, Zenon
<1>11. ASSUME NEW p \in Slot, SleepGo(c, p) PROVE FamilyInv'
  <2>1. state[p] \in Living
    BY <1>b, <1>11, Zenon DEF SleepGo, AtSched
  <2>2. /\ state' = [state EXCEPT ![p] = "SLEEPING"] /\ UNCHANGED <<parent, np>>
        /\ pc' = [pc EXCEPT ![p] = "ssched"]
    BY <1>11, Zenon DEF SleepGo
  <2>3. \A q \in Slot : state'[q] = state[q] \/ (state[q] \in Living /\ state'[q] \in Living)
    BY <1>0, <2>1, <2>2, Zenon DEF Living
  <2>4. \A q \in Slot : pc'[q] \in {"fkalloc", "fcopy", "fready"} => pc'[q] = pc[q]
    BY <1>0, <1>a, <2>2, Zenon
  <2>q. QED  BY <1>0, <2>2, <2>3, <2>4, FamilyKept, Zenon
<1>12. ASSUME NEW t \in Thread, Tick(c, t) \/ TickWake(c, t) PROVE FamilyInv'
  <2>1. UNCHANGED <<parent, np, pc>> /\ (state' = state \/ state' = Woken(state, TICKS))
    BY <1>12, Zenon DEF Tick, TickWake, tableVars
  <2>2. \A q \in Slot : state'[q] = state[q] \/ (state[q] \in Living /\ state'[q] \in Living)
    BY <1>0, <2>1, Zenon DEF Woken, Living
  <2>q. QED  BY <1>0, <2>1, <2>2, FamilyKept, Zenon
<1>q. QED  BY <1>1, <1>2, <1>3, <1>4, <1>5, <1>6, <1>7, <1>8, <1>9, <1>10, <1>11, <1>12, Zenon
           DEF Loud

-----------------------------------------------------------------------------
InWait(q) == state[q] = "SLEEPING" /\ pc[q] \in WaitLocs

(* A sleeper in wait() is left alone by a step that neither touches it nor *)
(* takes a child from it or gives it a zombie.                             *)
LEMMA WaitKept ==
  ASSUME NEW q \in Slot, WaitAt(q),
         InWait(q)' =>
           /\ InWait(q) /\ chan'[q] = chan[q] /\ killed'[q] = killed[q]
           /\ \A r \in Slot : parent[r] = q => parent'[r] = q
           /\ \A r \in Slot : parent'[r] = q /\ state'[r] = "ZOMBIE"
                                => parent[r] = q /\ state[r] = "ZOMBIE"
  PROVE  WaitAt(q)'
<1>. SUFFICES ASSUME InWait(q)'
              PROVE  chan'[q] = q /\ Children(q)' # {} /\ Zombies(q)' = {} /\ ~killed'[q]
  BY Zenon DEF WaitAt, InWait
<1>1. chan[q] = q /\ Children(q) # {} /\ Zombies(q) = {} /\ ~killed[q]
  BY Zenon DEF WaitAt, InWait
<1>2. Children(q)' # {}
  BY <1>1, Zenon DEF Children
<1>3. Zombies(q)' = {}
  BY <1>1, Zenon DEF Children, Zombies
<1>q. QED  BY <1>1, <1>2, <1>3, Zenon

(* Every step keeps the reasons to sleep in wait().                        *)
LEMMA WaitStep ==
  ASSUME IInv, FamilyInv, WaitInv, NEW c \in CPU, Step(c) PROVE WaitInv'
<1>. USE DEF Goto, GotoIrq, At, AtIrq, Runs
<1>0. /\ state \in [Slot -> States] /\ parent \in [Slot -> Slot \union {NoProc}]
      /\ chan \in [Slot -> Chan] /\ killed \in [Slot -> BOOLEAN] /\ pc \in [Thread -> PC]
  BY Zenon DEF IInv, TypeOK
<1>a. Slot \subseteq Thread /\ NoProc \notin Slot /\ initproc \in Slot
  BY ProcAssumption DEF Thread, initproc, Slot
<1>c. \A p \in Slot : InFork(p) => np[p] \in Slot /\ state[np[p]] = "EMBRYO"
  BY Zenon DEF IInv, ForkInv
<1>. SUFFICES ASSUME NEW q \in Slot PROVE WaitAt(q)'
  BY Zenon DEF WaitInv
<1>d. WaitAt(q)
  BY Zenon DEF WaitInv
<1>1. CASE ~Loud(c)
  <2>1. AllStill
    BY <1>1, QuietStep, Zenon
  <2>2. \A r \in Slot : state'[r] = "ZOMBIE" => state[r] = "ZOMBIE"
    BY <2>1, Zenon DEF AllStill, Still, StateStill
  <2>3. InWait(q)' => InWait(q) /\ chan'[q] = chan[q] /\ killed'[q] = killed[q]
    BY <2>1, Zenon DEF AllStill, Still, StateStill, PcStill, Watched, InWait, WaitLocs
  <2>q. QED  BY <1>d, <2>1, <2>2, <2>3, WaitKept, Zenon DEF AllStill
<1>2. ASSUME NEW p \in Slot, AllocProc(c, p) PROVE WaitAt(q)'
  <2>1. pc' = [pc EXCEPT ![p] = "fkalloc"] /\ UNCHANGED <<parent, chan, killed>>
    BY <1>2, AllocProcEffect, Zenon
  <2>2. PICK s \in Slot : state' = [state EXCEPT ![s] = "EMBRYO"]
    BY <1>2, AllocProcEffect, Zenon
  <2>3. \A r \in Slot : state'[r] = "ZOMBIE" => state[r] = "ZOMBIE"
    BY <1>0, <2>2, Zenon
  <2>4. InWait(q)' => InWait(q)
    BY <1>0, <1>a, <2>1, <2>2, Zenon DEF InWait, WaitLocs
  <2>q. QED  BY <1>d, <2>1, <2>3, <2>4, WaitKept, Zenon
<1>3. ASSUME NEW p \in Slot, AllocStack(c, p) PROVE WaitAt(q)'
  <2>1. UNCHANGED <<state, parent, chan, killed>> /\ np[p] \in Slot
        /\ pc' = [pc EXCEPT ![p] = "fcopy", ![np[p]] = "forkret"]
    BY <1>3, <1>c, Zenon DEF AllocStack, InFork
  <2>2. InWait(q)' => InWait(q)
    BY <1>0, <1>a, <2>1, Zenon DEF InWait, WaitLocs
  <2>q. QED  BY <1>d, <2>1, <2>2, WaitKept, Zenon
<1>4. ASSUME NEW p \in Slot, ForkFails(c, p) PROVE WaitAt(q)'
  <2>1. /\ UNCHANGED <<parent, chan, killed>> /\ np[p] \in Slot
        /\ state' = [state EXCEPT ![np[p]] = "UNUSED"]
        /\ pc' = [pc EXCEPT ![p] = "sysret", ![np[p]] = "none"]
    BY <1>4, <1>c, Zenon DEF ForkFails, InFork
  <2>2. \A r \in Slot : state'[r] = "ZOMBIE" => state[r] = "ZOMBIE"
    BY <1>0, <2>1, Zenon
  <2>3. InWait(q)' => InWait(q)
    BY <1>0, <1>a, <2>1, Zenon DEF InWait, WaitLocs
  <2>q. QED  BY <1>d, <2>1, <2>2, <2>3, WaitKept, Zenon
<1>5. ASSUME NEW p \in Slot, ForkCopy(c, p) PROVE WaitAt(q)'
  <2>1. /\ UNCHANGED <<state, chan, killed>> /\ np[p] \in Slot /\ state[np[p]] = "EMBRYO"
        /\ parent' = [parent EXCEPT ![np[p]] = p] /\ pc' = [pc EXCEPT ![p] = "fready"]
    BY <1>5, <1>c, Zenon DEF ForkCopy, InFork
  <2>2. parent[np[p]] = NoProc
    BY <1>5, Zenon DEF ForkCopy, FamilyInv
  <2>3. \A r \in Slot : parent[r] = q => parent'[r] = q
    BY <1>0, <1>a, <2>1, <2>2, Zenon
  <2>4. \A r \in Slot : parent'[r] = q /\ state'[r] = "ZOMBIE" => parent[r] = q /\ state[r] = "ZOMBIE"
    BY <1>0, <2>1, Zenon
  <2>5. InWait(q)' => InWait(q)
    BY <1>0, <1>a, <2>1, Zenon DEF InWait, WaitLocs
  <2>q. QED  BY <1>d, <2>1, <2>3, <2>4, <2>5, WaitKept, Zenon
<1>6. ASSUME NEW p \in Slot, ForkReady(c, p) PROVE WaitAt(q)'
  <2>1. /\ UNCHANGED <<parent, chan, killed>> /\ pc' = [pc EXCEPT ![p] = "sysret"]
        /\ state' = [state EXCEPT ![np[p]] = "RUNNABLE"]
    BY <1>6, Zenon DEF ForkReady
  <2>2. \A r \in Slot : state'[r] = "ZOMBIE" => state[r] = "ZOMBIE"
    BY <1>0, <2>1, Zenon
  <2>3. InWait(q)' => InWait(q)
    BY <1>0, <1>a, <2>1, Zenon DEF InWait, WaitLocs
  <2>q. QED  BY <1>d, <2>1, <2>2, <2>3, WaitKept, Zenon
<1>7. ASSUME NEW p \in Slot, Exit(c, p) PROVE WaitAt(q)'
  <2>1. /\ UNCHANGED <<chan, killed>> /\ pc' = [pc EXCEPT ![p] = "zsched"]
        /\ parent' = [r \in Slot |-> IF parent[r] = p THEN initproc ELSE parent[r]]
    BY <1>7, Zenon DEF Exit, Heir
  <2>2. \A r \in Slot \ {p} : state'[r] = state[r] \/ state'[r] = "RUNNABLE"
    BY <1>0, <1>7, Zenon DEF Exit, AfterExit, Woken
  <2>3. InWait(q)' => /\ q # p /\ InWait(q) /\ chan[q] = q /\ q # parent[p]
                      /\ q = initproc => Zombies(p) = {}
    <3>. SUFFICES ASSUME InWait(q)' PROVE /\ q # p /\ InWait(q) /\ chan[q] = q /\ q # parent[p]
                                          /\ q = initproc => Zombies(p) = {}
      OBVIOUS
    <3>1. q # p /\ state[q] = "SLEEPING" /\ pc'[q] = pc[q]
      BY <1>0, <1>a, <2>1, <2>2, Zenon DEF InWait, WaitLocs
    <3>2. InWait(q) /\ chan[q] = q
      BY <1>d, <3>1, Zenon DEF InWait, WaitAt
    <3>3. state'[q] = "SLEEPING"
      BY Zenon DEF InWait
    <3>4. q # parent[p]
      BY <1>0, <1>7, <3>1, <3>2, <3>3, Zenon DEF Exit, AfterExit, Woken
    <3>5. q = initproc => Zombies(p) = {}
      BY <1>0, <1>7, <3>1, <3>2, <3>3, Zenon DEF Exit, AfterExit, Woken
    <3>q. QED  BY <3>1, <3>2, <3>4, <3>5, Zenon
  <2>4. InWait(q)' => \A r \in Slot : parent[r] = q => parent'[r] = q
    BY <2>1, <2>3, Zenon
  <2>5. ASSUME InWait(q)', NEW r \in Slot, parent'[r] = q, state'[r] = "ZOMBIE"
        PROVE  parent[r] = q /\ state[r] = "ZOMBIE"
    <3>1. parent[p] # p
      BY <1>a, Zenon DEF FamilyInv
    <3>2. r # p
      BY <2>1, <2>3, <2>5, <3>1, Zenon
    <3>3. state[r] = "ZOMBIE"
      BY <2>2, <2>5, <3>2, Zenon
    <3>4. parent[r] # p
      BY <2>1, <2>3, <2>5, <3>3, Zenon DEF Zombies, Children
    <3>q. QED  BY <2>1, <2>5, <3>3, <3>4, Zenon
  <2>q. QED  BY <1>d, <2>1, <2>3, <2>4, <2>5, WaitKept, Zenon
<1>8. ASSUME NEW p \in Slot, Reap(c, p) PROVE WaitAt(q)'
  <2>1. chan' = [chan EXCEPT ![p] = NoChan]
    BY <1>8, ReapEffect, Zenon
  <2>2. PICK z \in Slot : /\ state[z] = "ZOMBIE" /\ parent[z] = p
                          /\ parent' = [parent EXCEPT ![z] = NoProc]
                          /\ killed' = [killed EXCEPT ![z] = FALSE]
                          /\ state' = [state EXCEPT ![z] = "UNUSED"]
                          /\ pc' = [pc EXCEPT ![p] = "sysret", ![z] = "none"]
    BY <1>8, ReapEffect, Zenon
  <2>3. InWait(q)' => q # p /\ q # z /\ InWait(q)
    BY <1>0, <1>a, <2>2, Zenon DEF InWait, WaitLocs
  <2>4. q # p /\ q # z => chan'[q] = chan[q] /\ killed'[q] = killed[q]
    BY <1>0, <2>1, <2>2, Zenon
  <2>5. q # p => \A r \in Slot : parent[r] = q => parent'[r] = q
    BY <1>0, <2>2, Zenon
  <2>6. \A r \in Slot : parent'[r] = q /\ state'[r] = "ZOMBIE" => parent[r] = q /\ state[r] = "ZOMBIE"
    BY <1>0, <2>2, Zenon
  <2>q. QED  BY <1>d, <2>3, <2>4, <2>5, <2>6, WaitKept, Zenon
<1>9. ASSUME NEW p \in Slot, WaitSleep(c, p) PROVE WaitAt(q)'
  <2>1. /\ state' = [state EXCEPT ![p] = "SLEEPING"] /\ UNCHANGED <<parent, killed>>
        /\ pc' = [pc EXCEPT ![p] = "wsched"] /\ chan' = [chan EXCEPT ![p] = p]
        /\ Zombies(p) = {} /\ Children(p) # {} /\ ~killed[p]
    BY <1>9, Zenon DEF WaitSleep
  <2>2. \A r \in Slot : state'[r] = "ZOMBIE" => state[r] = "ZOMBIE"
    BY <1>0, <2>1, Zenon
  <2>3. CASE q = p
    <3>1. chan'[q] = q /\ ~killed'[q]
      BY <1>0, <2>1, <2>3, Zenon
    <3>2. Children(q)' # {}
      BY <2>1, <2>3, Zenon DEF Children
    <3>3. Zombies(q)' = {}
      BY <2>1, <2>2, <2>3, Zenon DEF Zombies, Children
    <3>q. QED  BY <3>1, <3>2, <3>3, Zenon DEF WaitAt
  <2>4. CASE q # p
    <3>1. state'[q] = state[q] /\ pc'[q] = pc[q] /\ chan'[q] = chan[q]
      BY <1>0, <1>a, <2>1, <2>4, Zenon
    <3>q. QED  BY <1>d, <2>1, <2>2, <3>1, WaitKept, Zenon DEF InWait
  <2>q. QED  BY <2>3, <2>4, Zenon
<1>10. ASSUME NEW p \in Slot, SleepTest(c, p) \/ SleepLock(c, p) PROVE WaitAt(q)'
  <2>1. /\ UNCHANGED <<state, parent, chan, killed>>
        /\ \E loc \in {"sgo", "slock"} : pc' = [pc EXCEPT ![p] = loc]
    BY <1>10, Zenon DEF SleepTest, SleepLock, tableVars
  <2>2. InWait(q)' => InWait(q)
    BY <1>0, <1>a, <2>1, Zenon DEF InWait, WaitLocs
  <2>q. QED  BY <1>d, <2>1, <2>2, WaitKept, Zenon
<1>11. ASSUME NEW p \in Slot, SleepGo(c, p) PROVE WaitAt(q)'
  <2>1. /\ state' = [state EXCEPT ![p] = "SLEEPING"] /\ UNCHANGED <<parent, killed>>
        /\ pc' = [pc EXCEPT ![p] = "ssched"] /\ chan' = [chan EXCEPT ![p] = TICKS]
    BY <1>11, Zenon DEF SleepGo
  <2>2. \A r \in Slot : state'[r] = "ZOMBIE" => state[r] = "ZOMBIE"
    BY <1>0, <2>1, Zenon
  <2>3. InWait(q)' => InWait(q) /\ chan'[q] = chan[q]
    BY <1>0, <1>a, <2>1, Zenon DEF InWait, WaitLocs
  <2>q. QED  BY <1>d, <2>1, <2>2, <2>3, WaitKept, Zenon
<1>12. ASSUME NEW t \in Thread, Tick(c, t) \/ TickWake(c, t) PROVE WaitAt(q)'
  <2>1. /\ UNCHANGED <<parent, chan, killed, pc>>
        /\ state' = state \/ state' = Woken(state, TICKS)
    BY <1>12, Zenon DEF Tick, TickWake, tableVars
  <2>2. \A r \in Slot : state'[r] \in {"ZOMBIE", "SLEEPING"} => state[r] = state'[r]
    BY <1>0, <2>1, Zenon DEF Woken
  <2>q. QED  BY <1>d, <2>1, <2>2, WaitKept, Zenon DEF InWait
<1>q. QED  BY <1>1, <1>2, <1>3, <1>4, <1>5, <1>6, <1>7, <1>8, <1>9, <1>10, <1>11, <1>12, Zenon
           DEF Loud

-----------------------------------------------------------------------------
InSleep(q) == state[q] = "SLEEPING" /\ pc[q] \in SleepLocs

(* A sleeper in sys_sleep() is left alone by a step that does not touch it *)
(* and does not end a clock interrupt.                                     *)
LEMMA SleepKept ==
  ASSUME NEW q \in Slot, SleepAt(q),
         pc'[q] \in {"sgo", "slock"} => pc[q] \in {"sgo", "slock"} /\ left'[q] = left[q],
         InSleep(q)' => InSleep(q) /\ chan'[q] = chan[q] /\ left'[q] = left[q],
         Ticking => Ticking'
  PROVE  SleepAt(q)'
  BY Zenon DEF SleepAt, InSleep

(* Between its test and its sleep, a process in sys_sleep() holds          *)
(* tickslock.                                                              *)
LEMMA TestHolds ==
  ASSUME IInv, NEW q \in Slot, pc[q] \in {"sgo", "slock"}
  PROVE  tlock # NoCPU
<1>1. q \in Thread /\ ipc[q] = "none"
  BY Zenon DEF IInv, ThreadInv, PLocs, TLocs, Thread
<1>2. ~Saved(q) /\ ~AtSched(q)
  BY <1>1, Zenon DEF Saved, AtSched
<1>3. state[q] = "RUNNING"
  <2>1. SlotAt(q)
    BY Zenon DEF IInv, SlotInv
  <2>2. state[q] \in States
    BY Zenon DEF IInv, TypeOK
  <2>q. QED  BY <1>2, <2>1, <2>2, Zenon DEF SlotAt, States
<1>4. PICK d \in CPU : proc[d] = q /\ (pc[d] = "swtch" \/ on[d] = q)
  BY <1>3, Zenon DEF IInv, SlotInv, SlotAt
<1>5. on[d] = q
  BY <1>2, <1>4, Zenon DEF IInv, CpuInv, CpuAt
<1>6. tlock = d
  BY <1>1, <1>5, Zenon DEF IInv, LockInv, LockAt, HoldsT, TLocs
<1>q. QED  BY <1>6, ProcAssumption, Zenon

(* Every step keeps the reasons to sleep in sys_sleep().                   *)
LEMMA SleepStepInv ==
  ASSUME IInv, SleepInv, NEW c \in CPU, Step(c) PROVE SleepInv'
<1>. USE DEF Goto, GotoIrq, At, AtIrq, Runs
<1>0. /\ state \in [Slot -> States] /\ chan \in [Slot -> Chan] /\ left \in [Slot -> Nat]
      /\ pc \in [Thread -> PC] /\ ipc \in [Thread -> IPC]
  BY Zenon DEF IInv, TypeOK
<1>a. Slot \subseteq Thread
  BY Zenon DEF Thread
<1>c. \A p \in Slot : InFork(p) => np[p] \in Slot
  BY Zenon DEF IInv, ForkInv
<1>. SUFFICES ASSUME NEW q \in Slot PROVE SleepAt(q)'
  BY Zenon DEF SleepInv
<1>d. SleepAt(q)
  BY Zenon DEF SleepInv
<1>e. \A p \in Slot : on[c] = p /\ ipc[p] = "none" => (Ticking => Ticking')
  BY TickingKept, Zenon
<1>1. CASE ~Loud(c)
  <2>1. AllStill /\ (Ticking => Ticking')
    BY <1>1, QuietStep, Zenon
  <2>2. pc'[q] \in {"sgo", "slock"} => pc[q] \in {"sgo", "slock"} /\ left'[q] = left[q]
    BY <2>1, Zenon DEF AllStill, Still, PcStill, Watched
  <2>3. InSleep(q)' => InSleep(q) /\ chan'[q] = chan[q] /\ left'[q] = left[q]
    BY <2>1, Zenon DEF AllStill, Still, StateStill, PcStill, Watched, InSleep, SleepLocs
  <2>q. QED  BY <1>d, <2>1, <2>2, <2>3, SleepKept, Zenon
<1>2. ASSUME NEW p \in Slot, AllocProc(c, p) PROVE SleepAt(q)'
  <2>1. /\ pc' = [pc EXCEPT ![p] = "fkalloc"] /\ UNCHANGED <<chan, left>>
        /\ on[c] = p /\ ipc[p] = "none"
    BY <1>2, AllocProcEffect, Zenon
  <2>2. PICK s \in Slot : state' = [state EXCEPT ![s] = "EMBRYO"]
    BY <1>2, AllocProcEffect, Zenon
  <2>3. InSleep(q)' => InSleep(q)
    BY <1>0, <1>a, <2>1, <2>2, Zenon DEF InSleep, SleepLocs
  <2>4. pc'[q] \in {"sgo", "slock"} => pc[q] \in {"sgo", "slock"}
    BY <1>0, <1>a, <2>1, Zenon
  <2>q. QED  BY <1>d, <1>e, <2>1, <2>3, <2>4, SleepKept, Zenon
<1>3. ASSUME NEW p \in Slot, AllocStack(c, p) PROVE SleepAt(q)'
  <2>1. /\ UNCHANGED <<state, chan, left>> /\ np[p] \in Slot /\ on[c] = p /\ ipc[p] = "none"
        /\ pc' = [pc EXCEPT ![p] = "fcopy", ![np[p]] = "forkret"]
    BY <1>3, <1>c, Zenon DEF AllocStack, InFork
  <2>2. InSleep(q)' => InSleep(q)
    BY <1>0, <1>a, <2>1, Zenon DEF InSleep, SleepLocs
  <2>3. pc'[q] \in {"sgo", "slock"} => pc[q] \in {"sgo", "slock"}
    BY <1>0, <1>a, <2>1, Zenon
  <2>q. QED  BY <1>d, <1>e, <2>1, <2>2, <2>3, SleepKept, Zenon
<1>4. ASSUME NEW p \in Slot, ForkFails(c, p) PROVE SleepAt(q)'
  <2>1. /\ UNCHANGED <<chan, left>> /\ np[p] \in Slot /\ on[c] = p /\ ipc[p] = "none"
        /\ state' = [state EXCEPT ![np[p]] = "UNUSED"]
        /\ pc' = [pc EXCEPT ![p] = "sysret", ![np[p]] = "none"]
    BY <1>4, <1>c, Zenon DEF ForkFails, InFork
  <2>2. InSleep(q)' => InSleep(q)
    BY <1>0, <1>a, <2>1, Zenon DEF InSleep, SleepLocs
  <2>3. pc'[q] \in {"sgo", "slock"} => pc[q] \in {"sgo", "slock"}
    BY <1>0, <1>a, <2>1, Zenon
  <2>q. QED  BY <1>d, <1>e, <2>1, <2>2, <2>3, SleepKept, Zenon
<1>5. ASSUME NEW p \in Slot, ForkCopy(c, p) \/ ForkReady(c, p) PROVE SleepAt(q)'
  <2>1. /\ UNCHANGED <<chan, left>> /\ on[c] = p /\ ipc[p] = "none"
        /\ state' = state \/ state' = [state EXCEPT ![np[p]] = "RUNNABLE"]
        /\ \E loc \in {"fready", "sysret"} : pc' = [pc EXCEPT ![p] = loc]
    BY <1>5, Zenon DEF ForkCopy, ForkReady
  <2>2. InSleep(q)' => InSleep(q)
    BY <1>0, <1>a, <2>1, Zenon DEF InSleep, SleepLocs
  <2>3. pc'[q] \in {"sgo", "slock"} => pc[q] \in {"sgo", "slock"}
    BY <1>0, <1>a, <2>1, Zenon
  <2>q. QED  BY <1>d, <1>e, <2>1, <2>2, <2>3, SleepKept, Zenon
<1>6. ASSUME NEW p \in Slot, Exit(c, p) PROVE SleepAt(q)'
  <2>1. /\ UNCHANGED <<chan, left>> /\ on[c] = p /\ ipc[p] = "none"
        /\ pc' = [pc EXCEPT ![p] = "zsched"]
    BY <1>6, Zenon DEF Exit
  <2>2. state'[q] = "SLEEPING" => state[q] = "SLEEPING"
    BY <1>0, <1>6, Zenon DEF Exit, AfterExit, Woken
  <2>3. InSleep(q)' => InSleep(q)
    BY <1>0, <1>a, <2>1, <2>2, Zenon DEF InSleep, SleepLocs
  <2>4. pc'[q] \in {"sgo", "slock"} => pc[q] \in {"sgo", "slock"}
    BY <1>0, <1>a, <2>1, Zenon
  <2>q. QED  BY <1>d, <1>e, <2>1, <2>3, <2>4, SleepKept, Zenon
<1>7. ASSUME NEW p \in Slot, Reap(c, p) PROVE SleepAt(q)'
  <2>1. /\ chan' = [chan EXCEPT ![p] = NoChan] /\ UNCHANGED left
        /\ on[c] = p /\ ipc[p] = "none"
    <3>1. WaitReturns(c, p) /\ chan' = [chan EXCEPT ![p] = NoChan] /\ UNCHANGED left
      BY <1>7, ReapEffect, Zenon
    <3>q. QED  BY <3>1, WaitReturnsEffect, Zenon
  <2>2. PICK z \in Slot : /\ state' = [state EXCEPT ![z] = "UNUSED"]
                          /\ pc' = [pc EXCEPT ![p] = "sysret", ![z] = "none"]
    BY <1>7, ReapEffect, Zenon
  <2>3. InSleep(q)' => InSleep(q) /\ chan'[q] = chan[q]
    BY <1>0, <1>a, <2>1, <2>2, Zenon DEF InSleep, SleepLocs
  <2>4. pc'[q] \in {"sgo", "slock"} => pc[q] \in {"sgo", "slock"}
    BY <1>0, <1>a, <2>2, Zenon
  <2>q. QED  BY <1>d, <1>e, <2>1, <2>3, <2>4, SleepKept, Zenon
<1>8. ASSUME NEW p \in Slot, WaitSleep(c, p) PROVE SleepAt(q)'
  <2>1. /\ state' = [state EXCEPT ![p] = "SLEEPING"] /\ UNCHANGED left
        /\ pc' = [pc EXCEPT ![p] = "wsched"] /\ chan' = [chan EXCEPT ![p] = p]
    BY <1>8, Zenon DEF WaitSleep
  <2>2. on[c] = p /\ ipc[p] = "none"
    BY <1>8, WaitAgainEffect, Zenon DEF WaitSleep
  <2>3. InSleep(q)' => InSleep(q) /\ chan'[q] = chan[q]
    BY <1>0, <1>a, <2>1, Zenon DEF InSleep, SleepLocs
  <2>4. pc'[q] \in {"sgo", "slock"} => pc[q] \in {"sgo", "slock"}
    BY <1>0, <1>a, <2>1, Zenon
  <2>q. QED  BY <1>d, <1>e, <2>1, <2>2, <2>3, <2>4, SleepKept, Zenon
<1>9. ASSUME NEW p \in Slot, SleepTest(c, p) \/ SleepLock(c, p) PROVE SleepAt(q)'
  <2>1. /\ UNCHANGED <<state, chan, left>> /\ on[c] = p /\ ipc[p] = "none"
        /\ \E loc \in {"sgo", "slock"} : pc' = [pc EXCEPT ![p] = loc]
        /\ pc[p] = "sgo" \/ left[p] > 0
    BY <1>9, Zenon DEF SleepTest, SleepLock, tableVars
  <2>2. InSleep(q)' => InSleep(q)
    BY <1>0, <1>a, <2>1, Zenon DEF InSleep, SleepLocs
  <2>3. CASE q = p
    BY <1>0, <1>a, <1>d, <2>1, <2>2, <2>3, Zenon DEF SleepAt, SleepLocs
  <2>4. CASE q # p
    <3>1. pc'[q] = pc[q]
      BY <1>0, <1>a, <2>1, <2>4, Zenon
    <3>q. QED  BY <1>d, <1>e, <2>1, <2>2, <3>1, SleepKept, Zenon
  <2>q. QED  BY <2>3, <2>4, Zenon
<1>10. ASSUME NEW p \in Slot, SleepGo(c, p) PROVE SleepAt(q)'
  <2>1. /\ state' = [state EXCEPT ![p] = "SLEEPING"] /\ UNCHANGED left
        /\ pc' = [pc EXCEPT ![p] = "ssched"] /\ chan' = [chan EXCEPT ![p] = TICKS]
        /\ on[c] = p /\ ipc[p] = "none" /\ pc[p] = "slock"
    BY <1>10, Zenon DEF SleepGo
  <2>2. CASE q = p
    <3>1. left[q] > 0
      BY <1>d, <2>1, <2>2, Zenon DEF SleepAt
    <3>2. pc'[q] = "ssched" /\ chan'[q] = TICKS /\ left'[q] = left[q]
      BY <1>0, <1>a, <2>1, <2>2, Zenon
    <3>q. QED  BY <3>1, <3>2, Zenon DEF SleepAt
  <2>3. CASE q # p
    <3>1. pc'[q] = pc[q] /\ state'[q] = state[q] /\ chan'[q] = chan[q]
      BY <1>0, <1>a, <2>1, <2>3, Zenon
    <3>q. QED  BY <1>d, <1>e, <2>1, <3>1, SleepKept, Zenon DEF InSleep
  <2>q. QED  BY <2>2, <2>3, Zenon
<1>11. ASSUME NEW t \in Thread, Tick(c, t) PROVE SleepAt(q)'
  <2>1. /\ tlock = NoCPU /\ UNCHANGED <<state, chan, pc, on>> /\ on[c] = t
        /\ ipc' = [ipc EXCEPT ![t] = "tickw"]
    BY <1>11, Zenon DEF Tick, AcquireT, tableVars
  <2>2. pc[q] \notin {"sgo", "slock"}
    BY <2>1, TestHolds, Zenon
  <2>3. Ticking'
    BY <1>0, <2>1, Zenon DEF Ticking
  <2>q. QED  BY <1>d, <2>1, <2>2, <2>3, Zenon DEF SleepAt
<1>12. ASSUME NEW t \in Thread, TickWake(c, t) PROVE SleepAt(q)'
  <2>1. UNCHANGED <<chan, pc, left>> /\ state' = Woken(state, TICKS)
    BY <1>12, Zenon DEF TickWake
  <2>2. state'[q] = "SLEEPING" => state[q] = "SLEEPING" /\ chan[q] # TICKS
    BY <1>0, <2>1, Zenon DEF Woken
  <2>q. QED  BY <1>d, <2>1, <2>2, Zenon DEF SleepAt
<1>q. QED  BY <1>1, <1>2, <1>3, <1>4, <1>5, <1>6, <1>7, <1>8, <1>9, <1>10, <1>11, <1>12, Zenon
           DEF Loud
-----------------------------------------------------------------------------
(* init is the only process when the machine starts, and nobody sleeps.    *)
LEMMA InitFInv == Init => FInv
<1>. SUFFICES ASSUME Init PROVE FInv
  OBVIOUS
<1>1. initproc \in Slot /\ Slot \subseteq Thread /\ \A p \in Slot : p \notin CPU
  BY ProcAssumption DEF initproc, Slot, Thread
<1>2. \A p \in Slot : /\ pc[p] = IF p = initproc THEN "forkret" ELSE "none"
                      /\ state[p] = IF p = initproc THEN "RUNNABLE" ELSE "UNUSED"
                      /\ parent[p] = NoProc
  BY <1>1, Zenon DEF Init
<1>3. FamilyInv
  BY <1>1, <1>2, Zenon DEF FamilyInv, Living
<1>4. WaitInv /\ SleepInv
  BY <1>2, Zenon DEF WaitInv, WaitAt, SleepInv, SleepAt
<1>q. QED  BY <1>3, <1>4, Zenon DEF FInv

(* Every step keeps the families and the reasons to sleep.                 *)
LEMMA NextFInv == IInv /\ FInv /\ [Next]_vars => FInv'
<1>. SUFFICES ASSUME IInv, FInv, [Next]_vars PROVE FInv'
  OBVIOUS
<1>1. CASE UNCHANGED vars
  <2>1. UNCHANGED <<state, parent, chan, killed, pc, ipc, on, np, left>>
    BY <1>1, Zenon DEF vars
  <2>2. FamilyInv'
    BY <2>1, Zenon DEF FInv, FamilyInv
  <2>3. WaitInv'
    BY <2>1, Zenon DEF FInv, WaitInv, WaitAt, Zombies, Children
  <2>4. SleepInv'
    BY <2>1, Zenon DEF FInv, SleepInv, SleepAt, Ticking
  <2>q. QED  BY <2>2, <2>3, <2>4, Zenon DEF FInv
<1>2. ASSUME NEW c \in CPU, Step(c) PROVE FInv'
  BY <1>2, FamilyStep, WaitStep, SleepStepInv, Zenon DEF FInv
<1>q. QED  BY <1>1, <1>2, Zenon DEF Next, Halted
-----------------------------------------------------------------------------
(* Families and reasons to sleep are kept for ever, for any number of      *)
(* processors and slots.                                                   *)
THEOREM FamilyInvariance == Spec => []FInv
<1>1. Init => FInv
  BY InitFInv
<1>2. IInv /\ FInv /\ [Next]_vars => FInv'
  BY NextFInv
<1>q. QED  BY <1>1, <1>2, Invariance, PTL DEF Spec

(* fork(), exit() and wait() keep pids unique and leave every process      *)
(* except init with a parent that is neither gone nor a zombie, although   *)
(* fork() writes np->parent without ptable.lock.                           *)
THEOREM FamilyExactHolds == Spec => []FamilyExact
<1>1. IInv /\ FInv => FamilyExact
  <2>. SUFFICES ASSUME IInv, FInv PROVE FamilyExact
    OBVIOUS
  <2>1. PidUnique
    BY Zenon DEF IInv, PidInv
  <2>2. ParentAlive
    BY Zenon DEF FInv, FamilyInv, ParentAlive, Living
  <2>q. QED  BY <2>1, <2>2, Zenon DEF FamilyExact
<1>q. QED  BY <1>1, Invariance, FamilyInvariance, PTL

(* A process that sleeps in wait() has a child, no zombie among its        *)
(* children, and has not been killed: exit(), kill() and the change of     *)
(* parents in exit() lose no wakeup.                                       *)
THEOREM WaitWakeupHolds == Spec => []WaitWakeup
<1>1. FInv => WaitWakeup
  BY Zenon DEF FInv, WaitInv, WaitAt, WaitLocs, WaitWakeup
<1>q. QED  BY <1>1, FamilyInvariance, PTL

(* Once the clock interrupt has let go of tickslock, nobody sleeps in      *)
(* sys_sleep() whose time is over.                                         *)
THEOREM SleepWakeupHolds == Spec => []SleepWakeup
<1>1. IInv /\ FInv => SleepWakeup
  <2>. SUFFICES ASSUME IInv, FInv, tlock = NoCPU, NEW p \in Slot,
                       state[p] = "SLEEPING", pc[p] = "sresume"
                PROVE  left[p] > 0
    BY Zenon DEF SleepWakeup
  <2>1. ~Ticking
    BY ProcAssumption, Zenon DEF Ticking, IInv, LockInv, LockAt, HoldsT
  <2>q. QED  BY <2>1, Zenon DEF FInv, SleepInv, SleepAt, SleepLocs
<1>q. QED  BY <1>1, Invariance, FamilyInvariance, PTL

(* Switching is safe on any number of processors: no assertion of sched(), *)
(* scheduler(), release() or switchuvm() fails, RUNNING means on exactly   *)
(* one processor, and a thread finds its interrupt state wherever it goes  *)
(* on.                                                                     *)
THEOREM SchedSafeHolds == Spec => []SchedSafe
<1>1. NoPanic /\ RunningExact /\ InterruptsKept => SchedSafe
  BY Zenon DEF SchedSafe
<1>q. QED  BY <1>1, NoPanicHolds, RunningExactHolds, InterruptsKeptHolds, PTL

(* exit() is final: a zombie only ever becomes a free slot, by wait(), and *)
(* by then no processor is on its stack or has its page table loaded.      *)
THEOREM ZombieFinalHolds == Spec => ZombieFinal
<1> DEFINE Final == \A p \in Slot :
       state[p] = "ZOMBIE" /\ state'[p] # "ZOMBIE" =>
         state'[p] = "UNUSED" /\ \A c \in CPU : on[c] # p /\ cr3[c] # p
<1>1. IInv /\ FInv /\ [Next]_vars => [Final]_vars
  <2>. SUFFICES ASSUME IInv, FInv, NEW c \in CPU, Step(c), NEW p \in Slot,
                       state[p] = "ZOMBIE", state'[p] # "ZOMBIE"
                PROVE  state'[p] = "UNUSED" /\ \A d \in CPU : on[d] # p /\ cr3[d] # p
    BY Zenon DEF Next, Halted, vars
  <2>0. state \in [Slot -> States]
    BY Zenon DEF IInv, TypeOK
  <2>1. Loud(c)
    BY QuietStep, Zenon DEF AllStill, Still, StateStill, Living
  <2>2. PICK q \in Slot : Reap(c, q)
    <3>1. ~\E t \in Thread : Tick(c, t) \/ TickWake(c, t)
      BY <2>0, Zenon DEF Tick, TickWake, Woken, tableVars
    <3>2. \A q \in Slot : ~AllocProc(c, q)
      <4>. SUFFICES ASSUME NEW q \in Slot, AllocProc(c, q) PROVE FALSE
        OBVIOUS
      <4>1. PICK s \in Slot : state[s] = "UNUSED" /\ state' = [state EXCEPT ![s] = "EMBRYO"]
        BY AllocProcEffect
      <4>q. QED  BY <2>0, <4>1, Zenon
    <3>3. \A q \in Slot : InFork(q) => state[np[q]] = "EMBRYO"
      BY Zenon DEF IInv, ForkInv
    <3>4. \A q \in Slot : ~(AllocStack(c, q) \/ ForkFails(c, q) \/ ForkCopy(c, q) \/ ForkReady(c, q))
      BY <2>0, <3>3, Zenon DEF AllocStack, ForkFails, ForkCopy, ForkReady, InFork, At
    <3>5. \A q \in Slot : on[c] = q /\ ipc[q] = "none" /\ pc[q] \in {"exit", "wait", "wresume", "slock"}
                            => q # p
      BY HereRunning, Zenon DEF AtSched
    <3>6. \A q \in Slot : ~Exit(c, q)
      BY <2>0, Zenon DEF Exit, AfterExit, Woken
    <3>7. \A q \in Slot : ~WaitSleep(c, q)
      <4>. SUFFICES ASSUME NEW q \in Slot, WaitSleep(c, q) PROVE FALSE
        OBVIOUS
      <4>1. q # p
        BY <3>5, WaitAgainEffect, Zenon DEF WaitSleep
      <4>q. QED  BY <2>0, <4>1, Zenon DEF WaitSleep
    <3>8. \A q \in Slot : ~(SleepTest(c, q) \/ SleepLock(c, q) \/ SleepGo(c, q))
      BY <2>0, <3>5, Zenon DEF SleepTest, SleepLock, SleepGo, At, Runs, tableVars
    <3>q. QED  BY <2>1, <3>1, <3>2, <3>4, <3>6, <3>7, <3>8, Zenon DEF Loud
  <2>3. PICK z \in Slot : state[z] = "ZOMBIE" /\ state' = [state EXCEPT ![z] = "UNUSED"]
    BY <2>2, ReapEffect
  <2>4. z = p /\ state'[p] = "UNUSED"
    BY <2>0, <2>3, Zenon
  <2>5. on[c] = q /\ plock \in {NoCPU, c} /\ ipc[q] = "none" /\ pc[q] \in {"wait", "wresume"}
    <3>1. WaitReturns(c, q)
      BY <2>2, ReapEffect, Zenon
    <3>q. QED  BY <3>1, WaitReturnsEffect, Zenon
  <2>6. q # p
    BY <2>5, HereRunning, Zenon DEF AtSched
  <2>7. \A d \in CPU : proc[d] # p
    <3>. SUFFICES ASSUME NEW d \in CPU, proc[d] = p PROVE FALSE
      OBVIOUS
    <3>1. p # NoProc
      BY ProcAssumption, Zenon
    <3>2. CASE d = c
      BY <2>5, <2>6, <3>2, Here, Zenon
    <3>3. CASE d # c
      <4>1. plock # d
        BY <2>5, <3>3, ProcAssumption, Zenon
      <4>q. QED  BY <3>1, <4>1, Elsewhere, Zenon
    <3>q. QED  BY <3>2, <3>3, Zenon
  <2>8. \A d \in CPU : on[d] # p
    BY <2>7, Here, Zenon
  <2>9. \A d \in CPU : cr3[d] # p
    <3>. SUFFICES ASSUME NEW d \in CPU, cr3[d] = p PROVE FALSE
      OBVIOUS
    <3>1. cr3[d] # NoProc
      BY ProcAssumption, Zenon
    <3>2. pc[d] \in SchedPC /\ CpuAt(d)
      BY Zenon DEF IInv, CpuInv, ThreadInv
    <3>q. QED  BY <2>7, <3>1, <3>2, Zenon DEF CpuAt, SchedPC
  <2>q. QED  BY <2>4, <2>8, <2>9, Zenon
<1>q. QED  BY <1>1, Invariance, FamilyInvariance, PTL DEF Spec, ZombieFinal
=============================================================================
