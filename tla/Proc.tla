-------------------------------- MODULE Proc --------------------------------
(***************************************************************************)
(* proc.c with the parts of trap.c, sysproc.c, vm.c and swtch.S it works   *)
(* with: processes, the context switch, fork, exit, wait, kill, sleep and  *)
(* wakeup, sys_sleep and the timer interrupt, on several processors.       *)
(*                                                                         *)
(* A thread is a process slot or the scheduler loop of a processor.  on[c] *)
(* is the thread whose kernel stack processor c uses; swtch() is the       *)
(* assignment to on[c], and the pc of a thread that is on no processor is  *)
(* its saved context.  ptable.lock and tickslock are atomic locks, as      *)
(* Spinlock.tla proves of spinlock.c; a critical section that cannot be    *)
(* left by swtch() or blocked inside is one step.  Which RUNNABLE process  *)
(* the scheduler chooses is left open (see Stride.tla).                    *)
(***************************************************************************)
EXTENDS Naturals

CONSTANTS
  CPU,          \* the processors
  CPU0,         \* the one whose timer counts ticks
  NPROC,        \* slots of the process table
  NoCPU, NoProc, NoChan, TICKS,   \* null pointers and the channel &ticks
  Syscalls,     \* the system calls made, a subset of SyscallNames
  KillArg,      \* the pids passed to kill()
  SleepArg,     \* the times passed to sleep()
  MaxPid,       \* bound: no fork() once nextpid exceeds it
  OutOfMemory,  \* whether kalloc() may fail
  Timer         \* whether the timer interrupts

SyscallNames == {"fork", "exit", "wait", "kill", "sleep"}
Slot == 1..NPROC
initproc == 1
Thread == Slot \union CPU
Chan == Slot \union {NoChan, TICKS}

ASSUME ProcAssumption ==
  /\ NPROC \in Nat \ {0} /\ MaxPid \in Nat
  /\ CPU0 \in CPU /\ NoCPU \notin CPU /\ CPU \intersect Slot = {}
  /\ NoProc \notin Slot /\ NoProc \notin CPU
  /\ NoChan \notin Slot /\ TICKS \notin Slot /\ NoChan # TICKS
  /\ Syscalls \subseteq SyscallNames
  /\ KillArg \subseteq Nat /\ SleepArg \subseteq Nat
  /\ OutOfMemory \in BOOLEAN /\ Timer \in BOOLEAN

VARIABLES
  state, pid, parent, chan, killed,   \* fields of struct proc
  kstack,     \* whether p->kstack and p->pgdir are allocated
  nextpid,
  plock,      \* the processor holding ptable.lock, or NoCPU
  tlock,      \* the processor holding tickslock, or NoCPU
  on,         \* the thread whose stack the processor runs on
  proc,       \* the per-processor variable proc
  cr3,        \* the process whose page table is loaded, NoProc for kpgdir
  flagIF,     \* FL_IF
  intena,     \* cpu->intena
  pc,         \* where a thread is, below any interrupt
  ipc,        \* where a thread is in trap() for the timer interrupt
  saved,      \* sched()'s local copy of intena
  np,         \* fork()'s local np
  left,       \* sys_sleep(): n - (ticks - ticks0), not below 0
  panicked    \* the message of the panic that stopped the machine

tableVars == <<state, pid, parent, chan, killed, kstack, nextpid>>
cpuVars == <<on, proc, cr3, flagIF, intena>>
threadVars == <<pc, ipc, saved, np, left>>
vars == <<state, pid, parent, chan, killed, kstack, nextpid, plock, tlock,
          on, proc, cr3, flagIF, intena, pc, ipc, saved, np, left, panicked>>

States == {"UNUSED", "EMBRYO", "SLEEPING", "RUNNABLE", "RUNNING", "ZOMBIE"}
PC == {"idle", "scan", "swtch", "back",                      \* scheduler()
       "none", "forkret", "user", "sysret", "exit", "zsched", "zombie",
       "fork", "fkalloc", "fcopy", "fready",
       "wait", "wsched", "wresume", "kill",
       "sleep", "sloop", "sgo", "slock", "ssched", "sresume", "srelock"}
IPC == {"none", "tick", "tickw", "tail", "ysched", "yresume", "tail2"}

ncli(c) == (IF plock = c THEN 1 ELSE 0) + (IF tlock = c THEN 1 ELSE 0)

\* Processor c executes thread t, outside (At) or inside (AtIrq) a handler.
\* panic() stops the machine.
Runs(c, t) == panicked = "no" /\ on[c] = t
At(c, t, loc) == Runs(c, t) /\ ipc[t] = "none" /\ pc[t] = loc
AtIrq(c, t, loc) == Runs(c, t) /\ ipc[t] = loc

Goto(t, loc) == pc' = [pc EXCEPT ![t] = loc]
GotoIrq(t, loc) == ipc' = [ipc EXCEPT ![t] = loc]

(* Mutant: pushcli() leaves interrupts on.                                 *)
PushCliNoCli(c) ==
  /\ intena' = [intena EXCEPT ![c] = IF ncli(c) = 0 THEN flagIF[c] ELSE @]
  /\ UNCHANGED flagIF

\* The pushcli() of an acquire().
PushCli(c) ==
  /\ flagIF' = [flagIF EXCEPT ![c] = FALSE]
  /\ intena' = [intena EXCEPT ![c] = IF ncli(c) = 0 THEN flagIF[c] ELSE @]

\* acquire(&ptable.lock), acquire(&tickslock).
AcquireP(c) == plock = NoCPU /\ plock' = c /\ PushCli(c)
AcquireT(c) == tlock = NoCPU /\ tlock' = c /\ PushCli(c)

(* Mutant: wakeup1() wakes nobody.                                         *)
WokenNone(st, ch) == st

\* wakeup1(): the states after waking every sleeper on ch.
Woken(st, ch) ==
  [q \in Slot |-> IF st[q] = "SLEEPING" /\ chan[q] = ch THEN "RUNNABLE" ELSE st[q]]

-----------------------------------------------------------------------------
(* main() has run userinit(), and every processor enters scheduler() with  *)
(* interrupts off.                                                         *)
Init ==
  /\ state = [p \in Slot |-> IF p = initproc THEN "RUNNABLE" ELSE "UNUSED"]
  /\ pid = [p \in Slot |-> IF p = initproc THEN 1 ELSE 0]
  /\ parent = [p \in Slot |-> NoProc]
  /\ chan = [p \in Slot |-> NoChan]
  /\ killed = [p \in Slot |-> FALSE]
  /\ kstack = [p \in Slot |-> p = initproc]
  /\ nextpid = 2
  /\ plock = NoCPU /\ tlock = NoCPU
  /\ on = [c \in CPU |-> c]
  /\ proc = [c \in CPU |-> NoProc]
  /\ cr3 = [c \in CPU |-> NoProc]
  /\ flagIF = [c \in CPU |-> FALSE]
  /\ intena = [c \in CPU |-> FALSE]
  /\ pc = [t \in Thread |-> IF t \in CPU THEN "idle"
                            ELSE IF t = initproc THEN "forkret" ELSE "none"]
  /\ ipc = [t \in Thread |-> "none"]
  /\ saved = [p \in Slot |-> FALSE]
  /\ np = [p \in Slot |-> NoProc]
  /\ left = [p \in Slot |-> 0]
  /\ panicked = "no"
-----------------------------------------------------------------------------
(* scheduler(): the top of the loop enables interrupts.                    *)
Sti(c) ==
  /\ At(c, c, "idle")
  /\ flagIF' = [flagIF EXCEPT ![c] = TRUE]
  /\ Goto(c, "scan")
  /\ UNCHANGED <<tableVars, plock, tlock, on, proc, cr3, intena, ipc, saved, np,
                 left, panicked>>

(* The scan finds nothing to run.                                          *)
ScanNone(c) ==
  /\ At(c, c, "scan") /\ plock = NoCPU
  /\ \A p \in Slot : state[p] # "RUNNABLE"
  /\ Goto(c, "idle")
  /\ UNCHANGED <<tableVars, plock, tlock, cpuVars, ipc, saved, np, left, panicked>>

(* The scan chooses p: switchuvm(p) and RUNNING, all under ptable.lock.    *)
Dispatch(c, p) ==
  /\ At(c, c, "scan") /\ AcquireP(c)
  /\ state[p] = "RUNNABLE"
  /\ proc' = [proc EXCEPT ![c] = p]
  /\ cr3' = [cr3 EXCEPT ![c] = p]
  /\ state' = [state EXCEPT ![p] = "RUNNING"]
  /\ Goto(c, "swtch")
  /\ panicked' = IF kstack[p] THEN panicked ELSE "switchuvm"
  /\ UNCHANGED <<pid, parent, chan, killed, kstack, nextpid, tlock, on, ipc,
                 saved, np, left>>

(* swtch() to the chosen process, which goes on at its saved context; the  *)
(* context that exit() leaves behind leads to panic("zombie exit").        *)
SwtchTo(c) ==
  /\ At(c, c, "swtch")
  /\ on' = [on EXCEPT ![c] = proc[c]]
  /\ Goto(c, "back")
  /\ panicked' = IF pc[proc[c]] = "zombie" THEN "zombie exit" ELSE panicked
  /\ UNCHANGED <<tableVars, plock, tlock, proc, cr3, flagIF, intena, ipc, saved,
                 np, left>>

(* Mutant: scheduler() does not clear proc.                                *)
BackKeepsProc(c) ==
  /\ At(c, c, "back")
  /\ cr3' = [cr3 EXCEPT ![c] = NoProc]
  /\ plock' = NoCPU
  /\ flagIF' = [flagIF EXCEPT ![c] = intena[c]]
  /\ Goto(c, "idle")
  /\ UNCHANGED <<tableVars, tlock, on, proc, intena, ipc, saved, np, left, panicked>>

(* Back in scheduler(): switchkvm(), proc = 0, release(&ptable.lock).  The *)
(* rest of the second loop looks for another process with the same pid;    *)
(* PidUnique says there is none.                                           *)
Back(c) ==
  /\ At(c, c, "back")
  /\ cr3' = [cr3 EXCEPT ![c] = NoProc]
  /\ proc' = [proc EXCEPT ![c] = NoProc]
  /\ plock' = NoCPU
  /\ flagIF' = [flagIF EXCEPT ![c] = intena[c]]
  /\ Goto(c, "idle")
  /\ panicked' = IF plock = c THEN panicked ELSE "release"
  /\ UNCHANGED <<tableVars, tlock, on, intena, ipc, saved, np, left>>

-----------------------------------------------------------------------------
(* sched(), called by exit(), wait(), sys_sleep() or yield(): the checks,  *)
(* then swtch() to this processor's scheduler.                             *)
Sched(c, p) ==
  /\ Runs(c, p)
  /\ \/ /\ ipc[p] = "ysched" /\ GotoIrq(p, "yresume") /\ UNCHANGED pc
     \/ /\ ipc[p] = "none" /\ UNCHANGED ipc
        /\ \/ pc[p] = "zsched" /\ Goto(p, "zombie")
           \/ pc[p] = "wsched" /\ Goto(p, "wresume")
           \/ pc[p] = "ssched" /\ Goto(p, "sresume")
  /\ panicked' = IF plock # c THEN "sched ptable.lock"
                 ELSE IF ncli(c) # 1 THEN "sched locks"
                 ELSE IF state[p] = "RUNNING" THEN "sched running"
                 ELSE IF flagIF[c] THEN "sched interruptible" ELSE panicked
  /\ saved' = [saved EXCEPT ![p] = intena[c]]
  /\ on' = [on EXCEPT ![c] = c]
  /\ UNCHANGED <<tableVars, plock, tlock, proc, cr3, flagIF, intena, np, left>>

(* Mutant: sched() does not restore intena.                                *)
ResumeKeepsIntena(c, p) ==
  /\ plock' = NoCPU
  /\ flagIF' = [flagIF EXCEPT ![c] = intena[c]]
  /\ panicked' = IF plock = c THEN panicked ELSE "release"
  /\ UNCHANGED intena

(* What a thread resumed by swtch() does before it goes on: sched()        *)
(* restores intena and the caller releases ptable.lock.                    *)
ResumeRelease(c, p) ==
  /\ intena' = [intena EXCEPT ![c] = saved[p]]
  /\ plock' = NoCPU
  /\ flagIF' = [flagIF EXCEPT ![c] = saved[p]]
  /\ panicked' = IF plock = c THEN panicked ELSE "release"

(* forkret() and the return to user space with FL_IF set by the trap frame. *)
Forkret(c, p) ==
  /\ At(c, p, "forkret")
  /\ plock' = NoCPU
  /\ flagIF' = [flagIF EXCEPT ![c] = TRUE]
  /\ Goto(p, "user")
  /\ panicked' = IF plock = c THEN panicked ELSE "release"
  /\ UNCHANGED <<tableVars, tlock, on, proc, cr3, intena, ipc, saved, np, left>>

-----------------------------------------------------------------------------
(* trap() for T_SYSCALL, through a trap gate: a killed process exits       *)
(* instead.  init (init.c) only forks and waits.                           *)
SyscallEntry(c, p, call) ==
  /\ At(c, p, "user")
  /\ call \in Syscalls
  /\ p = initproc => call \in {"fork", "wait"}
  /\ call = "fork" => nextpid <= MaxPid
  /\ Goto(p, IF killed[p] THEN "exit" ELSE call)
  /\ UNCHANGED <<tableVars, plock, tlock, cpuVars, ipc, saved, np, left, panicked>>

(* The end of trap() for T_SYSCALL.                                        *)
SyscallExit(c, p) ==
  /\ At(c, p, "sysret")
  /\ Goto(p, IF killed[p] THEN "exit" ELSE "user")
  /\ UNCHANGED <<tableVars, plock, tlock, cpuVars, ipc, saved, np, left, panicked>>

(* trap() for a fault in user space: kill the process, exit().             *)
Fault(c, p) ==
  /\ At(c, p, "user") /\ p # initproc /\ "exit" \in Syscalls
  /\ killed' = [killed EXCEPT ![p] = TRUE]
  /\ flagIF' = [flagIF EXCEPT ![c] = FALSE]
  /\ Goto(p, "exit")
  /\ UNCHANGED <<state, pid, parent, chan, kstack, nextpid, plock, tlock, on, proc,
                 cr3, intena, ipc, saved, np, left, panicked>>

-----------------------------------------------------------------------------
(* Mutant: allocproc() does not advance nextpid.                           *)
AllocProcSamePid(c, p) ==
  /\ At(c, p, "fork") /\ plock = NoCPU
  /\ \E s \in Slot :
       /\ state[s] = "UNUSED" /\ \A r \in 1..(s - 1) : state[r] # "UNUSED"
       /\ state' = [state EXCEPT ![s] = "EMBRYO"]
       /\ pid' = [pid EXCEPT ![s] = nextpid]
       /\ np' = [np EXCEPT ![p] = s]
  /\ Goto(p, "fkalloc")
  /\ UNCHANGED <<parent, chan, killed, kstack, nextpid, plock, tlock, cpuVars, ipc,
                 saved, left, panicked>>

(* fork(): allocproc() takes the first UNUSED slot.                        *)
AllocProc(c, p) ==
  /\ At(c, p, "fork") /\ plock = NoCPU
  /\ \E s \in Slot :
       /\ state[s] = "UNUSED" /\ \A r \in 1..(s - 1) : state[r] # "UNUSED"
       /\ state' = [state EXCEPT ![s] = "EMBRYO"]
       /\ pid' = [pid EXCEPT ![s] = nextpid]
       /\ np' = [np EXCEPT ![p] = s]
  /\ nextpid' = nextpid + 1
  /\ Goto(p, "fkalloc")
  /\ UNCHANGED <<parent, chan, killed, kstack, plock, tlock, cpuVars, ipc, saved,
                 left, panicked>>

(* Mutant: the search goes one slot past the end of the table.             *)
AllocProcPastEnd(c, p) ==
  /\ At(c, p, "fork") /\ plock = NoCPU
  /\ \A s \in Slot : state[s] # "UNUSED"
  /\ np' = [np EXCEPT ![p] = NPROC + 1]
  /\ Goto(p, "fkalloc")
  /\ UNCHANGED <<tableVars, plock, tlock, cpuVars, ipc, saved, left, panicked>>

AllocProcFull(c, p) ==
  /\ At(c, p, "fork") /\ plock = NoCPU
  /\ \A s \in Slot : state[s] # "UNUSED"
  /\ Goto(p, "sysret")
  /\ UNCHANGED <<tableVars, plock, tlock, cpuVars, ipc, saved, np, left, panicked>>

(* allocproc() after the lock: the kernel stack, with a context at forkret. *)
AllocStack(c, p) ==
  /\ At(c, p, "fkalloc")
  /\ kstack' = [kstack EXCEPT ![np[p]] = TRUE]
  /\ pc' = [pc EXCEPT ![p] = "fcopy", ![np[p]] = "forkret"]
  /\ UNCHANGED <<state, pid, parent, chan, killed, nextpid, plock, tlock, cpuVars,
                 ipc, saved, np, left, panicked>>

(* kalloc() fails in allocproc(), or all memory is gone in copyuvm(): the  *)
(* slot goes back to UNUSED, without ptable.lock and with its pid.         *)
ForkFails(c, p) ==
  /\ At(c, p, "fkalloc") \/ At(c, p, "fcopy")
  /\ OutOfMemory
  /\ kstack' = [kstack EXCEPT ![np[p]] = FALSE]
  /\ state' = [state EXCEPT ![np[p]] = "UNUSED"]
  /\ np' = [np EXCEPT ![p] = NoProc]
  /\ pc' = [pc EXCEPT ![p] = "sysret", ![np[p]] = "none"]
  /\ UNCHANGED <<pid, parent, chan, killed, nextpid, plock, tlock, cpuVars, ipc,
                 saved, left, panicked>>

(* copyuvm() succeeds and np->parent is set, without ptable.lock.          *)
ForkCopy(c, p) ==
  /\ At(c, p, "fcopy")
  /\ parent' = [parent EXCEPT ![np[p]] = p]
  /\ Goto(p, "fready")
  /\ UNCHANGED <<state, pid, chan, killed, kstack, nextpid, plock, tlock, cpuVars,
                 ipc, saved, np, left, panicked>>

ForkReady(c, p) ==
  /\ At(c, p, "fready") /\ plock = NoCPU
  /\ state' = [state EXCEPT ![np[p]] = "RUNNABLE"]
  /\ np' = [np EXCEPT ![p] = NoProc]
  /\ Goto(p, "sysret")
  /\ UNCHANGED <<pid, parent, chan, killed, kstack, nextpid, plock, tlock, cpuVars,
                 ipc, saved, left, panicked>>

-----------------------------------------------------------------------------
Children(p) == {q \in Slot : parent[q] = p}
Zombies(p) == {q \in Children(p) : state[q] = "ZOMBIE"}

(* exit() of init panics; closing files and the directory is not modelled. *)
InitExits(c, p) ==
  /\ At(c, p, "exit") /\ p = initproc
  /\ panicked' = "init exiting"
  /\ UNCHANGED <<tableVars, plock, tlock, cpuVars, threadVars>>

(* Mutant: exit() wakes nobody.                                            *)
AfterExitSilent(p) == [state EXCEPT ![p] = "ZOMBIE"]

\* The states after exit(): the parent is woken, and init if it gets a zombie.
AfterExit(p) ==
  LET st == Woken(state, parent[p])
  IN  [(IF Zombies(p) # {} THEN Woken(st, initproc) ELSE st) EXCEPT ![p] = "ZOMBIE"]

(* Mutant: exit() leaves its children where they are.                      *)
HeirSelf(p, q) == parent[q]

\* The parent of q after p exits.
Heir(p, q) == IF parent[q] = p THEN initproc ELSE parent[q]

(* Mutant: exit() without ptable.lock.                                     *)
ExitUnlocked(c, p) ==
  /\ At(c, p, "exit") /\ p # initproc /\ plock = NoCPU
  /\ state' = AfterExit(p)
  /\ parent' = [q \in Slot |-> Heir(p, q)]
  /\ Goto(p, "zsched")
  /\ UNCHANGED <<pid, chan, killed, kstack, nextpid, plock, tlock, cpuVars, ipc, saved,
                 np, left, panicked>>

(* The critical section of exit(): wake the parent, give the children to   *)
(* init, become a ZOMBIE; sched() follows with the lock held.              *)
Exit(c, p) ==
  /\ At(c, p, "exit") /\ p # initproc /\ AcquireP(c)
  /\ state' = AfterExit(p)
  /\ parent' = [q \in Slot |-> Heir(p, q)]
  /\ Goto(p, "zsched")
  /\ UNCHANGED <<pid, chan, killed, kstack, nextpid, tlock, on, proc, cr3, ipc, saved,
                 np, left, panicked>>

(* The loop of wait(), with ptable.lock just acquired or still held after  *)
(* a sleep, leads to a return that releases the lock,                      *)
WaitReturns(c, p) ==
  \/ At(c, p, "wait") /\ plock = NoCPU /\ UNCHANGED <<plock, flagIF, intena, panicked>>
  \/ At(c, p, "wresume") /\ ResumeRelease(c, p)

(* or to another sleep.                                                    *)
WaitAgain(c, p) ==
  \/ At(c, p, "wait") /\ AcquireP(c) /\ UNCHANGED panicked
  \/ /\ At(c, p, "wresume") /\ UNCHANGED <<plock, flagIF, panicked>>
     /\ intena' = [intena EXCEPT ![c] = saved[p]]

(* wait() frees the first ZOMBIE child,                                    *)
Reap(c, p) ==
  /\ WaitReturns(c, p)
  /\ \E z \in Zombies(p) :
       /\ \A q \in Zombies(p) : z <= q
       /\ kstack' = [kstack EXCEPT ![z] = FALSE]
       /\ pid' = [pid EXCEPT ![z] = 0]
       /\ parent' = [parent EXCEPT ![z] = NoProc]
       /\ killed' = [killed EXCEPT ![z] = FALSE]
       /\ state' = [state EXCEPT ![z] = "UNUSED"]
       /\ pc' = [pc EXCEPT ![p] = "sysret", ![z] = "none"]
  /\ chan' = [chan EXCEPT ![p] = NoChan]
  /\ UNCHANGED <<nextpid, tlock, on, proc, cr3, ipc, saved, np, left>>

(* or gives up if there is no child or the process is killed,              *)
WaitFails(c, p) ==
  /\ WaitReturns(c, p)
  /\ Zombies(p) = {} /\ (Children(p) = {} \/ killed[p])
  /\ chan' = [chan EXCEPT ![p] = NoChan]
  /\ Goto(p, "sysret")
  /\ UNCHANGED <<state, pid, parent, killed, kstack, nextpid, tlock, on, proc, cr3, ipc,
                 saved, np, left>>

(* or sleeps on itself, keeping ptable.lock until sched() has switched.    *)
WaitSleep(c, p) ==
  /\ WaitAgain(c, p)
  /\ Zombies(p) = {} /\ Children(p) # {} /\ ~killed[p]
  /\ chan' = [chan EXCEPT ![p] = p]
  /\ state' = [state EXCEPT ![p] = "SLEEPING"]
  /\ Goto(p, "wsched")
  /\ UNCHANGED <<pid, parent, killed, kstack, nextpid, tlock, on, proc, cr3, ipc, saved,
                 np, left>>

(* Mutants: kill() makes any process RUNNABLE, or wakes none.              *)
KillStateAny(st) == "RUNNABLE"
KillStateSame(st) == st

\* The state of the target after kill().
KillState(st) == IF st = "SLEEPING" THEN "RUNNABLE" ELSE st

(* kill(k): the first slot with pid k, whatever its state.                 *)
Kill(c, p) ==
  /\ At(c, p, "kill") /\ plock = NoCPU
  /\ \E k \in KillArg :
       \/ \E q \in Slot :
            /\ pid[q] = k /\ \A r \in 1..(q - 1) : pid[r] # k
            /\ killed' = [killed EXCEPT ![q] = TRUE]
            /\ state' = [state EXCEPT ![q] = KillState(@)]
       \/ (\A q \in Slot : pid[q] # k) /\ UNCHANGED <<killed, state>>
  /\ Goto(p, "sysret")
  /\ UNCHANGED <<pid, parent, chan, kstack, nextpid, plock, tlock, cpuVars, ipc, saved,
                 np, left, panicked>>

-----------------------------------------------------------------------------
(* sys_sleep(n): acquire(&tickslock), ticks0 = ticks.                      *)
SleepStart(c, p) ==
  /\ At(c, p, "sleep") /\ AcquireT(c)
  /\ \E n \in SleepArg : left' = [left EXCEPT ![p] = n]
  /\ Goto(p, "sloop")
  /\ UNCHANGED <<tableVars, plock, on, proc, cr3, ipc, saved, np, panicked>>

(* The time is over or the process is killed: release(&tickslock).         *)
SleepDone(c, p) ==
  /\ At(c, p, "sloop")
  /\ left[p] = 0 \/ killed[p]
  /\ tlock' = NoCPU
  /\ flagIF' = [flagIF EXCEPT ![c] = intena[c]]
  /\ left' = [left EXCEPT ![p] = 0]
  /\ Goto(p, "sysret")
  /\ UNCHANGED <<tableVars, plock, on, proc, cr3, intena, ipc, saved, np, panicked>>

(* The time is not over and the process is not killed, yet: kill() needs   *)
(* ptable.lock only.                                                       *)
SleepTest(c, p) ==
  /\ At(c, p, "sloop")
  /\ left[p] > 0 /\ ~killed[p]
  /\ Goto(p, "sgo")
  /\ UNCHANGED <<tableVars, plock, tlock, cpuVars, ipc, saved, np, left, panicked>>

(* Mutant: sleep() releases tickslock before it acquires ptable.lock.      *)
SleepLockLate(c, p) ==
  /\ At(c, p, "sgo")
  /\ tlock' = NoCPU
  /\ Goto(p, "slock")
  /\ UNCHANGED <<tableVars, plock, cpuVars, ipc, saved, np, left, panicked>>

(* sleep(&ticks, &tickslock): acquire(&ptable.lock),                       *)
SleepLock(c, p) ==
  /\ At(c, p, "sgo") /\ AcquireP(c)
  /\ Goto(p, "slock")
  /\ UNCHANGED <<tableVars, tlock, on, proc, cr3, ipc, saved, np, left, panicked>>

(* release(&tickslock), and go to sleep;                                   *)
SleepGo(c, p) ==
  /\ At(c, p, "slock")
  /\ tlock' = NoCPU
  /\ chan' = [chan EXCEPT ![p] = TICKS]
  /\ state' = [state EXCEPT ![p] = "SLEEPING"]
  /\ Goto(p, "ssched")
  /\ UNCHANGED <<pid, parent, killed, kstack, nextpid, plock, cpuVars, ipc, saved, np,
                 left, panicked>>

(* woken: tidy up, release(&ptable.lock),                                  *)
SleepResume(c, p) ==
  /\ At(c, p, "sresume")
  /\ ResumeRelease(c, p)
  /\ chan' = [chan EXCEPT ![p] = NoChan]
  /\ Goto(p, "srelock")
  /\ UNCHANGED <<state, pid, parent, killed, kstack, nextpid, tlock, on, proc, cr3, ipc,
                 saved, np, left>>

(* acquire(&tickslock) again.                                              *)
SleepRelock(c, p) ==
  /\ At(c, p, "srelock") /\ AcquireT(c)
  /\ Goto(p, "sloop")
  /\ UNCHANGED <<tableVars, plock, on, proc, cr3, ipc, saved, np, left, panicked>>

-----------------------------------------------------------------------------
(* A timer interrupt, through an interrupt gate, of whatever thread runs.  *)
Interrupt(c, t) ==
  /\ Timer /\ Runs(c, t) /\ flagIF[c] /\ ipc[t] = "none"
  /\ flagIF' = [flagIF EXCEPT ![c] = FALSE]
  /\ GotoIrq(t, IF c = CPU0 THEN "tick" ELSE "tail")
  /\ UNCHANGED <<tableVars, plock, tlock, on, proc, cr3, intena, pc, saved, np, left,
                 panicked>>

(* trap(), timer, first processor: acquire(&tickslock), ticks++.           *)
Tick(c, t) ==
  /\ AtIrq(c, t, "tick") /\ AcquireT(c)
  /\ left' = [p \in Slot |-> IF left[p] > 0 THEN left[p] - 1 ELSE 0]
  /\ GotoIrq(t, "tickw")
  /\ UNCHANGED <<tableVars, plock, on, proc, cr3, pc, saved, np, panicked>>

(* wakeup(&ticks), release(&tickslock).                                    *)
TickWake(c, t) ==
  /\ AtIrq(c, t, "tickw") /\ plock = NoCPU
  /\ state' = Woken(state, TICKS)
  /\ tlock' = NoCPU
  /\ flagIF' = [flagIF EXCEPT ![c] = intena[c]]
  /\ GotoIrq(t, "tail")
  /\ UNCHANGED <<pid, parent, chan, killed, kstack, nextpid, plock, on, proc, cr3, intena,
                 pc, saved, np, left, panicked>>

FromUser(t) == pc[t] = "user"

(* The end of trap(): a killed process that was in user space exits,       *)
(* before or after the yield().                                            *)
IrqExit(c, p) ==
  /\ AtIrq(c, p, "tail") \/ AtIrq(c, p, "tail2")
  /\ proc[c] # NoProc /\ killed[p] /\ FromUser(p)
  /\ GotoIrq(p, "none") /\ Goto(p, "exit")
  /\ UNCHANGED <<tableVars, plock, tlock, cpuVars, saved, np, left, panicked>>

(* yield(): acquire(&ptable.lock), RUNNABLE; sched() follows.              *)
Yield(c, p) ==
  /\ AtIrq(c, p, "tail") /\ AcquireP(c)
  /\ proc[c] # NoProc /\ ~(killed[p] /\ FromUser(p)) /\ state[p] = "RUNNING"
  /\ state' = [state EXCEPT ![p] = "RUNNABLE"]
  /\ GotoIrq(p, "ysched")
  /\ UNCHANGED <<pid, parent, chan, killed, kstack, nextpid, tlock, on, proc, cr3, pc,
                 saved, np, left, panicked>>

YieldResume(c, p) ==
  /\ AtIrq(c, p, "yresume")
  /\ ResumeRelease(c, p)
  /\ GotoIrq(p, "tail2")
  /\ UNCHANGED <<tableVars, tlock, on, proc, cr3, pc, saved, np, left>>

(* iret: the interrupted code had interrupts on.                           *)
Iret(c, t) ==
  /\ \/ AtIrq(c, t, "tail") /\ (proc[c] # NoProc => state[proc[c]] # "RUNNING")
     \/ AtIrq(c, t, "tail2")
  /\ proc[c] # NoProc => ~(killed[proc[c]] /\ FromUser(t))
  /\ GotoIrq(t, "none")
  /\ flagIF' = [flagIF EXCEPT ![c] = TRUE]
  /\ UNCHANGED <<tableVars, plock, tlock, on, proc, cr3, intena, pc, saved, np, left,
                 panicked>>
-----------------------------------------------------------------------------
(* The kernel's own steps on processor c: it never stops taking them.      *)
SchedulerStep(c) == Sti(c) \/ ScanNone(c) \/ SwtchTo(c) \/ Back(c)

ForkStep(c, p) ==
  \/ AllocProc(c, p) \/ AllocProcFull(c, p) \/ AllocStack(c, p)
  \/ ForkFails(c, p) \/ ForkCopy(c, p) \/ ForkReady(c, p)

SleepStep(c, p) ==
  \/ SleepStart(c, p) \/ SleepDone(c, p) \/ SleepTest(c, p) \/ SleepLock(c, p)
  \/ SleepGo(c, p) \/ SleepResume(c, p) \/ SleepRelock(c, p)

SyscallStep(c, p) ==
  \/ Forkret(c, p) \/ SyscallExit(c, p)
  \/ ForkStep(c, p) \/ InitExits(c, p) \/ Exit(c, p)
  \/ Reap(c, p) \/ WaitFails(c, p) \/ WaitSleep(c, p) \/ Kill(c, p)
  \/ SleepStep(c, p)

YieldStep(c, p) ==
  \/ Sched(c, p) \/ IrqExit(c, p) \/ Yield(c, p) \/ YieldResume(c, p)

IrqStep(c, t) == Tick(c, t) \/ TickWake(c, t) \/ Iret(c, t)

UserStep(c, p) == Fault(c, p) \/ \E call \in Syscalls : SyscallEntry(c, p, call)

Step(c) ==
  \/ SchedulerStep(c)
  \/ \E p \in Slot : \/ Dispatch(c, p) \/ SyscallStep(c, p) \/ YieldStep(c, p)
                     \/ UserStep(c, p)
  \/ \E t \in Thread : Interrupt(c, t) \/ IrqStep(c, t)

(* After a panic nothing happens.                                          *)
Halted == panicked # "no" /\ UNCHANGED vars

Next == (\E c \in CPU : Step(c)) \/ Halted

Spec == Init /\ [][Next]_vars

KernelStep(c) ==
  \/ SchedulerStep(c)
  \/ \E p \in Slot : SyscallStep(c, p) \/ YieldStep(c, p)
  \/ \E t \in Thread : IrqStep(c, t)

(* For liveness, kernel code runs to its next switch between two clock     *)
(* ticks: an interrupt strikes user code or an idle scheduler.             *)
Calm ==
  \A c \in CPU, t \in Thread :
    Interrupt(c, t) => \/ pc[t] = "user"
                       \/ pc[t] = "scan" /\ \A p \in Slot : state[p] # "RUNNABLE"

(* Kernel code does not stop; the timer keeps ticking; init calls wait()   *)
(* again and again (init.c); and the choice of the scheduler starves       *)
(* nobody.  User code may loop forever.  For one processor only: a spin    *)
(* lock promises a second one nothing.                                     *)
Fairness ==
  \A c \in CPU :
    /\ WF_vars(KernelStep(c))
    /\ SF_vars(\E t \in Thread : Interrupt(c, t))
    /\ SF_vars(SyscallEntry(c, initproc, "wait"))
    /\ \A p \in Slot : SF_vars(Dispatch(c, p))

LiveSpec == Init /\ [][Next /\ Calm]_vars /\ Fairness
-----------------------------------------------------------------------------
TypeOK ==
  /\ state \in [Slot -> States] /\ pid \in [Slot -> Nat]
  /\ parent \in [Slot -> Slot \union {NoProc}] /\ chan \in [Slot -> Chan]
  /\ killed \in [Slot -> BOOLEAN] /\ kstack \in [Slot -> BOOLEAN]
  /\ nextpid \in Nat
  /\ plock \in CPU \union {NoCPU} /\ tlock \in CPU \union {NoCPU}
  /\ on \in [CPU -> Thread]
  /\ proc \in [CPU -> Slot \union {NoProc}] /\ cr3 \in [CPU -> Slot \union {NoProc}]
  /\ flagIF \in [CPU -> BOOLEAN] /\ intena \in [CPU -> BOOLEAN]
  /\ pc \in [Thread -> PC] /\ ipc \in [Thread -> IPC]
  /\ saved \in [Slot -> BOOLEAN] /\ np \in [Slot -> Slot \union {NoProc}]
  /\ left \in [Slot -> Nat]

(* No two processors run on the same kernel stack, and none runs on a      *)
(* kernel stack or with a page table that is not allocated: wait() frees   *)
(* an exited child's only after the child's processor has left them.       *)
StackSafe ==
  /\ \A c, d \in CPU : c # d => on[c] # on[d]
  /\ \A c \in CPU : on[c] \in Slot => kstack[on[c]]
  /\ \A c \in CPU : cr3[c] # NoProc => kstack[cr3[c]]

(* None of the panics that assert the locking discipline of sched(),       *)
(* scheduler(), exit() and switchuvm() is reachable.                       *)
NoPanic == panicked \in {"no", "init exiting"}

(* Outside the critical sections of ptable.lock, a process is RUNNING      *)
(* exactly when one processor runs on its stack, with its page table and   *)
(* with proc pointing to it.                                               *)
RunningExact ==
  plock = NoCPU =>
    /\ \A p \in Slot : state[p] = "RUNNING" <=> \E c \in CPU : on[c] = p
    /\ \A c \in CPU : on[c] \in Slot => proc[c] = on[c] /\ cr3[c] = on[c]
    /\ \A c \in CPU : on[c] = c => proc[c] = NoProc /\ cr3[c] = NoProc

(* The interrupt state belongs to the thread: a handler runs with          *)
(* interrupts off to its end, and a system call ends with interrupts on,   *)
(* although both may sleep or be preempted and resume on another           *)
(* processor, whose intena some other thread has set.                      *)
InterruptsKept ==
  \A c \in CPU, p \in Slot :
    on[c] = p =>
      /\ ipc[p] # "none" => ~flagIF[c]
      /\ ipc[p] = "none" /\ pc[p] \in {"user", "sysret"} => flagIF[c]

(* Switching is safe: sched() and scheduler() never panic, RUNNING means   *)
(* on a processor, and every thread finds its own interrupt state.         *)
SchedSafe == NoPanic /\ RunningExact /\ InterruptsKept

(* Two slots in use never have the same pid, so kill() and the second loop *)
(* of scheduler(), which look for a pid, find one process at most.         *)
PidUnique ==
  \A p, q \in Slot :
    p # q /\ state[p] # "UNUSED" /\ state[q] # "UNUSED" => pid[p] # pid[q]

(* Every process but init has a parent that can still wait for it: exit()  *)
(* leaves no process with a parent that is gone or is itself a zombie,     *)
(* although fork() writes np->parent without ptable.lock.                  *)
ParentAlive ==
  \A p \in Slot :
    p # initproc /\ state[p] \notin {"UNUSED", "EMBRYO"} =>
      /\ parent[p] # NoProc
      /\ state[parent[p]] \notin {"UNUSED", "EMBRYO", "ZOMBIE"}

(* fork(), exit() and wait() keep the table in order: pids are unique and  *)
(* every process has somebody to wait for it.                              *)
FamilyExact == PidUnique /\ ParentAlive

(* No lost wakeup in wait(): a process sleeping there has a child to wait  *)
(* for, none of its children is a zombie, and it has not been killed.      *)
WaitWakeup ==
  \A p \in Slot :
    plock = NoCPU /\ state[p] = "SLEEPING" /\ pc[p] = "wresume" =>
      Children(p) # {} /\ Zombies(p) = {} /\ ~killed[p]

(* No lost wakeup in sys_sleep(): once the clock interrupt is over, nobody *)
(* sleeps whose time has come.                                             *)
SleepWakeup ==
  \A p \in Slot :
    tlock = NoCPU /\ state[p] = "SLEEPING" /\ pc[p] = "sresume" => left[p] > 0

(* exit() never returns: a zombie only ever becomes a free slot, and by    *)
(* then no thread of it is left on any processor.                          *)
ZombieFinal ==
  [][\A p \in Slot :
       state[p] = "ZOMBIE" /\ state'[p] # "ZOMBIE" =>
         state'[p] = "UNUSED" /\ \A c \in CPU : on[c] # p /\ cr3[c] # p]_vars

(* A process is created without the killed flag ("If non-zero, have been   *)
(* killed", proc.h): nobody can have killed it yet.                        *)
NewbornNotKilled ==
  [][\A p \in Slot :
       state[p] = "UNUSED" /\ state'[p] = "EMBRYO" => ~killed'[p]]_vars

(* A killed process exits, wherever it was: in user space, in the kernel,  *)
(* asleep, or just about to sleep when kill() looked at it.                *)
KilledExits ==
  \A p \in Slot \ {initproc} :
    killed[p] /\ state[p] \in {"RUNNABLE", "RUNNING", "SLEEPING"}
      ~> state[p] \in {"ZOMBIE", "UNUSED"}

(* sys_sleep() returns.                                                    *)
SleepReturns ==
  \A p \in Slot : pc[p] = "sresume" ~> pc[p] \in {"sysret", "exit"}

(* A process whose parent is gone is reaped by init after it exits.        *)
OrphanReaped ==
  \A p \in Slot :
    state[p] = "ZOMBIE" /\ parent[p] = initproc ~> state[p] = "UNUSED"

(* Processes go: who is killed exits, and who exits is reaped, by init if  *)
(* the parent is gone.                                                     *)
ProcessesEnd == KilledExits /\ OrphanReaped
=============================================================================
