------------------------------- MODULE Stride -------------------------------
(***************************************************************************)
(* The stride scheduling of scheduler() and set_tickets() in proc.c.       *)
(*                                                                         *)
(* The scan for the smallest pass is modelled iteration by iteration, with *)
(* its local variables and its sentinel min_pass = -1.  What the processes *)
(* do between being dispatched and giving up the processor is reduced to   *)
(* what the scan sees: their state, tickets and pass.  (Proc.tla models    *)
(* the switch itself, with the choice left open.)  A process is identified *)
(* by its slot where the code compares pids: Proc shows them unique.       *)
(***************************************************************************)
EXTENDS Integers

CONSTANTS
  CPU,         \* the processors
  NPROC,       \* slots of the process table
  NoCPU,       \* ptable.lock is free
  NoProc,      \* no process
  BIG,         \* 10000, the constant the stride is a fraction of
  IntMax,      \* the largest int; the type wraps beyond it
  TicketArg    \* the arguments of set_tickets()

Slot == 1..NPROC

ASSUME StrideAssumption ==
  /\ NPROC \in Nat \ {0}
  /\ BIG \in Nat \ {0} /\ IntMax \in Nat /\ BIG <= IntMax
  /\ TicketArg \subseteq Nat \ {0}
  /\ NoCPU \notin CPU /\ NoProc \notin Slot

VARIABLES
  state,      \* p->state; "blocked" is SLEEPING, or EMBRYO once initialised
  tickets,    \* p->tickets
  pass,       \* p->pass
  running,    \* the per-processor variable proc
  plock,      \* the processor in scheduler()'s critical section
  i,          \* the loop counter of the scan
  min_pass,   \* its local min_pass
  winner      \* its local w_pid

vars == <<state, tickets, pass, running, plock, i, min_pass, winner>>

\* 10000/tickets, and the int sum of a pass and a stride, which wraps.
StrideOf(t) == BIG \div t
Wrap(x) == IF x > IntMax THEN x - 2 * (IntMax + 1) ELSE x

Runnable == {p \in Slot : state[p] = "RUNNABLE"}

(* userinit() has created the first process; allocproc() gives a process   *)
(* one ticket and a pass of 1.                                             *)
Init ==
  /\ state = [p \in Slot |-> IF p = 1 THEN "RUNNABLE" ELSE "UNUSED"]
  /\ tickets = [p \in Slot |-> 1]
  /\ pass = [p \in Slot |-> 1]
  /\ running = [c \in CPU |-> NoProc]
  /\ plock = NoCPU
  /\ i = 1 /\ min_pass = -1
  /\ winner = [c \in CPU |-> NoProc]

-----------------------------------------------------------------------------
(* scheduler(), top of the loop: min_pass = -1, acquire(&ptable.lock).     *)
StartScan(c) ==
  /\ plock = NoCPU /\ running[c] = NoProc
  /\ plock' = c
  /\ i' = 1 /\ min_pass' = -1
  /\ UNCHANGED <<state, tickets, pass, running, winner>>

(* Mutant: the sentinel test also fires when the smallest pass is 0.       *)
ScanStepZero(c) ==
  /\ plock = c /\ i <= NPROC
  /\ IF state[i] = "RUNNABLE" /\ (pass[i] < min_pass \/ min_pass <= 0)
     THEN min_pass' = pass[i] /\ winner' = [winner EXCEPT ![c] = i]
     ELSE UNCHANGED <<min_pass, winner>>
  /\ i' = i + 1
  /\ UNCHANGED <<state, tickets, pass, running, plock>>

(* Mutant: the scan compares the wrong way round.                          *)
ScanStepMax(c) ==
  /\ plock = c /\ i <= NPROC
  /\ IF state[i] = "RUNNABLE" /\ (pass[i] > min_pass \/ min_pass < 0)
     THEN min_pass' = pass[i] /\ winner' = [winner EXCEPT ![c] = i]
     ELSE UNCHANGED <<min_pass, winner>>
  /\ i' = i + 1
  /\ UNCHANGED <<state, tickets, pass, running, plock>>

(* One iteration of the first loop.                                        *)
ScanStep(c) ==
  /\ plock = c /\ i <= NPROC
  /\ IF state[i] = "RUNNABLE" /\ (pass[i] < min_pass \/ min_pass < 0)
     THEN min_pass' = pass[i] /\ winner' = [winner EXCEPT ![c] = i]
     ELSE UNCHANGED <<min_pass, winner>>
  /\ i' = i + 1
  /\ UNCHANGED <<state, tickets, pass, running, plock>>

(* The second loop finds the winner: charge it one stride and run it.      *)
Dispatch(c) ==
  /\ plock = c /\ i > NPROC
  /\ winner[c] \in Runnable
  /\ LET p == winner[c]
     IN  /\ pass' = [pass EXCEPT ![p] = Wrap(@ + StrideOf(tickets[p]))]
         /\ state' = [state EXCEPT ![p] = "RUNNING"]
         /\ running' = [running EXCEPT ![c] = p]
  /\ plock' = NoCPU
  /\ i' = 1 /\ min_pass' = -1
  /\ UNCHANGED <<tickets, winner>>

(* The second loop finds nobody: w_pid is left from an earlier scan.       *)
NobodyRunnable(c) ==
  /\ plock = c /\ i > NPROC
  /\ winner[c] \notin Runnable
  /\ plock' = NoCPU
  /\ i' = 1 /\ min_pass' = -1
  /\ UNCHANGED <<state, tickets, pass, running, winner>>

(* The process running on c gives up the processor: yield(), sleep() or,   *)
(* for good, exit().                                                       *)
GiveUp(c, st) ==
  /\ plock = NoCPU /\ running[c] # NoProc
  /\ state' = [state EXCEPT ![running[c]] = st]
  /\ running' = [running EXCEPT ![c] = NoProc]
  /\ UNCHANGED <<tickets, pass, plock, i, min_pass, winner>>

Yield(c) == GiveUp(c, "RUNNABLE")
Sleep(c) == GiveUp(c, "blocked")
Exit(c) == running[c] # 1 /\ GiveUp(c, "UNUSED")

(* wakeup(), or the end of fork(): the process becomes RUNNABLE.           *)
Ready(p) ==
  /\ plock = NoCPU /\ state[p] = "blocked"
  /\ state' = [state EXCEPT ![p] = "RUNNABLE"]
  /\ UNCHANGED <<tickets, pass, running, plock, i, min_pass, winner>>

(* allocproc(), called by a running process: takes a free slot,           *)
AllocProc(c, p) ==
  /\ plock = NoCPU /\ running[c] # NoProc /\ state[p] = "UNUSED"
  /\ state' = [state EXCEPT ![p] = "EMBRYO"]
  /\ UNCHANGED <<tickets, pass, running, plock, i, min_pass, winner>>

(* and after the release of ptable.lock sets the fields.                   *)
InitFields(p) ==
  /\ state[p] = "EMBRYO"
  /\ tickets' = [tickets EXCEPT ![p] = 1]
  /\ pass' = [pass EXCEPT ![p] = 1]
  /\ state' = [state EXCEPT ![p] = "blocked"]
  /\ UNCHANGED <<running, plock, i, min_pass, winner>>

(* Mutant: set_tickets() stores one ticket too few.                        *)
SetTicketsLess(c, n) ==
  /\ running[c] # NoProc
  /\ tickets' = [tickets EXCEPT ![running[c]] = n - 1]
  /\ pass' = [pass EXCEPT ![running[c]] = StrideOf(n)]
  /\ UNCHANGED <<state, running, plock, i, min_pass, winner>>

(* set_tickets(n) by the process running on c, without ptable.lock.        *)
SetTickets(c, n) ==
  /\ running[c] # NoProc
  /\ tickets' = [tickets EXCEPT ![running[c]] = n]
  /\ pass' = [pass EXCEPT ![running[c]] = StrideOf(n)]
  /\ UNCHANGED <<state, running, plock, i, min_pass, winner>>

Scheduler(c) ==
  StartScan(c) \/ ScanStep(c) \/ Dispatch(c) \/ NobodyRunnable(c)

Next ==
  \/ \E c \in CPU : Scheduler(c) \/ Yield(c) \/ Sleep(c) \/ Exit(c)
  \/ \E c \in CPU, p \in Slot : AllocProc(c, p)
  \/ \E c \in CPU, n \in TicketArg : SetTickets(c, n)
  \/ \E p \in Slot : InitFields(p) \/ Ready(p)

Spec == Init /\ [][Next]_vars
-----------------------------------------------------------------------------
(* A fixed mix of processes that compute, as test.c, test1.c and test2.c   *)
(* run together: each has called set_tickets() and only the clock takes    *)
(* the processor from it.                                                  *)
MixInit ==
  /\ tickets \in [Slot -> TicketArg]
  /\ pass = [p \in Slot |-> StrideOf(tickets[p])]
  /\ state = [p \in Slot |-> "RUNNABLE"]
  /\ running = [c \in CPU |-> NoProc]
  /\ plock = NoCPU
  /\ i = 1 /\ min_pass = -1
  /\ winner = [c \in CPU |-> NoProc]

MixNext == \E c \in CPU : Scheduler(c) \/ Yield(c)

(* Up to the first overflow of a pass.                                     *)
NoOverflow == \A p \in Slot : pass'[p] >= pass[p]
MixSpec == MixInit /\ [][MixNext /\ NoOverflow]_vars

(* With overflow, and a clock that keeps taking the processor away.        *)
MixLiveSpec ==
  /\ MixInit /\ [][MixNext]_vars
  /\ \A c \in CPU : WF_vars(Scheduler(c)) /\ WF_vars(Yield(c))
-----------------------------------------------------------------------------
TypeOK ==
  /\ state \in [Slot -> {"UNUSED", "EMBRYO", "blocked", "RUNNABLE", "RUNNING"}]
  /\ tickets \in [Slot -> Nat \ {0}]
  /\ pass \in [Slot -> -(IntMax + 1)..IntMax]
  /\ running \in [CPU -> Slot \union {NoProc}]
  /\ plock \in CPU \union {NoCPU}
  /\ i \in 1..(NPROC + 1) /\ min_pass \in -(IntMax + 1)..IntMax
  /\ winner \in [CPU -> Slot \union {NoProc}]

(* The process a scan chooses has the smallest pass of all RUNNABLE        *)
(* processes, if no pass has overflowed, whatever happens to the other     *)
(* processes during the scan and although w_pid and the passes are not     *)
(* reset or locked: set_tickets() and allocproc() write without the lock.  *)
ChosenIsMinimal ==
  \A c \in CPU :
    plock = c /\ i > NPROC /\ Runnable # {} /\ (\A p \in Runnable : pass[p] >= 0) =>
      /\ winner[c] \in Runnable
      /\ \A p \in Runnable : pass[winner[c]] <= pass[p]

(* Shares are proportional to tickets: in a fixed mix on one processor, no *)
(* process gets ahead of another by more than one of its strides, so after *)
(* any time the number of dispatches times the stride is the same for all, *)
(* up to a stride.                                                         *)
LagBound ==
  \A p, q \in Slot : pass[p] - StrideOf(tickets[p]) <= pass[q]

(* "Give up the CPU for one scheduling round" (yield(), proc.c): a process *)
(* that yields runs again.                                                 *)
YieldReturns ==
  \A p \in Slot : state[p] = "RUNNABLE" ~> state[p] = "RUNNING"
=============================================================================
