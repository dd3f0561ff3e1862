----------------------------- MODULE Schedulers -----------------------------
(***************************************************************************)
(* The schedulers of proc.c that can stand in for scheduler(): the lottery *)
(* scheduler1() and the round robin scheduler2().  Both go on with the     *)
(* same pass over the table after a process has run, with what they        *)
(* computed before it did.  (Stride models scheduler(), which runs one     *)
(* process per pass, and the field p->pass, which these two do not read.)  *)
(***************************************************************************)
EXTENDS Integers, FiniteSetsExt, Functions

CONSTANTS
  CPU,          \* the processors
  NPROC,        \* slots of the process table
  NoCPU,        \* ptable.lock is free
  NoProc,       \* no process
  Which,        \* the scheduler that every processor calls
  TicketArg,    \* the arguments of set_tickets()
  MaxTotal      \* bound on total_tickets

Slot == 1 .. NPROC

SchedulersAssumption ==
  /\ NPROC \in Nat \ {0} /\ MaxTotal \in Nat
  /\ Which \in {"scheduler1", "scheduler2"}
  /\ TicketArg \subseteq Nat \ {0}
  /\ NoCPU \notin CPU /\ NoProc \notin Slot

VARIABLES
  state,           \* p->state
  tickets,         \* p->tickets
  total_tickets,
  proc,            \* the per-processor variable
  plock,           \* the processor that holds ptable.lock
  i,               \* the slot the loop has come to
  winner,          \* scheduler1: the ticket drawn
  counter,         \* scheduler1: the tickets counted so far
  first            \* no process has run yet in this pass over the table

locals == <<i, winner, counter, first>>
vars == <<state, tickets, total_tickets, proc, plock, locals>>

\* userinit() has made one process; the others exist and sleep.
Init ==
  /\ state = [p \in Slot |-> IF p = 1 THEN "RUNNABLE" ELSE "SLEEPING"]
  /\ tickets = [p \in Slot |-> 1]
  /\ total_tickets = 0
  /\ proc = [c \in CPU |-> NoProc] /\ plock = NoCPU
  /\ i = [c \in CPU |-> 1] /\ winner = [c \in CPU |-> 0] /\ counter = [c \in CPU |-> 0]
  /\ first = [c \in CPU |-> TRUE]

Runnable(p) == state[p] = "RUNNABLE"

(* Mutant: counter is set to 0 once, before the loop.                      *)
CounterKept(c) == UNCHANGED counter

CounterReset(c) == counter' = [counter EXCEPT ![c] = 0]

\* The top of the loop: draw a ticket, take the lock.  rndm_gen() is
\* modelled by its range after % (total_tickets + 1).
StartPass(c) ==
  /\ plock = NoCPU /\ proc[c] = NoProc
  /\ plock' = c
  /\ i' = [i EXCEPT ![c] = 1] /\ first' = [first EXCEPT ![c] = TRUE]
  /\ IF Which = "scheduler1"
     THEN (\E w \in 0 .. total_tickets : winner' = [winner EXCEPT ![c] = w]) /\ CounterReset(c)
     ELSE UNCHANGED <<winner, counter>>
  /\ UNCHANGED <<state, tickets, total_tickets, proc>>

\* Run p on c; the process releases ptable.lock.
SwitchTo(c, p) ==
  /\ state' = [state EXCEPT ![p] = "RUNNING"]
  /\ proc' = [proc EXCEPT ![c] = p]
  /\ plock' = NoCPU
  /\ first' = [first EXCEPT ![c] = FALSE]

\* scheduler1: counter + p->tickets, and whether it reaches the winner
Counted(c) == counter[c] + tickets[i[c]]

(* Mutant: the loop is left after a process has run.                       *)
AfterRunBreak(c) == NPROC + 1

AfterRun(c) == i[c] + 1

\* One iteration of scheduler1's loop.
LotteryStep(c) ==
  /\ Which = "scheduler1" /\ plock = c /\ i[c] <= NPROC
  /\ i' = [i EXCEPT ![c] = IF Runnable(@) /\ Counted(c) >= winner[c] THEN AfterRun(c) ELSE @ + 1]
  /\ IF Runnable(i[c])
     THEN /\ counter' = [counter EXCEPT ![c] = Counted(c)]
          /\ IF Counted(c) >= winner[c] THEN SwitchTo(c, i[c])
             ELSE UNCHANGED <<state, proc, plock, first>>
     ELSE UNCHANGED <<counter, state, proc, plock, first>>
  /\ UNCHANGED <<tickets, total_tickets, winner>>

\* One iteration of scheduler2's loop.
RobinStep(c) ==
  /\ Which = "scheduler2" /\ plock = c /\ i[c] <= NPROC
  /\ i' = [i EXCEPT ![c] = IF Runnable(@) THEN AfterRun(c) ELSE @ + 1]
  /\ IF Runnable(i[c]) THEN SwitchTo(c, i[c]) ELSE UNCHANGED <<state, proc, plock, first>>
  /\ UNCHANGED <<tickets, total_tickets, winner, counter>>

\* The end of the loop of scheduler1 and scheduler2.
EndPass(c) ==
  /\ plock = c /\ i[c] > NPROC
  /\ plock' = NoCPU
  /\ UNCHANGED <<state, tickets, total_tickets, proc, locals>>

Step(c) == LotteryStep(c) \/ RobinStep(c) \/ EndPass(c)
-----------------------------------------------------------------------------
\* The process on c takes the lock and switches back: yield() or sleep().
GiveUp(c, st) ==
  /\ plock = NoCPU /\ proc[c] # NoProc
  /\ state' = [state EXCEPT ![proc[c]] = st]
  /\ proc' = [proc EXCEPT ![c] = NoProc]
  /\ plock' = c
  /\ UNCHANGED <<tickets, total_tickets, locals>>

Yield(c) == GiveUp(c, "RUNNABLE")
Sleep(c) == GiveUp(c, "SLEEPING")

\* wakeup(p), under the lock
Wakeup(p) ==
  /\ plock = NoCPU /\ state[p] = "SLEEPING"
  /\ state' = [state EXCEPT ![p] = "RUNNABLE"]
  /\ UNCHANGED <<tickets, total_tickets, proc, plock, locals>>

\* set_tickets(n) by the process on c, without the lock
SetTickets(c, n) ==
  /\ proc[c] # NoProc /\ total_tickets + n <= MaxTotal
  /\ total_tickets' = total_tickets + n
  /\ tickets' = [tickets EXCEPT ![proc[c]] = n]
  /\ UNCHANGED <<state, proc, plock, locals>>

Next ==
  \/ \E c \in CPU : StartPass(c) \/ Step(c) \/ Yield(c) \/ Sleep(c)
  \/ \E p \in Slot : Wakeup(p)
  \/ \E c \in CPU, n \in TicketArg : SetTickets(c, n)

Spec == Init /\ [][Next]_vars

\* The scheduler goes on, and the clock takes the processor away.
FairSpec ==
  /\ Spec
  /\ \A c \in CPU : WF_vars(StartPass(c)) /\ WF_vars(Step(c)) /\ WF_vars(Yield(c))
-----------------------------------------------------------------------------
\* The tickets of the RUNNABLE processes of the slots up to p.
TicketsUpTo(p) == SumFunctionOnSet(tickets, {q \in Slot : q <= p /\ Runnable(q)})

Dispatches(c) == proc[c] = NoProc /\ proc'[c] # NoProc

(* The lottery is won by the ticket drawn: the first process that a pass   *)
(* runs is the RUNNABLE process whose tickets, counted along the table,    *)
(* contain the winner (ticket 0 counts as the first), whatever the other   *)
(* processors do to tickets and states meanwhile.                          *)
HolderRunsFirst ==
  [][\A c \in CPU : Dispatches(c) /\ first[c] =>
       LET p == proc'[c]
           w == Max({1, winner[c]})
       IN  TicketsUpTo(p) - tickets[p] < w /\ w <= TicketsUpTo(p)]_vars

(* Round robin starves nobody: a RUNNABLE process runs, although the scan  *)
(* goes on with the next slot after each process that ran.                 *)
RobinRuns == \A p \in Slot : Runnable(p) ~> state[p] = "RUNNING"
=============================================================================
