---------------------------- MODULE StrideProofs ----------------------------
(***************************************************************************)
(* The scan of scheduler() finds the smallest pass, and the shares of a    *)
(* fixed mix of processes follow their tickets: for every table size,      *)
(* every constant in place of 10000 and every width of int.                *)
(***************************************************************************)
EXTENDS Stride, TLAPS

(* The RUNNABLE slots the scan has seen.                                   *)
Seen == {p \in Slot : p < i /\ state[p] = "RUNNABLE"}

(* A process recorded as running on a processor is RUNNING, and on that    *)
(* processor only.                                                         *)
RunInv ==
  \A c \in CPU :
    running[c] # NoProc =>
      /\ state[running[c]] = "RUNNING"
      /\ \A d \in CPU : d # c => running[d] # running[c]

(* The loop invariant of the scan: unless a pass has overflowed, the       *)
(* sentinel is still there or the winner is the best slot seen.            *)
ScanInv ==
  plock # NoCPU /\ (\A p \in Seen : pass[p] >= 0) =>
    \/ Seen = {} /\ min_pass = -1
    \/ /\ winner[plock] \in Seen
       /\ min_pass = pass[winner[plock]]
       /\ \A p \in Seen : min_pass <= pass[p]

IInv == TypeOK /\ RunInv /\ ScanInv

-----------------------------------------------------------------------------
(* A stride is between 0 and BIG, and a wrapped sum is an int.             *)
LEMMA StrideRange ==
  ASSUME NEW t \in Nat \ {0}
  PROVE  StrideOf(t) \in 0..BIG
  BY StrideAssumption DEF StrideOf

(* The int sum of a pass and a stride is an int.                           *)
LEMMA WrapRange ==
  ASSUME NEW x \in -(IntMax + 1)..IntMax, NEW y \in 0..BIG
  PROVE  /\ Wrap(x + y) \in -(IntMax + 1)..IntMax
         /\ Wrap(x + y) <= x + y
  BY StrideAssumption DEF Wrap

(* The invariant holds initially.                                          *)
LEMMA InitInv == Init => IInv
  BY StrideAssumption DEF Init, IInv, TypeOK, RunInv, ScanInv, Slot

(* Every step keeps the inductive invariant.                               *)
LEMMA StartScanStep ==
  ASSUME IInv, NEW c \in CPU, StartScan(c) PROVE IInv'
<1>1. TypeOK' /\ RunInv'
  BY StrideAssumption DEF IInv, TypeOK, RunInv, StartScan
<1>2. Seen' = {} /\ min_pass' = -1
  BY StrideAssumption DEF StartScan, Seen, Slot
<1>q. QED  BY <1>1, <1>2 DEF IInv, ScanInv

(* An iteration of the scan keeps the invariant.                           *)
LEMMA ScanStepStep ==
  ASSUME IInv, NEW c \in CPU, ScanStep(c) PROVE IInv'
<1>1. i \in Slot /\ plock = c /\ c # NoCPU
  BY StrideAssumption DEF IInv, TypeOK, ScanStep, Slot
<1>2. TypeOK' /\ RunInv'
  <2>1. min_pass' \in -(IntMax + 1)..IntMax /\ i' \in 1..(NPROC + 1)
    BY <1>1, StrideAssumption DEF IInv, TypeOK, ScanStep, Slot
  <2>2. winner' \in [CPU -> Slot \union {NoProc}]
    BY <1>1, Zenon DEF IInv, TypeOK, ScanStep
  <2>q. QED  BY <2>1, <2>2 DEF IInv, TypeOK, RunInv, ScanStep
<1>3. Seen' = IF state[i] = "RUNNABLE" THEN Seen \union {i} ELSE Seen
  BY <1>1, StrideAssumption DEF IInv, TypeOK, ScanStep, Seen, Slot
<1>4. SUFFICES ASSUME \A p \in Seen' : pass[p] >= 0
               PROVE  \/ Seen' = {} /\ min_pass' = -1
                      \/ /\ winner'[c] \in Seen'
                         /\ min_pass' = pass[winner'[c]]
                         /\ \A p \in Seen' : min_pass' <= pass[p]
  BY <1>1, <1>2 DEF IInv, ScanInv, ScanStep
<1>5. \/ Seen = {} /\ min_pass = -1
      \/ /\ winner[c] \in Seen
         /\ min_pass = pass[winner[c]] /\ min_pass >= 0
         /\ \A p \in Seen : min_pass <= pass[p]
  BY <1>1, <1>3, <1>4 DEF IInv, ScanInv
<1>6. pass \in [Slot -> Int] /\ min_pass \in Int /\ Seen \subseteq Slot
  BY StrideAssumption DEF IInv, TypeOK, Seen
<1>7. CASE state[i] = "RUNNABLE" /\ (pass[i] < min_pass \/ min_pass < 0)
  <2>1. min_pass' = pass[i] /\ winner'[c] = i
    BY <1>7 DEF IInv, TypeOK, ScanStep
  <2>q. QED  BY <1>1, <1>3, <1>5, <1>6, <1>7, <2>1
<1>8. CASE ~(state[i] = "RUNNABLE" /\ (pass[i] < min_pass \/ min_pass < 0))
  <2>1. min_pass' = min_pass /\ winner' = winner
    BY <1>8 DEF ScanStep
  <2>q. QED  BY <1>1, <1>3, <1>5, <1>6, <1>8, <2>1
<1>q. QED  BY <1>7, <1>8

(* Dispatching the winner keeps the invariant.                             *)
LEMMA DispatchStep ==
  ASSUME IInv, NEW c \in CPU, Dispatch(c) PROVE IInv'
<1>1. winner[c] \in Slot /\ state[winner[c]] = "RUNNABLE"
  BY DEF Dispatch, Runnable
<1>2. Wrap(pass[winner[c]] + StrideOf(tickets[winner[c]])) \in -(IntMax + 1)..IntMax
  BY <1>1, StrideRange, WrapRange DEF IInv, TypeOK
<1>3. TypeOK'
  BY <1>1, <1>2, StrideAssumption DEF IInv, TypeOK, Dispatch
<1>4. RunInv'
  BY <1>1, StrideAssumption DEF IInv, TypeOK, RunInv, Dispatch
<1>5. ScanInv'
  BY DEF Dispatch, ScanInv
<1>q. QED  BY <1>3, <1>4, <1>5 DEF IInv

(* A scan that finds nobody keeps the invariant.                           *)
LEMMA NobodyStep ==
  ASSUME IInv, NEW c \in CPU, NobodyRunnable(c) PROVE IInv'
  BY StrideAssumption DEF IInv, TypeOK, RunInv, ScanInv, NobodyRunnable

(* yield(), sleep() and exit() keep the invariant.                         *)
LEMMA GiveUpStep ==
  ASSUME IInv, NEW c \in CPU, NEW st \in {"RUNNABLE", "blocked", "UNUSED"}, GiveUp(c, st)
  PROVE  IInv'
<1>1. TypeOK'
  BY StrideAssumption DEF IInv, TypeOK, GiveUp
<1>2. RunInv'
  BY StrideAssumption DEF IInv, TypeOK, RunInv, GiveUp
<1>3. ScanInv'
  BY DEF GiveUp, ScanInv
<1>q. QED  BY <1>1, <1>2, <1>3 DEF IInv

(* wakeup() keeps the invariant.                                           *)
LEMMA ReadyStep ==
  ASSUME IInv, NEW p \in Slot, Ready(p) PROVE IInv'
  BY DEF IInv, TypeOK, RunInv, ScanInv, Ready

(* allocproc() keeps the invariant.                                        *)
LEMMA AllocProcStep ==
  ASSUME IInv, NEW c \in CPU, NEW p \in Slot, AllocProc(c, p) PROVE IInv'
  BY DEF IInv, TypeOK, RunInv, ScanInv, AllocProc

(* The writes without ptable.lock do not touch a RUNNABLE process.         *)
LEMMA InitFieldsStep ==
  ASSUME IInv, NEW p \in Slot, InitFields(p) PROVE IInv'
<1>1. TypeOK' /\ RunInv'
  BY StrideAssumption DEF IInv, TypeOK, RunInv, InitFields
<1>2. Seen' = Seen /\ \A q \in Seen : pass'[q] = pass[q]
  BY DEF IInv, TypeOK, InitFields, Seen
<1>q. QED  BY <1>1, <1>2 DEF IInv, ScanInv, InitFields

(* set_tickets(), without the lock, keeps the invariant.                   *)
LEMMA SetTicketsStep ==
  ASSUME IInv, NEW c \in CPU, NEW n \in TicketArg, SetTickets(c, n) PROVE IInv'
<1>1. n \in Nat \ {0} /\ StrideOf(n) \in 0..BIG
  BY StrideAssumption, StrideRange
<1>2. TypeOK' /\ RunInv'
  BY <1>1, StrideAssumption DEF IInv, TypeOK, RunInv, SetTickets
<1>3. Seen' = Seen /\ \A q \in Seen : pass'[q] = pass[q]
  BY DEF IInv, TypeOK, RunInv, SetTickets, Seen
<1>q. QED  BY <1>2, <1>3 DEF IInv, ScanInv, SetTickets

(* Every step of scheduler() and of the processes keeps the invariant.     *)
LEMMA InductiveInv == IInv /\ [Next]_vars => IInv'
<1>1. SUFFICES ASSUME IInv, [Next]_vars PROVE IInv'
  OBVIOUS
<1>2. CASE UNCHANGED vars
  BY <1>1, <1>2 DEF IInv, TypeOK, RunInv, ScanInv, Seen, vars
<1>3. CASE \E c \in CPU : Scheduler(c)
  BY <1>1, <1>3, StartScanStep, ScanStepStep, DispatchStep, NobodyStep DEF Scheduler
<1>4. CASE \E c \in CPU : Yield(c) \/ Sleep(c) \/ Exit(c)
  BY <1>1, <1>4, GiveUpStep DEF Yield, Sleep, Exit
<1>5. CASE \E c \in CPU, p \in Slot : AllocProc(c, p)
  BY <1>1, <1>5, AllocProcStep
<1>6. CASE \E c \in CPU, n \in TicketArg : SetTickets(c, n)
  BY <1>1, <1>6, SetTicketsStep
<1>7. CASE \E p \in Slot : InitFields(p) \/ Ready(p)
  BY <1>1, <1>7, InitFieldsStep, ReadyStep
<1>q. QED  BY <1>1, <1>2, <1>3, <1>4, <1>5, <1>6, <1>7 DEF Next

(* The types and the loop invariant hold in every execution.               *)
THEOREM Invariance == Spec => []IInv
  BY InitInv, InductiveInv, PTL DEF Spec

(* The invariant of a finished scan says that the winner is minimal.       *)
LEMMA InvImpliesMinimal == IInv => ChosenIsMinimal
<1>1. SUFFICES ASSUME IInv, NEW c \in CPU, plock = c, i > NPROC, Runnable # {},
                      \A p \in Runnable : pass[p] >= 0
               PROVE  /\ winner[c] \in Runnable
                      /\ \A p \in Runnable : pass[winner[c]] <= pass[p]
  BY DEF ChosenIsMinimal
<1>2. Seen = Runnable /\ plock # NoCPU
  BY <1>1, StrideAssumption DEF IInv, TypeOK, Seen, Runnable, Slot
<1>q. QED  BY <1>1, <1>2 DEF IInv, ScanInv

(* The process chosen has the smallest pass, for every table size.         *)
THEOREM ChosenIsMinimalHolds == Spec => []ChosenIsMinimal
  BY Invariance, InvImpliesMinimal, PTL

-----------------------------------------------------------------------------
(* In a fixed mix every process is RUNNABLE or on a processor, a scanning  *)
(* processor runs none, and nobody is more than a stride ahead.            *)
MixInv ==
  /\ IInv
  /\ \A p \in Slot : pass[p] >= 0 /\ (state[p] = "RUNNABLE" \/ \E c \in CPU : running[c] = p)
  /\ plock # NoCPU => running[plock] = NoProc
  /\ LagBound

(* The invariant of the fixed mix holds initially.                         *)
LEMMA MixInitInv == MixInit => MixInv
<1>1. SUFFICES ASSUME MixInit PROVE MixInv
  OBVIOUS
<1>2. \A t \in TicketArg : t \in Nat \ {0} /\ StrideOf(t) \in 0..BIG
  BY StrideAssumption, StrideRange
<1>3. tickets \in [Slot -> Nat \ {0}] /\ pass \in [Slot -> 0..BIG]
  BY <1>1, <1>2 DEF MixInit
<1>4. TypeOK
  BY <1>1, <1>3, StrideAssumption DEF MixInit, TypeOK
<1>5. RunInv /\ ScanInv
  BY <1>1 DEF MixInit, RunInv, ScanInv
<1>6. LagBound
  BY <1>1, <1>3, StrideAssumption DEF MixInit, LagBound
<1>q. QED  BY <1>1, <1>3, <1>4, <1>5, <1>6, StrideAssumption DEF MixInv, IInv, MixInit

(* On one processor, charging the chosen process keeps it within a stride. *)
LEMMA MixDispatch ==
  ASSUME \A c, d \in CPU : c = d,
         MixInv, NEW c \in CPU, Dispatch(c), NoOverflow
  PROVE  MixInv'
<1>1. IInv'
  BY DispatchStep DEF MixInv
<1>2. plock = c /\ c # NoCPU /\ running[c] = NoProc
  BY StrideAssumption DEF MixInv, Dispatch
<1>3. Runnable = Slot
  BY <1>2, StrideAssumption DEF MixInv, Runnable
<1>4. winner[c] \in Slot /\ \A q \in Slot : pass[winner[c]] <= pass[q]
  BY <1>2, <1>3, InvImpliesMinimal DEF MixInv, ChosenIsMinimal, Dispatch
<1>5. DEFINE w == winner[c]
             s == StrideOf(tickets[w])
<1>6. /\ pass \in [Slot -> -(IntMax + 1)..IntMax] /\ tickets \in [Slot -> Nat \ {0}]
      /\ \A q \in Slot : pass[q] \in Int /\ StrideOf(tickets[q]) \in Int
      /\ s \in 0..BIG
  BY <1>4, StrideRange, StrideAssumption DEF MixInv, IInv, TypeOK
<1>7. /\ tickets' = tickets
      /\ pass' = [pass EXCEPT ![w] = Wrap(pass[w] + s)]
      /\ state' = [state EXCEPT ![w] = "RUNNING"]
      /\ running' = [running EXCEPT ![c] = w]
      /\ plock' = NoCPU
  BY DEF Dispatch
<1>8. Wrap(pass[w] + s) <= pass[w] + s /\ Wrap(pass[w] + s) \in Int
  BY <1>4, <1>6, WrapRange, StrideAssumption
<1>9. \A q \in Slot : pass'[q] >= pass[q] /\ pass'[q] \in Int
  BY <1>6, <1>7, <1>8 DEF NoOverflow
<1>10. LagBound'
  <2>1. SUFFICES ASSUME NEW p \in Slot, NEW q \in Slot
                 PROVE  pass'[p] - StrideOf(tickets[p]) <= pass'[q]
    BY <1>7 DEF LagBound
  <2>2. CASE p = w
    <3>1. pass'[p] <= pass[w] + s /\ StrideOf(tickets[p]) = s
      BY <1>4, <1>6, <1>7, <1>8, <2>2
    <3>q. QED  BY <1>4, <1>6, <1>9, <2>1, <3>1
  <2>3. CASE p # w
    <3>1. pass'[p] = pass[p] /\ pass[p] - StrideOf(tickets[p]) <= pass[q]
      BY <1>6, <1>7, <2>1, <2>3 DEF MixInv, LagBound
    <3>q. QED  BY <1>6, <1>9, <2>1, <3>1
  <2>q. QED  BY <2>2, <2>3
<1>11. \A p \in Slot : pass'[p] >= 0 /\ (state'[p] = "RUNNABLE" \/ \E d \in CPU : running'[d] = p)
  <2>1. \A p \in Slot : pass'[p] >= 0
    BY <1>6, <1>9 DEF MixInv
  <2>2. running'[c] = w
    BY <1>7 DEF MixInv, IInv, TypeOK
  <2>3. \A p \in Slot : p # w => state'[p] = "RUNNABLE"
    BY <1>3, <1>7 DEF Runnable
  <2>q. QED  BY <2>1, <2>2, <2>3
<1>q. QED  BY <1>1, <1>7, <1>10, <1>11 DEF MixInv

(* In a fixed mix on one processor, up to the first overflow, shares       *)
(* follow tickets: for any tickets, any table size and any width of int.   *)
THEOREM LagBoundHolds ==
  ASSUME \A c, d \in CPU : c = d
  PROVE  MixSpec => []LagBound
<1>1. MixInv /\ [MixNext /\ NoOverflow]_vars => MixInv'
  <2>1. SUFFICES ASSUME MixInv, [MixNext /\ NoOverflow]_vars PROVE MixInv'
    OBVIOUS
  <2>2. IInv'
    BY <2>1, InductiveInv DEF MixInv, MixNext, Next
  <2>3. CASE UNCHANGED vars
    BY <2>1, <2>2, <2>3 DEF MixInv, LagBound, vars
  <2>4. ASSUME NEW c \in CPU, Scheduler(c), ~Dispatch(c) PROVE MixInv'
    <3>1. /\ UNCHANGED <<state, tickets, pass, running>>
          /\ plock' # NoCPU => running[plock'] = NoProc
      BY <2>1, <2>4 DEF MixInv, Scheduler, StartScan, ScanStep, NobodyRunnable
    <3>q. QED  BY <2>1, <2>2, <3>1 DEF MixInv, LagBound
  <2>5. ASSUME NEW c \in CPU, Dispatch(c), NoOverflow PROVE MixInv'
    BY <2>1, <2>5, MixDispatch
  <2>6. ASSUME NEW c \in CPU, Yield(c) PROVE MixInv'
    <3>1. \A p \in Slot : state'[p] = "RUNNABLE" \/ \E d \in CPU : running'[d] = p
      BY <2>1, <2>6 DEF MixInv, IInv, TypeOK, RunInv, Yield, GiveUp
    <3>q. QED  BY <2>1, <2>2, <2>6, <3>1 DEF MixInv, LagBound, Yield, GiveUp
  <2>q. QED  BY <2>1, <2>3, <2>4, <2>5, <2>6 DEF MixNext
<1>2. MixInv => LagBound
  BY DEF MixInv
<1>q. QED  BY <1>1, <1>2, MixInitInv, PTL DEF MixSpec
=============================================================================
