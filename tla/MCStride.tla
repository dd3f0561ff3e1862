------------------------------ MODULE MCStride ------------------------------
(***************************************************************************)
(* Instances of Stride for TLC: processes that come and go on two          *)
(* processors, and, side by side, a fixed mix of three processes on one.   *)
(* `moves' is the one that takes steps in a behaviour.                     *)
(***************************************************************************)
EXTENDS Stride

CONSTANTS c0, c1

VARIABLES moves, mixState, mixTickets, mixPass, mixRunning, mixLock, mixI, mixMin, mixWinner

mixVars == <<mixState, mixTickets, mixPass, mixRunning, mixLock, mixI, mixMin, mixWinner>>

OneCPU == {c0}
TwoCPUs == {c0, c1}

M == INSTANCE Stride WITH
  CPU <- OneCPU, NPROC <- 3, BIG <- 60, IntMax <- 127, TicketArg <- {10, 20, 30},
  state <- mixState, tickets <- mixTickets, pass <- mixPass, running <- mixRunning,
  plock <- mixLock, i <- mixI, min_pass <- mixMin, winner <- mixWinner

BothInit ==
  /\ moves \in {"table", "mix"}
  /\ Init /\ M!MixInit
  /\ moves = "table" => mixTickets = [p \in 1 .. 3 |-> 10]

BothNext ==
  /\ UNCHANGED moves
  /\ \/ moves = "table" /\ Next /\ UNCHANGED mixVars
     \/ moves = "mix" /\ M!MixNext /\ M!NoOverflow /\ UNCHANGED vars

BothSpec == BothInit /\ [][BothNext]_<<moves, vars, mixVars>>

(* In a fixed mix on one processor no process gets ahead of another by     *)
(* more than one of its strides: scheduler() shares in proportion to       *)
(* tickets.                                                                *)
MixLagBound == M!LagBound
=============================================================================
