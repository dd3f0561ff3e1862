----------------------------- MODULE TrapFrame -----------------------------
(***************************************************************************)
(* Entry to and exit from the kernel on one CPU: the gates of tvinit(),    *)
(* vectors.S, alltraps and trapret, swtch() and the stack allocproc() and  *)
(* fork() build for a new process.  A stack is a sequence of words, its    *)
(* head the word at %esp; thread 0 is the scheduler.  Every register holds *)
(* a value that names it, so that a word restored into the wrong register  *)
(* shows.                                                                  *)
(***************************************************************************)
EXTENDS Naturals, Sequences, SequencesExt

CONSTANTS Proc, InitProc,
          Vec       \* the vectors raised

TrapFrameAssumption == InitProc \in Proc /\ Vec \subseteq 0 .. 255 /\ 0 \notin Proc

Thread == Proc \union {0}
T_SYSCALL == 64
T_TIMER == 32
Irq == 32 .. 63

\* x86: the exceptions for which the CPU pushes an error code.
HardwareErr == {8, 10, 11, 12, 13, 14, 17}

\* What alltraps pushes: four segment registers, then pushal.
Pushes == <<"ds", "es", "fs", "gs",
            "eax", "ecx", "edx", "ebx", "oesp", "ebp", "esi", "edi">>

(* Mutant: trapret pops %ds and %es in the order they were pushed.         *)
PopsSwapped == <<"edi", "esi", "ebp", "oesp", "ebx", "edx", "ecx", "eax",
                 "gs", "fs", "ds", "es">>

\* What trapret pops: popal, then four segment registers.
Pops == <<"edi", "esi", "ebp", "oesp", "ebx", "edx", "ecx", "eax",
          "gs", "fs", "es", "ds">>

\* struct trapframe, from the lowest address.
Trapframe ==
  <<"edi", "esi", "ebp", "oesp", "ebx", "edx", "ecx", "eax", "gs", "fs", "es", "ds",
    "trapno", "err", "eip", "cs", "eflags", "esp", "ss">>

Reg == ToSet(Pops) \ {"oesp"}

\* What swtch() pushes, in this order, after the return address.
SwtchPushes == <<"ebp", "ebx", "esi", "edi">>

(* Mutant: swtch() pops in the order it pushes.                            *)
SwtchPopsSame == <<"ebp", "ebx", "esi", "edi">>

SwtchPops == <<"edi", "esi", "ebx", "ebp">>

VARIABLES cur,     \* the thread that runs
          regs,    \* [Reg -> value]
          mode,    \* "user" or "kernel"
          intr,    \* FL_IF
          stk,     \* [Thread -> kernel stack]
          tf,      \* [Proc -> proc->tf: the height of the stack at the frame]
          lv       \* [Thread -> levels of execution, the innermost first]

vars == <<cur, regs, mode, intr, stk, tf, lv>>

\* A level: where it is in the entry code, its vector, the height of the stack
\* at its frame, and what the code it interrupted had in the CPU.
Level(at, v, h, saved) == [at |-> at, v |-> v, h |-> h, saved |-> saved]

Values(who) == [r \in Reg |-> <<who, r>>]

Kernel(t) == Values(IF t = 0 THEN "scheduler" ELSE "kernel")

Base == Level("run", 0, 0, [regs |-> Values("none"), mode |-> "none", intr |-> TRUE])

Words(names, f) == [i \in DOMAIN names |-> IF names[i] = "oesp" THEN "oesp" ELSE f[names[i]]]

Init ==
  /\ cur = InitProc /\ mode = "user" /\ intr = TRUE
  /\ regs = Values("user")
  /\ stk = [t \in Thread |->
       IF t = 0 THEN Words(<<"edi", "esi", "ebx", "ebp">>, Kernel(0)) \o <<"ret">> ELSE <<>>]
  /\ tf = [p \in Proc |-> 0]
  /\ lv = [t \in Thread |-> IF t \in {0, InitProc} THEN <<Base>> ELSE <<>>]

Top == Head(lv[cur])

SetTop(l) == lv' = [lv EXCEPT ![cur] = <<l>> \o Tail(@)]

SetStk(s) == stk' = [stk EXCEPT ![cur] = s]

-----------------------------------------------------------------------------
(* Mutant: every gate is a trap gate.                                      *)
IsTrapAll(v) == TRUE

\* tvinit(): all gates are interrupt gates, which clear FL_IF, but one.
IsTrap(v) == v = T_SYSCALL

\* The hardware takes vector v through its gate.  From user mode it switches to
\* the top of the kernel stack (switchuvm() sets esp0), which holds nothing.
Raise(v) ==
  /\ v \in Irq => intr
  /\ v \notin Irq => mode = "user"
  /\ SetStk((IF v \in HardwareErr THEN <<"err">> ELSE <<>>) \o <<"eip", mode, intr>>
            \o (IF mode = "user" THEN <<"esp", "ss">> ELSE stk[cur]))
  /\ lv' = [lv EXCEPT ![cur] =
       <<Level("vector", v, 0, [regs |-> regs, mode |-> mode, intr |-> intr])>> \o @]
  /\ mode' = "kernel"
  /\ intr' = (intr /\ IsTrap(v))
  /\ UNCHANGED <<cur, regs, tf>>

(* Mutant: vector14 pushes a dummy error code as its neighbours do.        *)
DummyErrAll(v) == v \notin {8, 10, 11, 12, 13, 17}

\* vectors.S: the vectors that push $0 in place of an error code.
DummyErr(v) == v \notin {8, 10, 11, 12, 13, 14, 17}

\* vectors[v] is vectorv, which pushes v.
Vector ==
  /\ Top.at = "vector"
  /\ SetStk(<<Top.v>> \o (IF DummyErr(Top.v) THEN <<"0">> ELSE <<>>) \o stk[cur])
  /\ SetTop([Top EXCEPT !.at = "alltraps"])
  /\ UNCHANGED <<cur, regs, mode, intr, tf>>

\* alltraps, to the first instructions of trap(tf).
Alltraps ==
  LET s == Words(Reverse(Pushes), regs) \o stk[cur] IN
  /\ Top.at = "alltraps"
  /\ SetStk(<<"return", "tf">> \o s)
  /\ SetTop([Top EXCEPT !.at = "body", !.h = Len(s)])
  /\ regs' = Kernel(cur)
  /\ tf' = IF Top.v = T_SYSCALL THEN [tf EXCEPT ![cur] = Len(s)] ELSE tf
  /\ UNCHANGED <<cur, mode, intr>>

\* The place in the stack s of a field of the frame at height h.
Place(s, h, field) == Len(s) - h + (CHOOSE i \in DOMAIN Trapframe : Trapframe[i] = field)

\* trap() returns to alltraps, which drops the argument.  syscall() has stored
\* its result in the frame.
TrapReturns ==
  LET s == stk[cur]
      sys == Top.v = T_SYSCALL
      done == IF sys THEN [s EXCEPT ![Place(s, tf[cur], "eax")] = "result"] ELSE s
  IN /\ Top.at = "body"
     /\ SetStk(SubSeq(done, 3, Len(s)))
     /\ SetTop([Top EXCEPT !.at = "trapret",
                  !.saved.regs["eax"] = IF sys THEN "result" ELSE @])
     /\ UNCHANGED <<cur, regs, mode, intr, tf>>

\* trapret, up to iret: the registers, then trapno and errcode.
Trapret ==
  /\ Top.at = "trapret"
  /\ regs' = [r \in Reg |-> stk[cur][CHOOSE i \in DOMAIN Pops : Pops[i] = r]]
  /\ SetStk(SubSeq(stk[cur], Len(Pops) + 3, Len(stk[cur])))
  /\ SetTop([Top EXCEPT !.at = "iret"])
  /\ UNCHANGED <<cur, mode, intr, tf>>

\* iret pops %eip, %cs, %eflags, and %esp and %ss when it returns to user mode.
Iret ==
  LET s == stk[cur] IN
  /\ Top.at = "iret"
  /\ mode' = s[2] /\ intr' = s[3]
  /\ SetStk(SubSeq(s, IF s[2] = "user" THEN 6 ELSE 4, Len(s)))
  /\ lv' = [lv EXCEPT ![cur] = Tail(@)]
  /\ UNCHANGED <<cur, regs, tf>>

-----------------------------------------------------------------------------
\* swtch(): the words it leaves on the old stack, the registers it loads.
Saved(s) == Words(Reverse(SwtchPushes), regs) \o <<"ret">> \o s

LoadedFrom(s, t) ==
  [r \in Reg |-> IF r \in ToSet(SwtchPops)
                   THEN s[CHOOSE i \in DOMAIN SwtchPops : SwtchPops[i] = r]
                   ELSE Kernel(t)[r]]

\* sched(), from yield() in a timer interrupt or sleep() in a system call, with
\* cpu->intena kept in a local variable; the scheduler goes on, holding the lock.
Sched ==
  /\ cur # 0 /\ Top.at = "body" /\ Top.v \in {T_TIMER, T_SYSCALL}
  /\ stk' = [stk EXCEPT ![cur] = Saved(<<intr>> \o @), ![0] = SubSeq(@, 6, Len(@))]
  /\ regs' = LoadedFrom(stk[0], 0)
  /\ cur' = 0 /\ intr' = FALSE
  /\ UNCHANGED <<mode, tf, lv>>

\* The scheduler releases the lock and enables interrupts.
SchedulerSti ==
  /\ cur = 0 /\ Len(lv[0]) = 1 /\ ~intr
  /\ intr' = TRUE
  /\ UNCHANGED <<cur, regs, mode, stk, tf, lv>>

\* The scheduler switches to process q.  A new one starts in forkret(), which
\* releases the lock and returns to trapret.
Scheduler(q) ==
  LET s == stk[q]
      new == s[5] = "forkret"
  IN /\ cur = 0 /\ Len(lv[0]) = 1 /\ lv[q] # <<>>
     /\ stk' = [stk EXCEPT ![0] = Saved(@), ![q] = SubSeq(s, 7, Len(s))]
     /\ regs' = LoadedFrom(s, q)
     /\ cur' = q
     /\ intr' = IF new THEN TRUE ELSE s[6]
     /\ UNCHANGED <<mode, tf, lv>>

\* *np->tf = *proc->tf; np->tf->eax = 0, the eighth field.
ChildFrame(frame) == [frame EXCEPT ![8] = "0"]

\* fork() in a system call: the stack of allocproc() with the parent's frame.
Fork(q) ==
  LET s == stk[cur]
      first == Place(s, tf[cur], "edi")
      frame == SubSeq(s, first, first + Len(Trapframe) - 1)
  IN /\ cur # 0 /\ Top.at = "body" /\ Top.v = T_SYSCALL /\ lv[q] = <<>>
     /\ stk' = [stk EXCEPT ![q] = <<"0", "0", "0", "0", "forkret", "trapret">> \o ChildFrame(frame)]
     /\ tf' = [tf EXCEPT ![q] = Len(frame)]
     /\ lv' = [lv EXCEPT ![q] =
          <<[Top EXCEPT !.at = "trapret", !.h = Len(frame), !.saved.regs["eax"] = "0"], Base>>]
     /\ UNCHANGED <<cur, regs, mode, intr>>

Next ==
  \/ \E v \in Vec : Raise(v)
  \/ Vector \/ Alltraps \/ TrapReturns \/ Trapret \/ Iret
  \/ Sched \/ SchedulerSti
  \/ \E q \in Proc : Scheduler(q) \/ Fork(q)

Spec == Init /\ [][Next]_vars

-----------------------------------------------------------------------------
\* What the interrupted code had, field by field.
Expected(l, field) ==
  CASE field = "oesp" -> "oesp"
    [] field = "trapno" -> l.v
    [] field = "err" -> IF l.v \in HardwareErr THEN "err" ELSE "0"
    [] field = "cs" -> l.saved.mode
    [] field = "eflags" -> l.saved.intr
    [] field \in {"eip", "esp", "ss"} -> field
    [] OTHER -> l.saved.regs[field]

(* At every level that is in trap(), also while the thread is switched out *)
(* or interrupted again, each field of struct trapframe is the word with   *)
(* that name, whichever vector built the frame.                            *)
FrameMatchesStruct ==
  \A t \in Thread, k \in 1 .. 3 :
    k <= Len(lv[t]) /\ lv[t][k].at = "body" =>
      LET l == lv[t][k] IN
      \A i \in DOMAIN Trapframe :
        i <= 17 \/ l.saved.mode = "user" =>
          stk[t][Len(stk[t]) - l.h + i] = Expected(l, Trapframe[i])

(* A return from the kernel gives the interrupted code back its registers, *)
(* mode and interrupt flag; only %eax of a system call changes, and it is  *)
(* 0 in the child of fork().                                               *)
Restores ==
  [][Len(lv'[cur]) < Len(lv[cur]) =>
       /\ regs' = Top.saved.regs /\ mode' = Top.saved.mode /\ intr' = Top.saved.intr]_vars

(* swtch() gives a thread its callee-saved registers back, whatever ran in *)
(* between.                                                                *)
SwtchRestores ==
  (Top.at = "body" \/ (cur = 0 /\ Len(lv[0]) = 1)) =>
    \A r \in ToSet(SwtchPushes) : regs[r] = Kernel(cur)[r]

(* A kernel stack is empty when its process is in user mode, and it never  *)
(* holds more than a system call and one interrupt, so a page is enough.   *)
StackBounded ==
  /\ mode = "user" => stk[cur] = <<>>
  /\ \A t \in Thread : Len(lv[t]) <= 3 /\ Len(stk[t]) <= 60
=============================================================================
