------------------------------ MODULE Console ------------------------------
(***************************************************************************)
(* Console input: consoleintr() edits and enters lines in a ring buffer    *)
(* with three indices, consoleread() takes entered characters.  The        *)
(* indices are uints; they wrap at WRAP.                                    *)
(***************************************************************************)
EXTENDS Naturals, Sequences

CONSTANTS INPUT_BUF,
          WRAP,          \* 2^32 in the code
          Char, Reader,
          Lengths,       \* the lengths passed to read()
          Start          \* the value of the indices in the first state

ConsoleAssumption ==
  /\ INPUT_BUF \in Nat \ {0} /\ WRAP \in Nat /\ WRAP % INPUT_BUF = 0 /\ WRAP > INPUT_BUF
  /\ Start \in 0 .. WRAP - 1 /\ Lengths \subseteq Nat \ {0} /\ "free" \notin Reader

NL == "\n"
EOT == "^D"

VARIABLES buf, r, w, e,   \* input
          lock,           \* the reader that holds cons.lock, or "free"
          pc,             \* [Reader -> "idle", "loop" or "sleep"]
          n, some,        \* [Reader -> bytes still wanted, whether n < target]
          killed

vars == <<buf, r, w, e, lock, pc, n, some, killed>>

Init ==
  /\ buf = [i \in 0 .. INPUT_BUF - 1 |-> NL]
  /\ r = Start /\ w = Start /\ e = Start
  /\ lock = "free"
  /\ pc = [p \in Reader |-> "idle"]
  /\ n = [p \in Reader |-> 0]
  /\ some = [p \in Reader |-> FALSE]
  /\ killed = [p \in Reader |-> FALSE]

Inc(x) == (x + 1) % WRAP
Dec(x) == (x + WRAP - 1) % WRAP
At(x) == buf[x % INPUT_BUF]

\* e - r, in unsigned arithmetic.
Held == (e + WRAP - r) % WRAP

(* Mutant: consoleintr() wakes one reader only.                            *)
WakeupOne ==
  LET one == CHOOSE p \in Reader : pc[p] = "sleep" \/ \A q \in Reader : pc[q] # "sleep"
  IN [p \in Reader |-> IF pc[p] = "sleep" /\ p = one THEN "loop" ELSE pc[p]]

\* wakeup(&input.r)
Wakeup == [p \in Reader |-> IF pc[p] = "sleep" THEN "loop" ELSE pc[p]]

readerVars == <<lock, n, some, killed>>

-----------------------------------------------------------------------------
(* Mutant: a line that fills the buffer is entered only by a newline.      *)
EntersEol(c) == c \in {NL, EOT}

\* c == '\n' || c == C('D') || input.e == input.r+INPUT_BUF
Enters(c) == c \in {NL, EOT} \/ Inc(e) = (r + INPUT_BUF) % WRAP

(* Mutant: the room left is computed from the entered part.                *)
RoomFromW == (e + WRAP - w) % WRAP < INPUT_BUF

\* input.e-input.r < INPUT_BUF
Room == Held < INPUT_BUF

\* consoleintr(), default case: '\r' counts as '\n', a full buffer drops it.
Typed(c) ==
  /\ lock = "free" /\ Room
  /\ buf' = [buf EXCEPT ![e % INPUT_BUF] = c]
  /\ e' = Inc(e)
  /\ IF Enters(c) THEN w' = Inc(e) /\ pc' = Wakeup ELSE UNCHANGED <<w, pc>>
  /\ UNCHANGED <<r, readerVars>>

Backspace ==
  /\ lock = "free" /\ e # w
  /\ e' = Dec(e)
  /\ UNCHANGED <<buf, r, w, pc, readerVars>>

\* Control-U: back to the last newline that has not been entered.
KillLine ==
  LET back(k) == (e + WRAP - k) % WRAP
      stops(k) == back(k) = w \/ At(Dec(back(k))) = NL
      k == CHOOSE j \in 0 .. INPUT_BUF : stops(j) /\ \A i \in 0 .. j - 1 : ~stops(i)
  IN /\ lock = "free" /\ e # w
     /\ e' = back(k)
     /\ UNCHANGED <<buf, r, w, pc, readerVars>>

-----------------------------------------------------------------------------
\* consoleread() is called with length l.
Consoleread(p, l) ==
  /\ pc[p] = "idle"
  /\ pc' = [pc EXCEPT ![p] = "loop"]
  /\ n' = [n EXCEPT ![p] = l]
  /\ some' = [some EXCEPT ![p] = FALSE]
  /\ UNCHANGED <<buf, r, w, e, lock, killed>>

\* The process has, or takes, cons.lock and is in the loop.
Running(p) == pc[p] = "loop" /\ lock \in {"free", p}

Return(p) == pc' = [pc EXCEPT ![p] = "idle"] /\ lock' = "free"

\* Nothing entered: the process returns -1 if it is killed, or sleeps.
Wait(p) ==
  /\ Running(p) /\ n[p] > 0 /\ r = w
  /\ IF killed[p]
       THEN Return(p)
       ELSE pc' = [pc EXCEPT ![p] = "sleep"] /\ lock' = "free"
  /\ UNCHANGED <<buf, r, w, e, n, some, killed>>

(* Mutant: ^D after some characters is consumed with them.                 *)
KeepsEofNever(p) == FALSE

\* n < target: ^D is left for the next read, which returns 0 bytes.
KeepsEof(p) == some[p]

\* One character; the lock is kept until the loop ends or sleeps.
Take(p) ==
  LET c == At(r) IN
  /\ Running(p) /\ n[p] > 0 /\ r # w
  /\ IF c = EOT
       THEN /\ r' = IF KeepsEof(p) THEN r ELSE Inc(r)
            /\ Return(p)
            /\ UNCHANGED <<n, some>>
       ELSE /\ r' = Inc(r)
            /\ some' = [some EXCEPT ![p] = TRUE]
            /\ n' = [n EXCEPT ![p] = @ - 1]
            /\ IF c = NL \/ n[p] = 1 THEN Return(p) ELSE lock' = p /\ pc' = pc
  /\ UNCHANGED <<buf, w, e, killed>>

(* Mutant: kill() does not wake the reader.                                *)
KillNoWake(p) ==
  /\ ~killed[p] /\ pc[p] # "idle"
  /\ killed' = [killed EXCEPT ![p] = TRUE]
  /\ UNCHANGED <<buf, r, w, e, lock, pc, n, some>>

\* kill() marks a reader and wakes it.
Kill(p) ==
  /\ ~killed[p] /\ pc[p] # "idle"
  /\ killed' = [killed EXCEPT ![p] = TRUE]
  /\ pc' = [pc EXCEPT ![p] = IF @ = "sleep" THEN "loop" ELSE @]
  /\ UNCHANGED <<buf, r, w, e, lock, n, some>>

Next ==
  \/ \E c \in Char \union {NL, EOT} : Typed(c)
  \/ Backspace \/ KillLine
  \/ \E p \in Reader :
       Wait(p) \/ Take(p) \/ Kill(p) \/ \E l \in Lengths : Consoleread(p, l)

Spec == Init /\ [][Next]_vars

\* A reader that can run runs, and gets cons.lock if it keeps trying.
FairSpec == Spec /\ \A p \in Reader : SF_vars(Wait(p) \/ Take(p))

-----------------------------------------------------------------------------
\* The characters from index a up to index b.
Between(a, b) ==
  [i \in 1 .. (b + WRAP - a) % WRAP |-> At((a + i - 1) % WRAP)]

Abs == INSTANCE ConsoleAbs WITH
  Size <- INPUT_BUF, Char <- Char, NL <- NL, EOT <- EOT,
  ready <- Between(r, w), line <- Between(w, e)

(* The ring behaves as a line editor in front of a queue, also when the    *)
(* indices wrap: editing never reaches an entered character, a reader      *)
(* never sees one that is not entered, and none is overwritten unread.     *)
ImplementsEditor == Abs!Spec

(* A reader sleeps only while nothing is entered, and it is woken when it  *)
(* is killed: no wakeup is lost.                                           *)
SleepsOnEmpty == \A p \in Reader : pc[p] = "sleep" => r = w /\ ~killed[p]

(* The buffer is never stuck: when it is full, something has been entered, *)
(* so a reader can make room.                                              *)
FullIsReadable == Held = INPUT_BUF => r # w

(* End of file is never mixed with data: ^D leaves the queue only in a     *)
(* read that returns no bytes.                                             *)
EofAlone ==
  [][\A p \in Reader : r # w /\ At(r) = EOT /\ r' # r /\ pc[p] # "idle" /\ pc'[p] = "idle"
       => ~some'[p]]_vars

(* A reader that is killed leaves consoleread(), whether it sleeps, waits  *)
(* for the lock or is in the middle of a line.                             *)
KilledReturns == \A p \in Reader : killed[p] /\ pc[p] # "idle" ~> pc[p] = "idle"
=============================================================================
