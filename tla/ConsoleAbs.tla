----------------------------- MODULE ConsoleAbs -----------------------------
(***************************************************************************)
(* What console input promises: a line that can be edited until it is      *)
(* entered, and a queue of entered characters that readers take in order,  *)
(* with room for Size characters in all.                                   *)
(***************************************************************************)
EXTENDS Naturals, Sequences

CONSTANTS Size,
          Char,        \* ordinary characters
          NL, EOT      \* the characters that enter the line

VARIABLES ready, line

vars == <<ready, line>>

Init == ready = <<>> /\ line = <<>>

Full == Len(ready) + Len(line) = Size

\* A character is added; the line is entered if it ends or there is no more room.
Type(c) ==
  /\ ~Full
  /\ IF c \in {NL, EOT} \/ Len(ready) + Len(line) + 1 = Size
       THEN ready' = Append(ready \o line, c) /\ line' = <<>>
       ELSE line' = Append(line, c) /\ ready' = ready

Erase ==
  /\ line # <<>>
  /\ line' = SubSeq(line, 1, Len(line) - 1)
  /\ UNCHANGED ready

EraseLine == line' = <<>> /\ UNCHANGED ready

Take ==
  /\ ready # <<>>
  /\ ready' = Tail(ready)
  /\ UNCHANGED line

Next == Erase \/ EraseLine \/ Take \/ \E c \in Char \union {NL, EOT} : Type(c)

Spec == Init /\ [][Next]_vars
=============================================================================
