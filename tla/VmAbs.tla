------------------------------- MODULE VmAbs -------------------------------
(***************************************************************************)
(* What virtual memory promises a process: an image of its own, a sequence *)
(* of pages that only its own calls and stores change.  A page is what a   *)
(* load from it returns and whether user code may touch it.                *)
(***************************************************************************)
EXTENDS Naturals, Sequences

CONSTANTS Proc, InitProc,
          MaxPages,      \* pages a process can map
          Zero, User,    \* contents: zeros, what a program stores
          InitImage,     \* the image of the first process
          Progs,
          Loaded(_)      \* the image exec() makes of a program

VARIABLE image   \* [Proc -> sequence of pages, <<>> if there is no process]

ZeroPage == [data |-> Zero, user |-> TRUE]

Init == image = [p \in Proc |-> IF p = InitProc THEN InitImage ELSE <<>>]

Grow(p, n) ==
  /\ image[p] # <<>> /\ Len(image[p]) + n <= MaxPages
  /\ image' = [image EXCEPT ![p] = @ \o [i \in 1 .. n |-> ZeroPage]]

Shrink(p, n) ==
  /\ n < Len(image[p])
  /\ image' = [image EXCEPT ![p] = SubSeq(@, 1, Len(@) - n)]

Store(p, i) ==
  /\ i \in DOMAIN image[p] /\ image[p][i].user
  /\ image' = [image EXCEPT ![p][i].data = User]

Fork(p, np) ==
  /\ image[p] # <<>> /\ image[np] = <<>>
  /\ image' = [image EXCEPT ![np] = image[p]]

Exec(p, prog) ==
  /\ image[p] # <<>>
  /\ image' = [image EXCEPT ![p] = Loaded(prog)]

Exit(p) == image[p] # <<>> /\ image' = [image EXCEPT ![p] = <<>>]

Next == \E p \in Proc :
  \/ \E n \in 1 .. MaxPages : Grow(p, n) \/ Shrink(p, n) \/ Store(p, n)
  \/ \E np \in Proc \ {p} : Fork(p, np)
  \/ \E prog \in Progs : Exec(p, prog)
  \/ Exit(p)

Spec == Init /\ [][Next]_image
=============================================================================
