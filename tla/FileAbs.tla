------------------------------ MODULE FileAbs -------------------------------
(***************************************************************************)
(* What files promise their users: each is a sequence of bytes, each open  *)
(* file has an offset, a read moves it towards the end, and a write puts a *)
(* piece of the caller's bytes there, up to a largest size.                *)
(***************************************************************************)
EXTENDS Naturals, Sequences

CONSTANTS INum, File, Byte, MaxSize, Content0

VARIABLES content,   \* the bytes of each file
          at         \* inode and offset of each open file

Init ==
  /\ content = Content0
  /\ at = [f \in File |-> [ip |-> 0, off |-> 0]]

Open(f) ==
  \E i \in INum : at' = [at EXCEPT ![f] = [ip |-> i, off |-> 0]] /\ UNCHANGED content

Close(f) == at' = [at EXCEPT ![f] = [ip |-> 0, off |-> 0]] /\ UNCHANGED content

\* A file nobody has open loses its bytes.
Remove(i) ==
  /\ \A f \in File : at[f].ip # i
  /\ content' = [content EXCEPT ![i] = <<>>]
  /\ UNCHANGED at

\* A read moves the offset, never beyond the end.
Read(f) ==
  /\ at[f].ip # 0
  /\ \E k \in at[f].off .. Len(content[at[f].ip]) : at' = [at EXCEPT ![f].off = k]
  /\ UNCHANGED content

\* One piece: bytes v over what is at the offset, and beyond the end.
Write(f) ==
  \E n \in 1 .. MaxSize, v \in Byte :
    LET i == at[f].ip
        off == at[f].off
        old == content[i]
    IN /\ i # 0 /\ off <= Len(old) /\ off + n <= MaxSize
       /\ content' = [content EXCEPT ![i] =
            [k \in 1 .. (IF off + n > Len(old) THEN off + n ELSE Len(old)) |->
               IF k \in off + 1 .. off + n THEN v ELSE old[k]]]
       /\ at' = [at EXCEPT ![f].off = off + n]

Next ==
  \/ \E f \in File : Open(f) \/ Close(f) \/ Read(f) \/ Write(f)
  \/ \E i \in INum : Remove(i)

Spec == Init /\ [][Next]_<<content, at>>
=============================================================================
