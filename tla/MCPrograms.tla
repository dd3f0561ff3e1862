----------------------------- MODULE MCPrograms -----------------------------
(***************************************************************************)
(* Programs and what carries them, side by side: address spaces, the entry *)
(* to and the return from the kernel, the allocator of the user library,   *)
(* the parser of the shell and the shell at work.  As in MCServices,       *)
(* `moves' is the scene that takes steps in a behaviour.                   *)
(***************************************************************************)
EXTENDS Integers, Sh

VARIABLES
  moves,
  free, mem, image, task,
  cur, regs, mode, intr, stk, tf, lv,
  ptr, size, freep, brk, pc, block, prevp, bp, nunits, used, gaps

vmVars == <<free, mem, image, task>>
trapVars == <<cur, regs, mode, intr, stk, tf, lv>>
heapVars == <<ptr, size, freep, brk, pc, block, prevp, bp, nunits, used, gaps>>
shVars == vars

-----------------------------------------------------------------------------
Seg(v, m, f, good) == [vaddr |-> v, memsz |-> m, filesz |-> f, ok |-> good]

\* A page of text and one of zeros; two segments in reverse order; and headers
\* exec() refuses at different stages.
Executables ==
  {[segs |-> <<Seg(0, 3, 2, TRUE)>>, args |-> 1],
   [segs |-> <<Seg(2, 1, 0, TRUE), Seg(0, 1, 1, TRUE)>>, args |-> 1],
   [segs |-> <<Seg(0, 2, 1, TRUE)>>, args |-> 3],
   [segs |-> <<Seg(0, 2, 2, TRUE), Seg(2, 2, 2, FALSE)>>, args |-> 0],
   [segs |-> <<Seg(0, 2, 2, TRUE), Seg(3, 1, 1, TRUE)>>, args |-> 0],
   [segs |-> <<Seg(0, 1, 2, TRUE)>>, args |-> 0]}

\* Two processes in 12 pages of memory.
V == INSTANCE Vm WITH
  Proc <- {1, 2}, InitProc <- 1, NPAGE <- 12, PGSIZE <- 2, NPT <- 3, NPTE <- 2, NKPT <- 1,
  Progs <- Executables, Deltas <- {3, -2, -4}, ToZero <- FALSE,
  Calls <- {"sbrk", "fork", "exec"}, proc <- image

\* One process with memory enough for every program.
W == INSTANCE Vm WITH
  Proc <- {1, 2}, InitProc <- 1, NPAGE <- 14, PGSIZE <- 2, NPT <- 3, NPTE <- 2, NKPT <- 1,
  Progs <- {g \in Executables : Len(g.segs) = 1 \/ ~g.segs[2].ok}, Deltas <- {4, -2}, ToZero <- FALSE,
  Calls <- {"sbrk", "exec"}, proc <- image

\* Exceptions with and without an error code, the timer, the keyboard, the
\* disk and the system call.
F == INSTANCE TrapFrame WITH
  Proc <- {1, 2}, InitProc <- 1,
  Vec <- {0, 3, 6, 8, 9, 10, 11, 12, 13, 14, 15, 16, 17, 18, 32, 33, 46, 64}

\* A heap of seven units.
U == INSTANCE Umalloc WITH
  N <- 7, HSIZE <- 8, MORE <- 3, Bytes <- {0, 1, 17}, Gap <- TRUE, p <- block

\* The shell types short lines over all the characters; longer ones have fewer.
PB == INSTANCE ShParse WITH Chars <- {"a", "|", ";", "(", ")"}, MaxLine <- 5, MAXARGS <- 3

\* What the user types to the shell, a letter for every program and file:
\* (d<g|e);h  and  j&  and the end of the input
Lists == {<<"(", "d", "<", "g", "|", "e", ")", ";", "h">>, <<"j", "&">>, <<>>}
\* a|b>f|c  and  (m;n)>>o|r  and  |p  and  cd x  and  u v)
Blocks ==
  {<<"a", "|", "b", ">", "f", "|", "c">>,
   <<"(", "m", ";", "n", ")", ">", ">", "o", "|", "r">>,
   <<"|", "p">>, <<"c", "d", " ", "x">>, <<"u", " ", "v", ")">>}
\* i|k&  runs in the background, and  s|t  may find no slot
Tight == {<<"i", "|", "k", "&">>, <<"s", "|", "t">>}

MCSessions == {Lists, Blocks, Tight}

ASSUME
  /\ V!VmAssumption /\ F!TrapFrameAssumption /\ U!UmallocAssumption
  /\ ParseAssumption /\ PB!ParseAssumption /\ ShAssumption

-----------------------------------------------------------------------------
ProgramsInit ==
  /\ moves \in {"vm", "exec", "trap", "malloc", "parse", "long", "sh"}
  /\ IF moves = "exec" THEN W!Init ELSE V!Init
  /\ F!Init /\ U!Init
  /\ ShInit /\ (moves # "sh" => todo = Lists)

ProgramsNext ==
  /\ UNCHANGED moves
  /\ \/ /\ \/ moves = "vm" /\ V!Next
           \/ moves = "exec" /\ W!Next
        /\ UNCHANGED <<trapVars, heapVars, shVars>>
     \/ moves = "trap" /\ F!Next /\ UNCHANGED <<vmVars, heapVars, shVars>>
     \/ moves = "malloc" /\ U!Next /\ UNCHANGED <<vmVars, trapVars, shVars>>
     \/ /\ \/ moves = "parse" /\ Next
           \/ moves = "long" /\ PB!Next
        /\ UNCHANGED <<vmVars, trapVars, heapVars, proc, pid, todo>>
     \/ moves = "sh" /\ ShNext /\ UNCHANGED <<vmVars, trapVars, heapVars>>

ProgramsSpec == ProgramsInit /\ [][ProgramsNext]_<<moves, vmVars, trapVars, heapVars, shVars>>

-----------------------------------------------------------------------------
(* The pages are exact: a page is free, in a page table, in use as one or  *)
(* a kernel stack, never two of them; the entries below the size of a      *)
(* process are present and no others; and a call of sbrk() or exec() that  *)
(* fails gives back all the pages it took.                                 *)
PagesExact ==
  /\ moves = "vm" => V!NoPageTwice /\ V!SizeBacked
  /\ moves = "exec" => W!NoPageTwice /\ W!SizeBacked /\ W!NoPageLost

(* sbrk(), fork() and exec() act on images that processes have of their    *)
(* own, exec() on all of the image or none of it.                          *)
ImplementsImages == V!ImplementsImages

(* The way into the kernel and back is exact: a field of struct trapframe  *)
(* is the word with its name whichever vector built the frame, swtch()     *)
(* gives a thread its registers back, a kernel stack holds a system call   *)
(* and one interrupt at most, and a return restores what the interrupted   *)
(* code had.                                                               *)
KernelEntry ==
  /\ [](moves = "trap" => F!FrameMatchesStruct /\ F!SwtchRestores /\ F!StackBounded)
  /\ F!Restores

(* The heap of umalloc.c is exact: blocks in use, free blocks and other    *)
(* users' units tile it, and the free list is one cycle in address order   *)
(* without neighbours.                                                     *)
HeapExact == moves = "malloc" => U!Tiles /\ U!Coalesced

(* parsecmd() accepts exactly the lines of the grammar, its tree is the    *)
(* tree of the line, and nulterminate() ends each word where it ends.      *)
ParsesGrammar ==
  /\ moves = "parse" => AcceptsGrammar /\ TreeIsTheLine /\ WordsExact
  /\ moves = "long" => PB!AcceptsGrammar /\ PB!TreeIsTheLine /\ PB!WordsExact

(* The shell does what the line says: programs start with descriptors 0 to *)
(* 2 only, wired as the tree asks, and the parts of a list in order.       *)
RunsAsParsed == moves = "sh" => CleanTable /\ WiredAsParsed /\ Sequenced
=============================================================================
