-------------------------------- MODULE Sh --------------------------------
(***************************************************************************)
(* The shell at work: init starts it and reaps orphans (src/init.c), the   *)
(* shell's main loop, and the processes runcmd() forks for pipes, lists,   *)
(* redirections and background commands, each with its own descriptor      *)
(* table (src/sh.c).  The lines come from ShParse's parser.  The kernel's  *)
(* fork, exit, wait, pipe, dup, open and close are one step each here;     *)
(* Proc, FileTable and Pipe model what happens inside them.                *)
(*                                                                         *)
(* A table is private to its process.  What others see of it is whether a  *)
(* pipe still has a write end, so the close and dup calls a new child      *)
(* makes in a row are one step.                                            *)
(***************************************************************************)
EXTENDS ShParse

CONSTANTS
  Sessions, \* what the user types in a session: a set of lines, each once, in
            \* any order; <<>> is the end of file character
  NPROC,    \* slots in the process table
  NOFILE,   \* descriptors of a process
  MayFail   \* TRUE: open(), exec() can fail

ShAssumption == NPROC \in Nat \ {0} /\ NOFILE \in Nat /\ MayFail \in BOOLEAN

VARIABLES
  proc,     \* slot -> process
  pid,      \* init's local: the shell it waits for
  todo      \* the lines not typed yet

vars == <<line, proc, pid, todo>>

Lines == UNION Sessions
Pids == 1 .. NPROC
INIT == 1
Fds == 0 .. NOFILE - 1

Unused == <<>>
Console == <<"con">>
File(name) == <<"file", name>>
ReadEnd(i) == <<"r", i>>
WriteEnd(i) == <<"w", i>>

Blank == [pc |-> "free", parent |-> 0, fd |-> [f \in Fds |-> Unused],
          buf |-> <<>>, cmd |-> <<>>, p |-> <<>>, name |-> <<>>]

\* init's open() and two dup(0)s
ThreeConsoles == [f \in Fds |-> IF f < 3 THEN Console ELSE Unused]

ShInit ==
  /\ proc = [q \in Pids |-> IF q = INIT THEN [Blank EXCEPT !.pc = "i_fork", !.fd = ThreeConsoles]
                                        ELSE Blank]
  /\ pid = 0 /\ todo \in Sessions /\ line = <<>>

FreeFds(fd) == {f \in Fds : fd[f] = Unused}
Close(fd, f) == [fd EXCEPT ![f] = Unused]
Install(fd, d) == [fd EXCEPT ![Min(FreeFds(fd))] = d]
Dup(fd, f) == IF FreeFds(fd) = {} THEN fd ELSE Install(fd, fd[f])

Holds(q, d) == \E f \in Fds : proc[q].fd[f] = d
FreePipe == Min({i \in 1 .. NPROC * NOFILE : \A q \in Pids : ~Holds(q, ReadEnd(i)) /\ ~Holds(q, WriteEnd(i))})

Slots == {q \in Pids : proc[q].pc = "free"}

\* A step of p that touches only p.
Becomes(p, rec) == proc' = [proc EXCEPT ![p] = rec]
Goto(p, pc) == Becomes(p, [proc[p] EXCEPT !.pc = pc])

\* exit(): every descriptor is closed, the children pass to init.
Exit(p) ==
  proc' = [q \in Pids |->
             CASE q = p                -> [Blank EXCEPT !.pc = "zombie", !.parent = proc[p].parent]
               [] proc[q].parent = p   -> [proc[q] EXCEPT !.parent = INIT]
               [] OTHER                -> proc[q]]

\* fork1(): the child runs child, the parent goes to next; panic() when
\* there is no slot.
Fork1(p, child, next) ==
  IF Slots = {} THEN Exit(p)
  ELSE proc' = [proc EXCEPT ![Min(Slots)] = [child EXCEPT !.parent = p], ![p].pc = next]

\* wait(): reap a child, or return -1 without one; done is the process after.
Wait(p, done) ==
  \/ \E q \in Pids : /\ proc[q].parent = p /\ proc[q].pc = "zombie"
                     /\ proc' = [proc EXCEPT ![q] = Blank, ![p] = done]
  \/ (\A q \in Pids : proc[q].parent # p) /\ Becomes(p, done)
-----------------------------------------------------------------------------
\* init: fork the shell; without a slot init exits, and the kernel panics.
InitFork ==
  /\ proc[INIT].pc = "i_fork"
  /\ IF Slots = {} THEN Goto(INIT, "panic") /\ UNCHANGED pid
     ELSE /\ Fork1(INIT, [proc[INIT] EXCEPT !.pc = "s_open"], "i_wait")
          /\ pid' = Min(Slots)
  /\ UNCHANGED <<line, todo>>

(* Mutant: init waits for its shell only.                                  *)
InitReapsShell == {q \in Pids : q = pid /\ proc[q].pc = "zombie"}

InitReaps == {q \in Pids : proc[q].parent = INIT /\ proc[q].pc = "zombie"}

\* while((wpid = wait()) >= 0 && wpid != pid)
InitWait ==
  /\ proc[INIT].pc = "i_wait"
  /\ \E q \in InitReaps :
       /\ proc' = [proc EXCEPT ![q] = Blank,
                               ![INIT].pc = IF q = pid THEN "i_fork" ELSE "i_wait"]
       /\ pid' = IF q = pid THEN 0 ELSE pid
  /\ UNCHANGED <<line, todo>>
-----------------------------------------------------------------------------
\* main: open("console") until descriptor 3, which is closed again.
ShOpen(p) ==
  /\ proc[p].pc = "s_open"
  /\ LET f == Min(FreeFds(proc[p].fd))
     IN  IF f >= 3 THEN Goto(p, "s_get")
         ELSE Becomes(p, [proc[p] EXCEPT !.fd = Install(@, Console)])
  /\ UNCHANGED <<line, pid, todo>>

IsCd(l) == IsPrefix(<<"c", "d", " ">>, l)

\* main: the next line; the parent itself runs cd, a child anything else.
\* An empty buffer is end of file, which ends the shell.
Getcmd(p) ==
  /\ proc[p].pc = "s_get"
  /\ \E l \in todo :
       /\ todo' = todo \ {l}
       /\ CASE l = <<>> -> Exit(p)
            [] IsCd(l)  -> UNCHANGED proc
            [] OTHER    -> Fork1(p, [proc[p] EXCEPT !.pc = "parse", !.buf = l], "s_wait")
  /\ UNCHANGED <<line, pid>>

ShWait(p) ==
  /\ proc[p].pc = "s_wait"
  /\ Wait(p, [proc[p] EXCEPT !.pc = "s_get"])
  /\ UNCHANGED <<line, pid, todo>>

\* What the parser makes of each line: the tree and the terminated buffer.
Parsed == [l \in {k \in Lines : parsecmd(k).ok} |->
             [cmd |-> parsecmd(l).cmd, buf |-> nulterminate(l, parsecmd(l).cmd)]]

\* runcmd(parsecmd(buf)) in the child
Parse(p) ==
  /\ proc[p].pc = "parse"
  /\ IF proc[p].buf \in DOMAIN Parsed
     THEN Becomes(p, [proc[p] EXCEPT !.pc = "run", !.cmd = Parsed[proc[p].buf].cmd,
                                     !.buf = Parsed[proc[p].buf].buf])
     ELSE Exit(p)
  /\ UNCHANGED <<line, pid, todo>>
-----------------------------------------------------------------------------
\* runcmd(cmd) with a command of the given type
AtCmd(p, type) == proc[p].pc = "run" /\ proc[p].cmd.type = type

\* The process about to run cmd.
Runs(p, cmd) == [proc[p] EXCEPT !.pc = "run", !.cmd = cmd, !.p = <<>>]

RunExec(p) ==
  /\ AtCmd(p, "EXEC")
  /\ LET argv == proc[p].cmd.argv
     IN  \/ /\ argv # <<>>
            /\ Becomes(p, [proc[p] EXCEPT !.pc = "prog", !.buf = <<>>, !.cmd = <<>>,
                                          !.name = StringAt(proc[p].buf, argv[1].q)])
         \/ (argv = <<>> \/ MayFail) /\ Exit(p)
  /\ UNCHANGED <<line, pid, todo>>

RunRedir(p) ==
  /\ AtCmd(p, "REDIR")
  /\ LET cmd == proc[p].cmd
         d   == File(StringAt(proc[p].buf, cmd.file.q))
     IN  \/ Becomes(p, [Runs(p, cmd.cmd) EXCEPT !.fd = Install(Close(@, cmd.fd), d)])
         \/ MayFail /\ Exit(p)
  /\ UNCHANGED <<line, pid, todo>>

RunList(p) ==
  /\ AtCmd(p, "LIST")
  /\ Fork1(p, Runs(p, proc[p].cmd.left), "l_wait")
  /\ UNCHANGED <<line, pid, todo>>

(* Mutant: the list does not wait for its first command.                   *)
ListWaitsNot(p) == Becomes(p, Runs(p, proc[p].cmd.right))

ListWaits(p) == Wait(p, Runs(p, proc[p].cmd.right))

ListWait(p) == proc[p].pc = "l_wait" /\ ListWaits(p) /\ UNCHANGED <<line, pid, todo>>

\* pipe(p), or panic() without two free descriptors
RunPipe(p) ==
  /\ AtCmd(p, "PIPE")
  /\ LET fd == proc[p].fd
         r  == Min(FreeFds(fd))
         w  == Min(FreeFds(fd) \ {r})
     IN  IF Cardinality(FreeFds(fd)) < 2 THEN Exit(p)
         ELSE Becomes(p, [proc[p] EXCEPT !.pc = "p_fork1", !.p = <<r, w>>,
                            !.fd = [fd EXCEPT ![r] = ReadEnd(FreePipe), ![w] = WriteEnd(FreePipe)]])
  /\ UNCHANGED <<line, pid, todo>>

(* Mutant: the left child closes the write end only.                       *)
LeftTableLeaky(fd, r, w) == Close(Dup(Close(fd, 1), w), w)

LeftTable(fd, r, w) == Close(Close(Dup(Close(fd, 1), w), r), w)

(* Mutant: the right child takes the write end.                            *)
RightTableSwapped(fd, r, w) == Close(Close(Dup(Close(fd, 0), w), r), w)

RightTable(fd, r, w) == Close(Close(Dup(Close(fd, 0), r), r), w)

PipeFork(p) ==
  /\ \/ proc[p].pc = "p_fork1" /\ Fork1(p, [proc[p] EXCEPT !.pc = "p_left"], "p_fork2")
     \/ proc[p].pc = "p_fork2" /\ Fork1(p, [proc[p] EXCEPT !.pc = "p_right"], "p_close")
  /\ UNCHANGED <<line, pid, todo>>

PipeChild(p) ==
  /\ LET Ends2(Table(_, _, _)) == Table(proc[p].fd, proc[p].p[1], proc[p].p[2])
     IN  \/ /\ proc[p].pc = "p_left"
            /\ Becomes(p, [Runs(p, proc[p].cmd.left) EXCEPT !.fd = Ends2(LeftTable)])
         \/ /\ proc[p].pc = "p_right"
            /\ Becomes(p, [Runs(p, proc[p].cmd.right) EXCEPT !.fd = Ends2(RightTable)])
  /\ UNCHANGED <<line, pid, todo>>

(* Mutant: the parent keeps the write end.                                 *)
ParentTableLeaky(fd, r, w) == Close(fd, r)

ParentTable(fd, r, w) == Close(Close(fd, r), w)

PipeClose(p) ==
  /\ proc[p].pc = "p_close"
  /\ Becomes(p, [proc[p] EXCEPT !.pc = "p_wait1",
                                !.fd = ParentTable(@, proc[p].p[1], proc[p].p[2])])
  /\ UNCHANGED <<line, pid, todo>>

PipeWait(p) ==
  /\ \/ proc[p].pc = "p_wait1" /\ Wait(p, [proc[p] EXCEPT !.pc = "p_wait2"])
     \/ proc[p].pc = "p_wait2" /\ Wait(p, [proc[p] EXCEPT !.pc = "exit"])
  /\ UNCHANGED <<line, pid, todo>>

RunBack(p) ==
  /\ AtCmd(p, "BACK")
  /\ Fork1(p, Runs(p, proc[p].cmd.cmd), "exit")
  /\ UNCHANGED <<line, pid, todo>>

\* the exit() that ends runcmd
RunExit(p) == proc[p].pc = "exit" /\ Exit(p) /\ UNCHANGED <<line, pid, todo>>

\* A program that reads a pipe goes on to end of file.
SeesEof(p) == \A i \in 1 .. NPROC * NOFILE :
                proc[p].fd[0] = ReadEnd(i) => \A q \in Pids : ~Holds(q, WriteEnd(i))

\* A program may exit at any time.
ProgExit(p) == proc[p].pc = "prog" /\ Exit(p) /\ UNCHANGED <<line, pid, todo>>
-----------------------------------------------------------------------------
ShellStep(p) ==
  \/ ShOpen(p) \/ ShWait(p) \/ Parse(p) \/ RunExec(p) \/ RunRedir(p) \/ RunList(p)
  \/ ListWait(p) \/ RunPipe(p) \/ PipeFork(p) \/ PipeChild(p) \/ PipeClose(p)
  \/ PipeWait(p) \/ RunBack(p) \/ RunExit(p)

ShNext ==
  /\ proc[INIT].pc # "panic"
  /\ \/ InitFork \/ InitWait
     \/ \E p \in Pids \ {INIT} : Getcmd(p) \/ ShellStep(p) \/ ProgExit(p)

ShSpec == ShInit /\ [][ShNext]_vars

\* Every process goes on, and a program ends once its input has ended; the
\* user need not type.
ShFairSpec ==
  /\ ShSpec
  /\ WF_vars(InitFork \/ InitWait)
  /\ \A p \in Pids \ {INIT} : WF_vars(ShellStep(p) \/ (SeesEof(p) /\ ProgExit(p)))
-----------------------------------------------------------------------------
Programs == {p \in Pids : proc[p].pc = "prog"}

(* Every program starts with descriptors 0, 1 and 2 and no other: no pipe  *)
(* end of the shell leaks into a program, and close() followed by open()   *)
(* or dup() never leaves one of the three closed.                          *)
CleanTable == \A p \in Programs : {f \in Fds : proc[p].fd[f] # Unused} = 0 .. 2

\* The wiring a command asks for: the input and output of each program, with
\* a pipe named by the programs that read it.
RECURSIVE NamesOf(_, _)
NamesOf(buf, cmd) ==
  CASE cmd.type = "EXEC" -> IF cmd.argv = <<>> THEN {} ELSE {StringAt(buf, cmd.argv[1].q)}
    [] cmd.type \in {"REDIR", "BACK"} -> NamesOf(buf, cmd.cmd)
    [] OTHER -> NamesOf(buf, cmd.left) \cup NamesOf(buf, cmd.right)

RECURSIVE Wiring(_, _, _, _)
Wiring(buf, cmd, in, out) ==
  LET file  == File(StringAt(buf, cmd.file.q))
      joint == <<"pipe", NamesOf(buf, cmd.right)>>
  IN  CASE cmd.type = "EXEC"  -> {[name |-> n, in |-> in, out |-> out] : n \in NamesOf(buf, cmd)}
        [] cmd.type = "REDIR" -> IF cmd.fd = 0 THEN Wiring(buf, cmd.cmd, file, out)
                                               ELSE Wiring(buf, cmd.cmd, in, file)
        [] cmd.type = "PIPE"  -> Wiring(buf, cmd.left, in, joint)
                                   \cup Wiring(buf, cmd.right, joint, out)
        [] cmd.type = "LIST"  -> Wiring(buf, cmd.left, in, out) \cup Wiring(buf, cmd.right, in, out)
        [] cmd.type = "BACK"  -> Wiring(buf, cmd.cmd, in, out)

Plan == UNION {Wiring(c.buf, c.cmd, Console, Console) : c \in Range(Parsed)}

Planned(p) == CHOOSE w \in Plan : w.name = proc[p].name

(* Each program reads and writes what its line says: the console, a file,  *)
(* or a pipe, and the two ends of a pipe are held only by programs that    *)
(* the line puts on its two sides.                                         *)
WiredAsParsed ==
  /\ \A p \in Programs :
       LET w == Planned(p)
           Fits(d, e, end) == IF e[1] = "pipe" THEN d[1] = end ELSE d = e
       IN  Fits(proc[p].fd[0], w.in, "r") /\ Fits(proc[p].fd[1], w.out, "w")
  /\ \A p, q \in Programs : \A i \in 1 .. NPROC * NOFILE :
       proc[p].fd[1] = WriteEnd(i) /\ proc[q].fd[0] = ReadEnd(i)
         => Planned(p).out = Planned(q).in

\* The programs a command waits for, and who must have ended before whom.
RECURSIVE Foreground(_, _)
Foreground(buf, cmd) ==
  CASE cmd.type = "EXEC"  -> NamesOf(buf, cmd)
    [] cmd.type = "BACK"  -> {}
    [] cmd.type = "REDIR" -> Foreground(buf, cmd.cmd)
    [] OTHER -> Foreground(buf, cmd.left) \cup Foreground(buf, cmd.right)

RECURSIVE Before(_, _)
Before(buf, cmd) ==
  CASE cmd.type = "EXEC" -> {}
    [] cmd.type \in {"REDIR", "BACK"} -> Before(buf, cmd.cmd)
    [] OTHER -> Before(buf, cmd.left) \cup Before(buf, cmd.right)
                  \cup (IF cmd.type = "PIPE" THEN {}
                        ELSE Foreground(buf, cmd.left) \X NamesOf(buf, cmd.right))

Order == UNION {Before(c.buf, c.cmd) : c \in Range(Parsed)}

(* A list is sequential: no program after a ';' runs while a foreground    *)
(* program before it does, pipelines included.                             *)
Sequenced ==
  \A p, q \in Programs : <<proc[p].name, proc[q].name>> \notin Order

(* The prompt comes back: whatever the user typed, a shell is at its       *)
(* prompt again and again.  No reader waits for an end of file that cannot *)
(* come because a copy of the write end was left open.                     *)
PromptReturns == []<>(\E p \in Pids : proc[p].pc = "s_get")

(* No zombie stays: every process that exits is reaped, by its parent or,  *)
(* when its parent has gone, by init.                                      *)
Reaped == \A p \in Pids : []<>(proc[p].pc # "zombie")
=============================================================================
