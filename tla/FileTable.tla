----------------------------- MODULE FileTable -----------------------------
(***************************************************************************)
(* The open file table (file.c), the descriptor tables (sysfile.c, fork()  *)
(* and exit() of proc.c) and the end points they own: inode references and *)
(* the two sides of a pipe.  A process runs one system call at a time;     *)
(* job[p] is what is left of it, one entry per critical section of         *)
(* ftable.lock, the pipe's lock or the inode cache's lock.                 *)
(***************************************************************************)
EXTENDS Naturals, FiniteSets, Sequences, FiniteSetsExt

CONSTANTS Proc, InitProc,
          NFILE, NOFILE,   \* param.h
          Ip,              \* inodes
          Page             \* pages kalloc() has for pipes

FileTableAssumption == InitProc \in Proc /\ NFILE \in Nat /\ NOFILE \in Nat

File == 1 .. NFILE
Fd == 0 .. NOFILE - 1

VARIABLES ftable,   \* [File -> struct file]
          ofile,    \* [Proc -> [Fd -> File or 0]]
          pipe,     \* [Page -> [used, readopen, writeopen]]
          iref,     \* [Ip -> references held by files and open()]
          st,       \* "UNUSED", "EMBRYO", "RUN" or "EXIT"
          job

vars == <<ftable, ofile, pipe, iref, st, job>>

Init ==
  /\ ftable = [f \in File |-> [ref |-> 0, type |-> "NONE", obj |-> 0, writable |-> FALSE]]
  /\ ofile = [p \in Proc |-> [fd \in Fd |-> 0]]
  /\ pipe = [g \in Page |-> [used |-> FALSE, readopen |-> FALSE, writeopen |-> FALSE]]
  /\ iref = [i \in Ip |-> 0]
  /\ st = [p \in Proc |-> IF p = InitProc THEN "RUN" ELSE "UNUSED"]
  /\ job = [p \in Proc |-> <<>>]

\* filealloc(): the first slot with no reference, 0 if there is none.
Filealloc ==
  LET free == {f \in File : ftable[f].ref = 0}
  IN IF free = {} THEN 0 ELSE Min(free)

\* fdalloc(): the n-th free descriptor of p, NOFILE if there is none.
Fdalloc(p, n) ==
  LET free == {fd \in Fd : ofile[p][fd] = 0}
  IN IF Cardinality(free) < n THEN NOFILE
     ELSE CHOOSE fd \in free : Cardinality({e \in free : e <= fd}) = n

Idle(p) == st[p] = "RUN" /\ job[p] = <<>>

At(p, op) == job[p] # <<>> /\ Head(job[p]).op = op

Fileclose(f) == [op |-> "fileclose", f |-> f]
Iput(i) == [op |-> "iput", ip |-> i]
Filedup(f, np, fd) == [op |-> "filedup", f |-> f, np |-> np, fd |-> fd]

-----------------------------------------------------------------------------
(* Mutant: a failed open() keeps the inode.                                *)
SysOpenKeep(p, i) ==
  LET f == Filealloc
      fd == Fdalloc(p, 1)
  IN /\ Idle(p)
     /\ iref' = [iref EXCEPT ![i] = @ + 1]
     /\ f # 0 /\ fd = NOFILE
     /\ ftable' = [ftable EXCEPT ![f].ref = 1]
     /\ job' = [job EXCEPT ![p] = <<Fileclose(f)>>]
     /\ UNCHANGED <<ofile, pipe, st>>

\* sys_open() from the reference namei() returns to the end of the transaction.
SysOpen(p, i) ==
  LET f == Filealloc
      fd == Fdalloc(p, 1)
  IN /\ Idle(p)
     /\ iref' = [iref EXCEPT ![i] = @ + 1]
     /\ ftable' = IF f = 0 THEN ftable ELSE [ftable EXCEPT ![f].ref = 1]
     /\ IF f = 0 \/ fd = NOFILE
          THEN /\ job' = [job EXCEPT ![p] =
                    (IF f = 0 THEN <<>> ELSE <<Fileclose(f)>>) \o <<Iput(i)>>]
               /\ ofile' = ofile
          ELSE /\ job' = [job EXCEPT ![p] =
                    <<[op |-> "fill", f |-> f, ip |-> i]>>]
               /\ ofile' = [ofile EXCEPT ![p][fd] = f]
     /\ UNCHANGED <<pipe, st>>

\* The assignments to *f after end_op(); the offset and the modes play no part.
OpenFill(p) ==
  LET j == Head(job[p]) IN
  /\ At(p, "fill")
  /\ ftable' = [ftable EXCEPT ![j.f].type = "INODE", ![j.f].obj = j.ip]
  /\ job' = [job EXCEPT ![p] = Tail(@)]
  /\ UNCHANGED <<ofile, pipe, iref, st>>

\* sys_pipe() calls pipealloc(), which calls filealloc() twice.
SysPipe(p) ==
  LET f0 == Filealloc IN
  /\ Idle(p) /\ f0 # 0
  /\ ftable' = [ftable EXCEPT ![f0].ref = 1]
  /\ job' = [job EXCEPT ![p] = <<[op |-> "pipe", rf |-> f0, wf |-> 0]>>]
  /\ UNCHANGED <<ofile, pipe, iref, st>>

PipeSecond(p) ==
  LET f0 == Head(job[p]).rf
      f1 == Filealloc
  IN /\ At(p, "pipe") /\ Head(job[p]).wf = 0
     /\ IF f1 = 0
          THEN /\ job' = [job EXCEPT ![p] = <<Fileclose(f0)>>]
               /\ ftable' = ftable
          ELSE /\ job' = [job EXCEPT ![p] = <<[op |-> "pipe", rf |-> f0, wf |-> f1]>>]
               /\ ftable' = [ftable EXCEPT ![f1].ref = 1]
     /\ UNCHANGED <<ofile, pipe, iref, st>>

PipeFile(f, g, w) ==
  [ref |-> ftable[f].ref, type |-> "PIPE", obj |-> g, writable |-> w]

\* sys_pipe() fails after pipealloc().
(* Mutant: the first descriptor stays in the table when the second fails.  *)
PipeFailKeep(p) == [ofile EXCEPT ![p] =
  [fd \in Fd |-> IF fd = Fdalloc(p, 1) THEN Head(job[p]).rf ELSE @[fd]]]

PipeFail(p) == ofile

\* kalloc(), the two files filled in, and sys_pipe()'s two descriptors.
PipeRest(p) ==
  LET j == Head(job[p])
      fd0 == Fdalloc(p, 1)
      fd1 == Fdalloc(p, 2)
      free == {g \in Page : ~pipe[g].used}
      bad == <<Fileclose(j.rf), Fileclose(j.wf)>>
  IN /\ At(p, "pipe") /\ j.wf # 0
     /\ IF free = {}
          THEN job' = [job EXCEPT ![p] = bad] /\ UNCHANGED <<ofile, pipe, ftable>>
          ELSE \E g \in free :
            /\ pipe' = [pipe EXCEPT ![g] =
                 [used |-> TRUE, readopen |-> TRUE, writeopen |-> TRUE]]
            /\ ftable' = [ftable EXCEPT ![j.rf] = PipeFile(j.rf, g, FALSE),
                                        ![j.wf] = PipeFile(j.wf, g, TRUE)]
            /\ IF fd1 = NOFILE
                 THEN job' = [job EXCEPT ![p] = bad] /\ ofile' = PipeFail(p)
                 ELSE /\ job' = [job EXCEPT ![p] = <<>>]
                      /\ ofile' = [ofile EXCEPT ![p][fd0] = j.rf, ![p][fd1] = j.wf]
     /\ UNCHANGED <<iref, st>>

-----------------------------------------------------------------------------
\* sys_dup(): the descriptor first, the reference second.
SysDup(p, fd) ==
  LET f == ofile[p][fd]
      nfd == Fdalloc(p, 1)
  IN /\ Idle(p) /\ f # 0 /\ nfd # NOFILE
     /\ ofile' = [ofile EXCEPT ![p][nfd] = f]
     /\ job' = [job EXCEPT ![p] = <<Filedup(f, p, nfd)>>]
     /\ UNCHANGED <<ftable, pipe, iref, st>>

SysClose(p, fd) ==
  /\ Idle(p) /\ ofile[p][fd] # 0
  /\ ofile' = [ofile EXCEPT ![p][fd] = 0]
  /\ job' = [job EXCEPT ![p] = <<Fileclose(ofile[p][fd])>>]
  /\ UNCHANGED <<ftable, pipe, iref, st>>

\* fork(): one filedup() per open descriptor, in order, then the child runs.
Fork(p, np) ==
  LET open == {fd \in Fd : ofile[p][fd] # 0}
      nth(k) == CHOOSE fd \in open : Cardinality({e \in open : e <= fd}) = k
  IN /\ Idle(p) /\ st[np] = "UNUSED"
     /\ st' = [st EXCEPT ![np] = "EMBRYO"]
     /\ job' = [job EXCEPT ![p] =
          Append([k \in 1 .. Cardinality(open) |-> Filedup(ofile[p][nth(k)], np, nth(k))],
                 [op |-> "run", np |-> np])]
     /\ UNCHANGED <<ftable, ofile, pipe, iref>>

ForkRun(p) ==
  /\ At(p, "run")
  /\ st' = [st EXCEPT ![Head(job[p]).np] = "RUN"]
  /\ job' = [job EXCEPT ![p] = Tail(@)]
  /\ UNCHANGED <<ftable, ofile, pipe, iref>>

\* exit() closes the descriptors in order and becomes a zombie.  The entry of
\* ofile is private to p, so clearing it early changes nothing.
Exit(p) ==
  LET open == {fd \in Fd : ofile[p][fd] # 0} IN
  /\ p # InitProc /\ st[p] \in {"RUN", "EXIT"} /\ job[p] = <<>>
  /\ IF open = {}
       THEN st' = [st EXCEPT ![p] = "UNUSED"] /\ UNCHANGED <<ofile, job>>
       ELSE /\ st' = [st EXCEPT ![p] = "EXIT"]
            /\ ofile' = [ofile EXCEPT ![p][Min(open)] = 0]
            /\ job' = [job EXCEPT ![p] = <<Fileclose(ofile[p][Min(open)])>>]
  /\ UNCHANGED <<ftable, pipe, iref>>

-----------------------------------------------------------------------------
\* filedup()
FiledupStep(p) ==
  LET j == Head(job[p]) IN
  /\ At(p, "filedup")
  /\ ftable' = [ftable EXCEPT ![j.f].ref = @ + 1]
  /\ ofile' = [ofile EXCEPT ![j.np][j.fd] = j.f]
  /\ job' = [job EXCEPT ![p] = Tail(@)]
  /\ UNCHANGED <<pipe, iref, st>>

(* Mutant: fileclose() leaves the type of a file nobody holds.             *)
ClearedStale(f) == [ftable EXCEPT ![f].ref = 0]

\* f->ref = 0; f->type = FD_NONE.  No code reads the rest of such a file, so
\* it is given a fixed value.
Cleared(f) ==
  [ftable EXCEPT ![f] = [ref |-> 0, type |-> "NONE", obj |-> 0, writable |-> FALSE]]

\* fileclose() up to release(): a copy of the file is kept for what follows.
FilecloseStep(p) ==
  LET f == Head(job[p]).f
      ff == ftable[f]
      rest == Tail(job[p])
  IN /\ At(p, "fileclose")
     /\ IF ff.ref > 1
          THEN ftable' = [ftable EXCEPT ![f].ref = @ - 1] /\ job' = [job EXCEPT ![p] = rest]
          ELSE /\ ftable' = Cleared(f)
               /\ job' = [job EXCEPT ![p] =
                    (CASE ff.type = "PIPE" ->
                            <<[op |-> "pipeclose", pipe |-> ff.obj, writable |-> ff.writable]>>
                       [] ff.type = "INODE" -> <<Iput(ff.obj)>>
                       [] ff.type = "NONE" -> <<>>) \o rest]
     /\ UNCHANGED <<ofile, pipe, iref, st>>

(* Mutant: pipeclose() frees the pipe when either side is closed.          *)
PipeGoneEither(r, w) == ~r \/ ~w

\* p->readopen == 0 && p->writeopen == 0
PipeGone(r, w) == ~r /\ ~w

\* pipeclose(), with kfree() when both sides are closed.
Pipeclose(p) ==
  LET j == Head(job[p])
      r == pipe[j.pipe].readopen /\ j.writable
      w == pipe[j.pipe].writeopen /\ ~j.writable
  IN /\ At(p, "pipeclose")
     /\ pipe' = [pipe EXCEPT ![j.pipe] =
          [used |-> ~PipeGone(r, w), readopen |-> r, writeopen |-> w]]
     /\ job' = [job EXCEPT ![p] = Tail(@)]
     /\ UNCHANGED <<ftable, ofile, iref, st>>

\* iput(); what it does to the inode is the subject of Inode.
IputStep(p) ==
  /\ At(p, "iput")
  /\ iref' = [iref EXCEPT ![Head(job[p]).ip] = IF @ = 0 THEN 0 ELSE @ - 1]
  /\ job' = [job EXCEPT ![p] = Tail(@)]
  /\ UNCHANGED <<ftable, ofile, pipe, st>>

Call(p) ==
  \/ \E i \in Ip : SysOpen(p, i)
  \/ SysPipe(p)
  \/ \E fd \in Fd : SysDup(p, fd) \/ SysClose(p, fd)
  \/ \E np \in Proc : Fork(p, np)
  \/ Exit(p)

Step(p) ==
  \/ OpenFill(p) \/ PipeSecond(p) \/ PipeRest(p) \/ ForkRun(p)
  \/ FiledupStep(p) \/ FilecloseStep(p) \/ Pipeclose(p) \/ IputStep(p)

Next == \E p \in Proc : Call(p) \/ Step(p)

Spec == Init /\ [][Next]_vars

-----------------------------------------------------------------------------
Jobs(op) == {<<p, k>> \in Proc \X (1 .. NOFILE + 2) : k <= Len(job[p]) /\ job[p][k].op = op}

JobAt(e) == job[e[1]][e[2]]

Slots == Proc \X Fd

(* f->ref is the number of descriptors that name f and of references that  *)
(* a call in progress (open, pipe, dup, fork, close) has to account for.   *)
RefExact ==
  \A f \in File :
    ftable[f].ref + Cardinality({e \in Jobs("filedup") :
                       /\ JobAt(e).f = f
                       /\ ofile[JobAt(e).np][JobAt(e).fd] = f})
      = Cardinality({s \in Slots : ofile[s[1]][s[2]] = f})
        + Cardinality({e \in Jobs("fileclose") : JobAt(e).f = f})
        + Cardinality({e \in Jobs("pipe") : f \in {JobAt(e).rf, JobAt(e).wf}})

(* An inode has one reference per file that names it and per call between  *)
(* taking it and giving it to a file or putting it: none leaks, none is    *)
(* put twice, on the error paths of open() too.                            *)
InodeRefsExact ==
  \A i \in Ip :
    iref[i] = Cardinality({f \in File : ftable[f].type = "INODE" /\ ftable[f].obj = i})
              + Cardinality({e \in Jobs("iput") \union Jobs("fill") : JobAt(e).ip = i})

Ends(g, w) ==
  Cardinality({f \in File : /\ ftable[f].type = "PIPE" /\ ftable[f].obj = g
                            /\ ftable[f].writable = w})
  + Cardinality({e \in Jobs("pipeclose") : JobAt(e).pipe = g /\ JobAt(e).writable = w})

(* Each side of a pipe is open exactly while one file, or one close in     *)
(* progress, owns it, and the page is in use exactly while a side is open. *)
PipeEndsExact ==
  \A g \in Page :
    /\ Ends(g, FALSE) = IF pipe[g].readopen THEN 1 ELSE 0
    /\ Ends(g, TRUE) = IF pipe[g].writeopen THEN 1 ELSE 0
    /\ pipe[g].used <=> pipe[g].readopen \/ pipe[g].writeopen

(* A descriptor of a process in user mode leads to a file with a type and  *)
(* to an object that has not been released: fileread() and filewrite()     *)
(* never panic and never touch a freed pipe.                               *)
DescriptorsLive ==
  \A p \in Proc, fd \in Fd :
    Idle(p) /\ ofile[p][fd] # 0 =>
      LET f == ftable[ofile[p][fd]] IN
      /\ f.type # "NONE"
      /\ f.type = "PIPE" => pipe[f.obj].used
      /\ f.type = "INODE" => iref[f.obj] > 0
=============================================================================
