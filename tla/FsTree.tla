------------------------------- MODULE FsTree -------------------------------
(***************************************************************************)
(* The directory tree and the calls that change it: namex, dirlookup and   *)
(* dirlink of fs.c; link, unlink, open, mkdir, mknod, chdir and close of   *)
(* sysfile.c, made by processes at the same time.                          *)
(*                                                                         *)
(* What a call does between ilock() and iunlock() of one inode is one      *)
(* step; unlink, which locks an inode while it holds its directory, takes  *)
(* two.  A path is a sequence of names.  An inode is its type, link count, *)
(* reference count and, for a directory, its entries in order; iput() of   *)
(* the last reference to an inode without links frees it (Inode).          *)
(***************************************************************************)
EXTENDS Naturals, Sequences, FiniteSets

CONSTANTS Proc,
          Calls,      \* the calls the processes make
          INums,      \* inodes 1 .. sb.ninodes - 1; 1 is ROOTINO
          None

TreeAssumption == INums \subseteq Nat /\ 1 \in INums

VARIABLES ino,    \* the inodes
          lock,   \* the holder of an inode's lock between steps
          st,     \* what each process is doing
          cwd,    \* proc->cwd
          open    \* the inode of the process's open file, 0 if none

vars == <<ino, lock, st, cwd, open>>

ROOTINO == 1
Unused == [type |-> "free", nlink |-> 0, ref |-> 0, ents |-> <<>>]
Entry(n, i) == [name |-> n, inum |-> i]
Idle == [pc |-> "idle", call |-> None, rest |-> <<>>, ip |-> 0, old |-> 0, name |-> ""]

Init ==
  /\ ino = [i \in INums |-> IF i # ROOTINO THEN Unused ELSE
              [type |-> "dir", nlink |-> 1, ref |-> Cardinality(Proc),
               ents |-> <<Entry(".", ROOTINO), Entry("..", ROOTINO)>>]]
  /\ lock = [i \in INums |-> None]
  /\ st = [p \in Proc |-> Idle]
  /\ cwd = [p \in Proc |-> ROOTINO]
  /\ open = [p \in Proc |-> 0]

-----------------------------------------------------------------------------
\* iget(), idup()
Get(f, i) == [f EXCEPT ![i].ref = @ + 1]

(* Mutant: iput() frees although there are other references.               *)
PutEager(f, i) ==
  IF f[i].nlink = 0 THEN [f EXCEPT ![i] = Unused] ELSE [f EXCEPT ![i].ref = @ - 1]

\* iput()
Put(f, i) ==
  IF f[i].ref = 1 /\ f[i].nlink = 0 THEN [f EXCEPT ![i] = Unused]
  ELSE [f EXCEPT ![i].ref = @ - 1]

\* The offset dirlookup() finds, 0 if there is none.
Find(f, d, n) ==
  LET at == {k \in 1 .. Len(f[d].ents) : f[d].ents[k].inum # 0 /\ f[d].ents[k].name = n}
  IN IF at = {} THEN 0 ELSE CHOOSE k \in at : \A j \in at : k <= j

Dirlookup(f, d, n) == IF Find(f, d, n) = 0 THEN 0 ELSE f[d].ents[Find(f, d, n)].inum

(* Mutant: dirlink() does not check that the name is not present.          *)
PresentNever(f, d, n) == FALSE

Present(f, d, n) == Find(f, d, n) # 0

\* dirlink() of a name that is not there: in the first empty entry.
Dirlink(f, d, n, i) ==
  LET holes == {k \in 1 .. Len(f[d].ents) : f[d].ents[k].inum = 0}
      first == CHOOSE k \in holes : \A j \in holes : k <= j
  IN IF holes = {} THEN [f EXCEPT ![d].ents = Append(@, Entry(n, i))]
     ELSE [f EXCEPT ![d].ents[first] = Entry(n, i)]

Isdirempty(i) == \A k \in 3 .. Len(ino[i].ents) : ino[i].ents[k].inum = 0

-----------------------------------------------------------------------------
To(p, l) == st' = [st EXCEPT ![p].pc = l]
Return(p) == st' = [st EXCEPT ![p] = Idle]

\* The caller asked for nameiparent().
Parent(r) == r.call.op \in {"creat", "mkdir", "mknod", "unlink"} \/ (r.call.op = "link" /\ r.old # 0)

\* namex() starts at the root or at the current directory.
Start(p, path) == IF path # <<>> /\ path[1] = "/" THEN <<ROOTINO, Tail(path)>> ELSE <<cwd[p], path>>

Begin(p, c) ==
  LET s == Start(p, c.path) IN
  /\ st[p].pc = "idle"
  /\ c.op \in {"open", "creat"} => open[p] = 0
  /\ ino' = Get(ino, s[1])
  /\ st' = [st EXCEPT ![p] = [Idle EXCEPT !.pc = "walk", !.call = c, !.ip = s[1], !.rest = s[2]]]
  /\ UNCHANGED <<lock, cwd, open>>

(* Mutant: namex() keeps the inode it looked in when it fails.             *)
LeaveKeeps(f, i) == f

\* iunlockput() on the error paths of namex().
Leave(f, i) == Put(f, i)

\* namei() or nameiparent() returned 0; sys_link() has to undo its count.
NoPath(p) ==
  IF st[p].old # 0 THEN st' = [st EXCEPT ![p].pc = "linkbad", ![p].ip = 0] ELSE Return(p)

\* One element of the path in namex(), with the inode locked meanwhile.
Walk(p) ==
  LET r == st[p]
      next == Dirlookup(ino, r.ip, r.rest[1])
  IN /\ r.pc = "walk" /\ (r.rest # <<>> => lock[r.ip] = None)
     /\ IF r.rest = <<>>
          THEN IF Parent(r) THEN ino' = Leave(ino, r.ip) /\ NoPath(p)
               ELSE To(p, "found") /\ UNCHANGED ino
        ELSE IF ino[r.ip].type # "dir"
          THEN ino' = Leave(ino, r.ip) /\ NoPath(p)
        ELSE IF Parent(r) /\ Len(r.rest) = 1
          THEN st' = [st EXCEPT ![p].pc = "found", ![p].name = r.rest[1]] /\ UNCHANGED ino
        ELSE IF next = 0
          THEN ino' = Leave(ino, r.ip) /\ NoPath(p)
          ELSE /\ ino' = Put(Get(ino, next), r.ip)
               /\ st' = [st EXCEPT ![p].ip = next, ![p].rest = Tail(@)]
     /\ UNCHANGED <<lock, cwd, open>>

\* A call that found its inode and gets its lock.
Locks(p, op) == st[p].pc = "found" /\ st[p].call.op = op /\ lock[st[p].ip] = None

\* sys_open() without O_CREATE: directories only for reading.
Open(p) ==
  LET r == st[p]
      bad == ino[r.ip].type = "dir" /\ r.call.write
  IN /\ Locks(p, "open")
     /\ ino' = IF bad THEN Put(ino, r.ip) ELSE ino
     /\ open' = [open EXCEPT ![p] = IF bad THEN 0 ELSE r.ip]
     /\ Return(p)
     /\ UNCHANGED <<lock, cwd>>

\* fileclose() of an inode.
Close(p) ==
  /\ open[p] # 0 /\ st[p].pc = "idle"
  /\ ino' = Put(ino, open[p])
  /\ open' = [open EXCEPT ![p] = 0]
  /\ UNCHANGED <<lock, st, cwd>>

Chdir(p) ==
  LET r == st[p] IN
  /\ Locks(p, "chdir")
  /\ IF ino[r.ip].type = "dir"
       THEN ino' = Put(ino, cwd[p]) /\ cwd' = [cwd EXCEPT ![p] = r.ip]
       ELSE ino' = Put(ino, r.ip) /\ UNCHANGED cwd
  /\ Return(p)
  /\ UNCHANGED <<lock, open>>

-----------------------------------------------------------------------------
\* What is left of sys_open(), sys_mkdir() and sys_mknod() after create().
Created(p, f, i) ==
  IF st[p].call.op = "creat"
    THEN ino' = f /\ open' = [open EXCEPT ![p] = i]
    ELSE ino' = Put(f, i) /\ UNCHANGED open

\* create() of a new name; the new inode is not reachable before dirlink().
MakeInode(p, d, n, type) ==
  LET free == {i \in INums : ino[i].type = "free" /\ ino[i].ref = 0}
      i == CHOOSE j \in free : \A k \in free : j <= k
      new == [ino EXCEPT ![i] = [type |-> type, nlink |-> 1, ref |-> 1, ents |->
                IF type = "dir" THEN <<Entry(".", i), Entry("..", d)>> ELSE <<>>]]
      counted == IF type = "dir" THEN [new EXCEPT ![d].nlink = @ + 1] ELSE new
  IN IF free = {} THEN To(p, "panic") /\ UNCHANGED <<ino, open>>
     ELSE Created(p, Put(Dirlink(counted, d, n, i), d), i) /\ Return(p)

Create(p) ==
  LET r == st[p]
      there == Dirlookup(ino, r.ip, r.name)
  IN /\ Locks(p, r.call.op) /\ r.call.op \in {"creat", "mkdir", "mknod"}
     /\ IF there = 0
          THEN MakeInode(p, r.ip, r.name,
                         [creat |-> "file", mkdir |-> "dir", mknod |-> "dev"][r.call.op])
          ELSE /\ ino' = Put(Get(ino, there), r.ip)
               /\ st' = [st EXCEPT ![p].pc = "exists", ![p].ip = there]
               /\ UNCHANGED open
     /\ UNCHANGED <<lock, cwd>>

\* create() of a name that exists: O_CREATE opens a file.
CreateExisting(p) ==
  LET r == st[p] IN
  /\ r.pc = "exists" /\ lock[r.ip] = None
  /\ IF r.call.op = "creat" /\ ino[r.ip].type = "file"
       THEN open' = [open EXCEPT ![p] = r.ip] /\ UNCHANGED ino
       ELSE ino' = Put(ino, r.ip) /\ UNCHANGED open
  /\ Return(p)
  /\ UNCHANGED <<lock, cwd>>

-----------------------------------------------------------------------------
(* Mutant: sys_unlink() accepts "." and "..".                              *)
UnlinkableAny(n) == TRUE

Unlinkable(n) == n \notin {".", ".."}

\* sys_unlink() locks the directory and finds the entry.
Unlink(p) ==
  LET r == st[p]
      i == Dirlookup(ino, r.ip, r.name)
  IN /\ Locks(p, "unlink")
     /\ IF ~Unlinkable(r.name) \/ i = 0
          THEN ino' = Put(ino, r.ip) /\ Return(p) /\ UNCHANGED lock
          ELSE /\ ino' = Get(ino, i)
               /\ lock' = [lock EXCEPT ![r.ip] = p]
               /\ st' = [st EXCEPT ![p].pc = "unlink", ![p].old = r.ip, ![p].ip = i]
     /\ UNCHANGED <<cwd, open>>

\* The entry is cleared; a directory's ".." no longer counts for its parent.
Unentry(f, d, k, dir) ==
  [f EXCEPT ![d].ents[k].inum = 0, ![d].nlink = IF dir THEN @ - 1 ELSE @]

\* It locks the inode, removes the entry and drops the counts.
UnlinkChild(p) ==
  LET r == st[p]
      dir == ino[r.ip].type = "dir"
      cleared == Unentry(ino, r.old, Find(ino, r.old, r.name), dir)
  IN /\ r.pc = "unlink" /\ lock[r.ip] = None
     /\ IF ino[r.ip].nlink < 1
          THEN To(p, "panic") /\ UNCHANGED <<ino, lock>>
          ELSE /\ ino' = IF dir /\ ~Isdirempty(r.ip)
                           THEN Put(Put(ino, r.ip), r.old)
                           ELSE Put([Put(cleared, r.old) EXCEPT ![r.ip].nlink = @ - 1], r.ip)
               /\ lock' = [lock EXCEPT ![r.old] = None]
               /\ Return(p)
     /\ UNCHANGED <<cwd, open>>

(* Mutant: sys_link() adds the name without counting it.                   *)
CountNot(f, i) == f

Count(f, i) == [f EXCEPT ![i].nlink = @ + 1]

\* sys_link(): count first, then look for the new name's directory.
Link(p) ==
  LET r == st[p]
      s == Start(p, r.call.new)
  IN /\ Locks(p, "link") /\ r.old = 0
     /\ IF ino[r.ip].type = "dir"
          THEN ino' = Put(ino, r.ip) /\ Return(p)
          ELSE /\ ino' = Get(Count(ino, r.ip), s[1])
               /\ st' = [st EXCEPT ![p] = [r EXCEPT !.pc = "walk", !.old = r.ip,
                                                    !.ip = s[1], !.rest = s[2]]]
     /\ UNCHANGED <<lock, cwd, open>>

LinkEntry(p) ==
  LET r == st[p] IN
  /\ Locks(p, "link") /\ r.old # 0
  /\ IF Present(ino, r.ip, r.name)
       THEN ino' = Put(ino, r.ip) /\ NoPath(p)
       ELSE ino' = Put(Put(Dirlink(ino, r.ip, r.name, r.old), r.ip), r.old) /\ Return(p)
  /\ UNCHANGED <<lock, cwd, open>>

(* Mutant: sys_link() does not take the count back when it fails.          *)
LinkBadKeeps(p) ==
  /\ st[p].pc = "linkbad" /\ lock[st[p].old] = None
  /\ ino' = Put(ino, st[p].old)
  /\ Return(p)
  /\ UNCHANGED <<lock, cwd, open>>

LinkBad(p) ==
  /\ st[p].pc = "linkbad" /\ lock[st[p].old] = None
  /\ ino' = Put([ino EXCEPT ![st[p].old].nlink = @ - 1], st[p].old)
  /\ Return(p)
  /\ UNCHANGED <<lock, cwd, open>>

Next == \E p \in Proc :
  \/ \E c \in Calls : Begin(p, c)
  \/ Walk(p) \/ Open(p) \/ Close(p) \/ Chdir(p) \/ Create(p) \/ CreateExisting(p)
  \/ Unlink(p) \/ UnlinkChild(p) \/ Link(p) \/ LinkEntry(p) \/ LinkBad(p)

Spec == Init /\ [][Next]_vars

-----------------------------------------------------------------------------
Quiet == \A p \in Proc : st[p].pc = "idle"

\* The entries that name an inode, in the directories that are themselves named.
Named(i) == {<<d, k>> \in UNION {{d} \X (1 .. Len(ino[d].ents)) : d \in INums} :
               ino[d].ents[k].inum = i /\ ino[d].ents[k].name # "." /\ ino[d].nlink > 0}

(* Whenever no call is in progress, the link count of an inode is the      *)
(* number of entries that name it, the ".." of the directories in it       *)
(* included: no failed, raced or repeated call loses or keeps a link.      *)
LinksExact ==
  Quiet => \A i \in INums :
    ino[i].type # "free" => ino[i].nlink = Cardinality(Named(i))

(* Every entry of every directory, and every inode a process has open,     *)
(* stands in or works on, is allocated: ilock() never panics for no type.  *)
NoDangling ==
  /\ \A d \in INums : \A k \in 1 .. Len(ino[d].ents) :
       ino[d].ents[k].inum # 0 => ino[ino[d].ents[k].inum].type # "free"
  /\ \A p \in Proc : \A i \in {open[p], cwd[p], st[p].ip, st[p].old} \ {0} : ino[i].type # "free"

(* A reference count is the number of pointers: no call leaks one on any   *)
(* of its error paths.                                                     *)
RefsExact ==
  \A i \in INums : ino[i].ref =
    Cardinality({p \in Proc : cwd[p] = i}) + Cardinality({p \in Proc : open[p] = i})
    + Cardinality({p \in Proc : st[p].ip = i}) + Cardinality({p \in Proc : st[p].old = i})

(* A name is at most once in a directory, however many processes create    *)
(* and link it at the same time.                                           *)
NamesUnique ==
  \A d \in INums : \A j, k \in 1 .. Len(ino[d].ents) :
    /\ ino[d].ents[j].inum # 0 /\ ino[d].ents[k].inum # 0
    /\ ino[d].ents[j].name = ino[d].ents[k].name
    => j = k

(* A process that holds a directory never waits for itself or for another  *)
(* that waits for it: unlink locks from parent to child only.              *)
NoLockCycle ==
  \A p, q \in Proc :
    st[p].pc = "unlink" /\ st[q].pc = "unlink" =>
      ~(lock[st[p].ip] = q /\ lock[st[q].ip] = p)

(* No unlink: nlink < 1, and inodes enough for the names there are.        *)
NoPanic == \A p \in Proc : st[p].pc # "panic"
=============================================================================
