------------------------------- MODULE Inode --------------------------------
(***************************************************************************)
(* The inode cache and the life of an inode (fs.c): ialloc, iupdate, iget, *)
(* idup, ilock, iunlock and iput, driven by the calls of sysfile.c that    *)
(* open, read, create, unlink and close files of one directory.            *)
(*                                                                         *)
(* The directory is its sleep lock and, for each inode, how many entries   *)
(* name it.  An inode on disk is its type (0 when free) and link count;    *)
(* reading or writing it is one step (BufferCache).  iput() lets go of     *)
(* icache.lock while it frees an inode, and those steps are apart.         *)
(***************************************************************************)
EXTENDS Naturals, FiniteSets, FiniteSetsExt

CONSTANTS Proc, Creators, Unlinkers,   \* who may create, who may unlink
          INums,       \* the inodes: 1 .. sb.ninodes - 1
          NINODE,      \* param.h
          None,
          MaxRefs,     \* how often a process dups its reference
          Types0       \* the type of each inode at the start, 0 if it is free

InodeAssumption ==
  /\ NINODE \in Nat /\ MaxRefs \in Nat /\ Types0 \in [INums -> 0 .. 3]
  /\ INums \subseteq Nat /\ Creators \subseteq Proc /\ Unlinkers \subseteq Proc

VARIABLES disk,          \* the inodes on disk
          links,         \* the directory: entries that name the inode
          dlock,         \* who holds the directory's lock
          cache,         \* icache.inode
          pc, ip, refs   \* a process: where it is, its inode, its references

vars == <<disk, links, dlock, cache, pc, ip, refs>>

Slots == 1 .. NINODE

Init ==
  /\ links = [i \in INums |-> IF Types0[i] # 0 THEN 1 ELSE 0]
  /\ disk = [i \in INums |-> [type |-> Types0[i], nlink |-> links[i]]]
  /\ dlock = None
  /\ cache = [c \in Slots |-> [inum |-> 0, ref |-> 0, valid |-> FALSE,
                               type |-> 0, nlink |-> 0, lock |-> None]]
  /\ pc = [p \in Proc |-> "idle"]
  /\ ip = [p \in Proc |-> 0] /\ refs = [p \in Proc |-> 0]

Goto(p, l) == pc' = [pc EXCEPT ![p] = l]

\* iupdate(): the cached inode as it goes to disk.
Iupdate(c) == [disk EXCEPT ![cache'[c].inum] = [type |-> cache'[c].type, nlink |-> cache'[c].nlink]]

(* Mutant: iget() does not look for the inode in the cache.                *)
CachedNever(i) == {}

Cached(i) == {c \in Slots : cache[c].ref > 0 /\ cache[c].inum = i}

(* Mutant: iget() leaves the flags of the entry it recycles.               *)
RecycledStale(c, i) == [cache[c] EXCEPT !.inum = i, !.ref = 1]

Recycled(c, i) == [cache[c] EXCEPT !.inum = i, !.ref = 1, !.valid = FALSE]

\* iget(): one more reference, in the inode's entry or in an empty one.
Iget(p, i, next) ==
  LET empty == {c \in Slots : cache[c].ref = 0}
      first == CHOOSE c \in empty : \A d \in empty : c <= d
      hit == CHOOSE c \in Cached(i) : TRUE
  IN IF Cached(i) # {}
     THEN /\ cache' = [cache EXCEPT ![hit].ref = @ + 1]
          /\ ip' = [ip EXCEPT ![p] = hit]
          /\ Goto(p, next)
          /\ refs' = [refs EXCEPT ![p] = 1]
     ELSE IF empty # {}
     THEN /\ cache' = [cache EXCEPT ![first] = Recycled(first, i)]
          /\ ip' = [ip EXCEPT ![p] = first]
          /\ Goto(p, next)
          /\ refs' = [refs EXCEPT ![p] = 1]
     ELSE Goto(p, "panic") /\ UNCHANGED <<cache, ip, refs>>

-----------------------------------------------------------------------------
\* namei() of sys_open(): dirlookup() under the directory's lock.
Lookup(p, i) ==
  /\ pc[p] = "idle" /\ dlock = None /\ links[i] > 0
  /\ Iget(p, i, "open")
  /\ UNCHANGED <<disk, links, dlock>>

\* sys_unlink() keeps the directory locked from the lookup on.
LookupUnlink(p, i) ==
  /\ p \in Unlinkers /\ pc[p] = "idle" /\ dlock = None /\ links[i] > 0
  /\ dlock' = p
  /\ Iget(p, i, "unlink")
  /\ UNCHANGED <<disk, links>>

\* create() keeps it locked too; ialloc() takes the first free inode.
Ialloc(p) ==
  LET T_FILE == 2
      free == {i \in INums : disk[i].type = 0}
      i == CHOOSE j \in free : \A k \in free : j <= k
  IN /\ p \in Creators /\ pc[p] = "idle" /\ dlock = None
     /\ dlock' = p
     /\ IF free = {}
          THEN Goto(p, "full") /\ UNCHANGED <<disk, ip>>
          ELSE /\ disk' = [disk EXCEPT ![i] = [type |-> T_FILE, nlink |-> 0]]
               /\ ip' = [ip EXCEPT ![p] = i]
               /\ Goto(p, "iget")
     /\ UNCHANGED <<links, cache, refs>>

IallocIget(p) ==
  /\ pc[p] = "iget"
  /\ Iget(p, ip[p], "create")
  /\ UNCHANGED <<disk, links, dlock>>

\* ilock() on the way to what the process does with the inode.
Ilock(p) ==
  LET c == ip[p]
      d == disk[cache[c].inum]
      loaded == IF cache[c].valid THEN cache[c]
                ELSE [cache[c] EXCEPT !.valid = TRUE, !.type = d.type, !.nlink = d.nlink]
      what == [open |-> "opened", read |-> "opened", unlink |-> "unentry", create |-> "mklink"]
  IN /\ pc[p] \in DOMAIN what /\ cache[c].lock = None
     /\ cache' = [cache EXCEPT ![c] = [loaded EXCEPT !.lock = p]]
     /\ Goto(p, IF cache[c].ref < 1 \/ (~cache[c].valid /\ loaded.type = 0)
                  THEN "panic" ELSE what[pc[p]])
     /\ UNCHANGED <<disk, links, dlock, ip, refs>>

\* sys_open() and fileread() unlock the inode and keep it.
Iunlock(p) ==
  /\ pc[p] = "opened"
  /\ cache' = [cache EXCEPT ![ip[p]].lock = None]
  /\ Goto(p, "hold")
  /\ UNCHANGED <<disk, links, dlock, ip, refs>>

\* create(): ip->nlink = 1; iupdate(ip).
MkLink(p) ==
  /\ pc[p] = "mklink"
  /\ cache' = [cache EXCEPT ![ip[p]].nlink = 1]
  /\ disk' = Iupdate(ip[p])
  /\ Goto(p, "dirlink")
  /\ UNCHANGED <<links, dlock, ip, refs>>

Dirlink(p) ==
  /\ pc[p] = "dirlink"
  /\ links' = [links EXCEPT ![cache[ip[p]].inum] = @ + 1]
  /\ dlock' = None
  /\ Goto(p, "opened")
  /\ UNCHANGED <<disk, cache, ip, refs>>

\* sys_unlink(): the entry goes, then the link count.
Unentry(p) ==
  /\ pc[p] = "unentry"
  /\ IF cache[ip[p]].nlink < 1
       THEN Goto(p, "panic") /\ UNCHANGED <<links, dlock>>
       ELSE /\ links' = [links EXCEPT ![cache[ip[p]].inum] = @ - 1]
            /\ dlock' = None
            /\ Goto(p, "unlinked")
  /\ UNCHANGED <<disk, cache, ip, refs>>

DropLink(p) ==
  /\ pc[p] = "unlinked"
  /\ cache' = [cache EXCEPT ![ip[p]].nlink = @ - 1, ![ip[p]].lock = None]
  /\ disk' = Iupdate(ip[p])
  /\ Goto(p, "iput")
  /\ UNCHANGED <<links, dlock, ip, refs>>

\* A process that has a file open reads it, dups it or closes it.
Read(p) == pc[p] = "hold" /\ Goto(p, "read") /\ UNCHANGED <<disk, links, dlock, cache, ip, refs>>

Close(p) == pc[p] = "hold" /\ Goto(p, "iput") /\ UNCHANGED <<disk, links, dlock, cache, ip, refs>>

Idup(p) ==
  /\ pc[p] = "hold" /\ refs[p] < MaxRefs
  /\ cache' = [cache EXCEPT ![ip[p]].ref = @ + 1]
  /\ refs' = [refs EXCEPT ![p] = @ + 1]
  /\ UNCHANGED <<disk, links, dlock, pc, ip>>

-----------------------------------------------------------------------------
\* The end of iput().
Unref(p) ==
  /\ refs' = [refs EXCEPT ![p] = @ - 1]
  /\ Goto(p, IF refs[p] = 1 THEN "idle" ELSE "hold")
  /\ ip' = [ip EXCEPT ![p] = IF refs[p] = 1 THEN 0 ELSE @]

(* Mutant: iput() does not ask whether this is the last reference.         *)
LastAny(c) == cache[c].valid /\ cache[c].nlink = 0

(* Mutant: iput() does not ask whether the inode has links.                *)
LastLinked(c) == cache[c].ref = 1 /\ cache[c].valid

(* Mutant: iput() never frees.                                             *)
LastNever(c) == FALSE

\* iput()'s test that nobody can reach the inode any more.
Last(c) == cache[c].ref = 1 /\ cache[c].valid /\ cache[c].nlink = 0

Iput(p) ==
  /\ pc[p] = "iput"
  /\ IF Last(ip[p])
       THEN Goto(p, "trunc") /\ UNCHANGED <<cache, ip, refs>>
       ELSE cache' = [cache EXCEPT ![ip[p]].ref = @ - 1] /\ Unref(p)
  /\ UNCHANGED <<disk, links, dlock>>

\* icache.lock is free now: itrunc(), which ends in an iupdate(), then type 0
\* in memory, then on disk.
Trunc(p) ==
  /\ pc[p] = "trunc"
  /\ disk' = [disk EXCEPT ![cache[ip[p]].inum] =
                [type |-> cache[ip[p]].type, nlink |-> cache[ip[p]].nlink]]
  /\ cache' = [cache EXCEPT ![ip[p]].type = 0]
  /\ Goto(p, "free")
  /\ UNCHANGED <<links, dlock, ip, refs>>

Free(p) ==
  /\ pc[p] = "free"
  /\ UNCHANGED cache
  /\ disk' = Iupdate(ip[p])
  /\ Goto(p, "freed")
  /\ UNCHANGED <<links, dlock, ip, refs>>

Freed(p) ==
  /\ pc[p] = "freed"
  /\ cache' = [cache EXCEPT ![ip[p]].valid = FALSE, ![ip[p]].ref = @ - 1]
  /\ Unref(p)
  /\ UNCHANGED <<disk, links, dlock>>

Next == \E p \in Proc :
  \/ \E i \in INums : Lookup(p, i) \/ LookupUnlink(p, i)
  \/ Ialloc(p) \/ IallocIget(p) \/ Ilock(p) \/ Iunlock(p) \/ MkLink(p) \/ Dirlink(p)
  \/ Unentry(p) \/ DropLink(p) \/ Read(p) \/ Close(p) \/ Idup(p)
  \/ Iput(p) \/ Trunc(p) \/ Free(p) \/ Freed(p)

Spec == Init /\ [][Next]_vars

-----------------------------------------------------------------------------
HasRef(p, c) == ip[p] = c /\ refs[p] > 0

(* An inode is in one cache entry at most, and ref counts the pointers to  *)
(* the entry.                                                              *)
RefExact ==
  /\ \A c, d \in Slots : cache[c].ref > 0 /\ cache[d].ref > 0
                           /\ cache[c].inum = cache[d].inum => c = d
  /\ \A c \in Slots :
       cache[c].ref = MapThenSumSet(LAMBDA p : refs[p], {p \in Proc : HasRef(p, c)})

(* I_VALID means what it says: outside a critical section of the inode's   *)
(* lock the cached inode is the one on disk.                               *)
ValidIsDisk ==
  \A c \in Slots :
    cache[c].ref > 0 /\ cache[c].valid /\ cache[c].lock = None
      /\ (\A p \in Proc : HasRef(p, c) => pc[p] \notin {"free", "freed"})
    => disk[cache[c].inum] = [type |-> cache[c].type, nlink |-> cache[c].nlink]

(* An inode that a directory entry names is allocated, in the sense of the *)
(* comment on inodes in fs.c: its type on disk is not zero.                *)
NamedIsAllocated == \A i \in INums : links[i] > 0 => disk[i].type # 0

(* iput() frees an inode only when no entry names it and no other process  *)
(* refers to it.                                                           *)
FreesUnused ==
  [][\A i \in INums : disk[i].type # 0 /\ disk'[i].type = 0 =>
       /\ links[i] = 0
       /\ \A c \in Cached(i) : cache[c].ref = 1]_vars

(* With every call finished, the allocated inodes are the named ones and   *)
(* the link counts are the numbers of entries: nothing leaks.              *)
Settled ==
  (\A p \in Proc : pc[p] = "idle") =>
    \A i \in INums : disk[i].nlink = links[i] /\ (disk[i].type # 0) = (links[i] > 0)

(* No ilock: no type, no unlink: nlink < 1, no iget: no inodes.            *)
NoPanic == \A p \in Proc : pc[p] # "panic"
=============================================================================
