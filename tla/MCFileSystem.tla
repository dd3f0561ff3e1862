---------------------------- MODULE MCFileSystem ----------------------------
(***************************************************************************)
(* The layers of the file system side by side: sleep locks, the directory  *)
(* tree, the inode cache, the contents of files and the size of a          *)
(* transaction.  As in MCServices, `moves' is the scene that takes steps   *)
(* in a behaviour.                                                         *)
(* Scenes of one component differ in who calls what, and share variables.  *)
(***************************************************************************)
EXTENDS Sleeplock, Sequences

CONSTANT None

VARIABLES
  moves,
  ino, ilocks, st, cwd, open,
  disk, links, dlock, cache, inodePc, ip, refs,
  fs, file, wr, twoFs, twoFile, twoWr,
  size, off, left, logged

treeVars == <<ino, ilocks, st, cwd, open>>
inodeVars == <<disk, links, dlock, cache, inodePc, ip, refs>>
dataVars == <<fs, file, wr>>
twoVars == <<twoFs, twoFile, twoWr>>
sizeVars == <<size, off, left, logged>>

-----------------------------------------------------------------------------
FsCall(o, w) == [op |-> o, path |-> w]
OpenCall(w, how) == [op |-> "open", path |-> w, write |-> how]
LinkCall(w, v) == [op |-> "link", path |-> w, new |-> v]

\* Files come and go in the root and in a directory that stays.
TF == INSTANCE FsTree WITH Proc <- {1, 2}, INums <- 1 .. 6, lock <- ilocks, Calls <-
  {FsCall("mkdir", <<"/", "d">>), FsCall("creat", <<"/", "d", "x">>),
   LinkCall(<<"d", "x">>, <<"y">>),
   FsCall("unlink", <<"d", "x">>)}

\* Directories come and go; nothing is made in them.
TD == INSTANCE FsTree WITH Proc <- {1, 2}, INums <- 1 .. 6, lock <- ilocks, Calls <-
  {FsCall("mkdir", <<"/", "d">>), FsCall("unlink", <<"/", "d">>),
   FsCall("chdir", <<"d">>), FsCall("chdir", <<"..">>), FsCall("unlink", <<"d", "..">>),
   FsCall("unlink", <<".">>)}

\* Opening what is there, or is not, or is of another type.
TO == INSTANCE FsTree WITH Proc <- {1, 2}, INums <- 1 .. 6, lock <- ilocks, Calls <-
  {OpenCall(<<"/", "y">>, TRUE), OpenCall(<<"d", "..">>, FALSE),
   FsCall("creat", <<"y">>), FsCall("mkdir", <<"d">>), FsCall("unlink", <<"y">>)}

\* Calls that meet the wrong type, for one process.
TW == INSTANCE FsTree WITH Proc <- {1, 2}, INums <- 1 .. 6, lock <- ilocks, Calls <-
  {OpenCall(<<"d">>, TRUE), FsCall("mknod", <<"y">>), FsCall("creat", <<"y">>), FsCall("creat", <<"d">>),
   FsCall("mkdir", <<"d">>), FsCall("chdir", <<"y">>), LinkCall(<<"d">>, <<"x">>),
   FsCall("unlink", <<"y">>)}

\* A deeper tree, for one process.
TT == INSTANCE FsTree WITH Proc <- {1, 2}, INums <- 1 .. 6, lock <- ilocks, Calls <-
  {FsCall("mkdir", <<"d">>), FsCall("mkdir", <<"d", "e">>), FsCall("mkdir", <<"d", "e", "d">>),
   FsCall("creat", <<"d", "e", "x">>), LinkCall(<<"d", "e", "x">>, <<"d", "x">>),
   LinkCall(<<"d", "x">>, <<"d", "x", "e">>), FsCall("mkdir", <<>>),
   FsCall("unlink", <<"d">>), FsCall("unlink", <<"d", "e">>), FsCall("unlink", <<"d", "e", "d">>),
   FsCall("unlink", <<"d", "e", "x">>), FsCall("unlink", <<"d", "x">>)}

\* Three processes open, read, dup, close and unlink a file and a device.
IU == INSTANCE Inode WITH Proc <- 1 .. 3, Creators <- {}, Unlinkers <- 1 .. 3,
  INums <- {1, 2}, NINODE <- 3, MaxRefs <- 2, Types0 <- <<2, 3>>, pc <- inodePc

\* Three processes create files, with two free inodes.
IC == INSTANCE Inode WITH Proc <- 1 .. 3, Creators <- 1 .. 3, Unlinkers <- {},
  INums <- {1, 2}, NINODE <- 3, MaxRefs <- 2, Types0 <- <<0, 0>>, pc <- inodePc

\* Files of at most three blocks of two bytes, one of them direct; a root
\* directory and a file of one byte, written and read by two processes.
D == INSTANCE FileData WITH
  BSIZE <- 2, NDIRECT <- 1, NINDIRECT <- 2, BPB <- 4, WORD <- 16, NMETA <- 3, FSSIZE <- 10,
  PIECE <- 2, Files0 <- <<<<1, 1, 1>>, <<2>>>>, File <- {1}, Proc <- {1, 2}, Byte <- {1, 2},
  Writes <- {3}, Reads <- {3, 14}

\* The same with two files, which compete for the free blocks.
E == INSTANCE FileData WITH
  BSIZE <- 2, NDIRECT <- 1, NINDIRECT <- 2, BPB <- 4, WORD <- 16, NMETA <- 2, FSSIZE <- 12,
  PIECE <- 2, Files0 <- <<<<1>>, <<1>>, <<1>>>>, File <- {1}, Proc <- {1}, Byte <- {1},
  Writes <- {3}, Reads <- {}, fs <- twoFs, file <- twoFile, wr <- twoWr

\* The constants of param.h and fs.h.
S == INSTANCE OpSize WITH
  LOGSIZE <- 30, MAXOPBLOCKS <- 10, BSIZE <- 512, NDIRECT <- 12, NINDIRECT <- 128,
  Sizes0 <- {0, 100, 6000, 71680}, Lengths <- {300, 6656, 20000}

ASSUME
  /\ TF!TreeAssumption /\ IU!InodeAssumption /\ IC!InodeAssumption
  /\ D!FileDataAssumption /\ E!FileDataAssumption /\ S!OpSizeAssumption

-----------------------------------------------------------------------------
FileInit ==
  /\ moves \in {"locks", "files", "dirs", "open", "types", "tree", "unlink", "create", "data", "two", "size"}
  /\ Init /\ (moves # "locks" => lk = [p \in Proc |-> 1])
  /\ TF!Init
  /\ IF moves = "create" THEN IC!Init ELSE IU!Init
  /\ D!Init /\ E!Init
  /\ S!Init /\ (moves # "size" => size = 0)

FileNext ==
  /\ UNCHANGED moves
  /\ \/ moves = "locks" /\ Next /\ UNCHANGED <<treeVars, inodeVars, dataVars, twoVars, sizeVars>>
     \/ /\ \/ moves = "files" /\ TF!Next
           \/ moves = "dirs" /\ TD!Next
           \/ moves = "open" /\ TO!Next
           \/ moves = "types" /\ TW!Next /\ st'[2] = st[2]
           \/ moves = "tree" /\ TT!Next /\ st'[2] = st[2]
        /\ UNCHANGED <<vars, inodeVars, dataVars, twoVars, sizeVars>>
     \/ /\ \/ moves = "unlink" /\ IU!Next
           \/ moves = "create" /\ IC!Next
        /\ UNCHANGED <<vars, treeVars, dataVars, twoVars, sizeVars>>
     \/ moves = "data" /\ D!Next /\ UNCHANGED <<vars, treeVars, inodeVars, twoVars, sizeVars>>
     \/ moves = "two" /\ E!Next /\ UNCHANGED <<vars, treeVars, inodeVars, dataVars, sizeVars>>
     \/ moves = "size" /\ S!Next /\ UNCHANGED <<vars, treeVars, inodeVars, dataVars, twoVars>>

FileSpec ==
  FileInit /\ [][FileNext]_<<moves, vars, treeVars, inodeVars, dataVars, twoVars, sizeVars>>

-----------------------------------------------------------------------------
(* The tree is consistent: between calls a link count is the number of     *)
(* entries that name the inode; whatever is named, open or stood in is     *)
(* allocated; reference counts are exact on every error path; a name is    *)
(* once in a directory; unlink() and namex() wait for locks in no cycle;   *)
(* and no call of sysfile.c panics.                                        *)
TreeConsistent ==
  moves \in {"files", "dirs", "open", "types", "tree"} =>
    /\ TF!LinksExact /\ TF!NoDangling /\ TF!RefsExact
    /\ TF!NamesUnique /\ TF!NoLockCycle /\ TF!NoPanic

(* The inode cache is exact: an inode is in one entry whose ref counts the *)
(* pointers to it, a valid entry is the inode on disk, a named inode is    *)
(* allocated, with every call finished an allocated one is named, and no   *)
(* call panics.                                                            *)
InodesExact ==
  moves \in {"unlink", "create"} =>
    IU!RefExact /\ IU!ValidIsDisk /\ IU!NamedIsAllocated /\ IU!Settled /\ IU!NoPanic

(* iput() frees an inode only when nothing names it and nobody else refers *)
(* to it.                                                                  *)
FreesUnused == IU!FreesUnused

(* The free map is exact, each block in use belonging to one place, and    *)
(* readi() returns the bytes of the file, and -1 beyond its end.           *)
FilesExact ==
  /\ moves = "data" => D!MapExact /\ D!ReadsContent
  /\ moves = "two" => E!MapExact

(* Files behave as sequences of bytes, whatever blocks hold them.          *)
ImplementsFiles == D!ImplementsFiles

(* A piece of filewrite() fits a log that it has to itself.                *)
FitsLog == S!FitsLog
=============================================================================
