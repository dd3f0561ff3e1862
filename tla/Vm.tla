--------------------------------- MODULE Vm ---------------------------------
(***************************************************************************)
(* Physical pages (kalloc.c), page tables (vm.c) and the system calls that *)
(* build and take apart address spaces: sbrk, fork, exec, exit and wait.   *)
(* A page table is a record: the directory's page, the page-table pages of *)
(* the kernel part, those of the user part, and the user entries with the  *)
(* set of those that have PTE_U.  Every turn of a loop that allocates is a  *)
(* step, so memory may run out, or be freed by others, between any two.    *)
(***************************************************************************)
EXTENDS Naturals, Integers, FiniteSets, Sequences, FiniteSetsExt

CONSTANTS Proc, InitProc,
          NPAGE,        \* pages of physical memory
          PGSIZE, NPT, NPTE,   \* bytes in a page, user directory entries, entries per table
          NKPT,         \* page-table pages setupkvm() needs
          Progs,        \* programs: [segs, args], see ExecSeg
          Deltas,       \* the arguments of sbrk()
          ToZero,       \* whether sbrk() may be asked to release everything
          Calls         \* the system calls in the workload

VmAssumption ==
  InitProc \in Proc /\ {NPAGE, PGSIZE, NPT, NPTE, NKPT} \subseteq Nat \ {0}

Page == 1 .. NPAGE
Vpn == 0 .. NPT * NPTE - 1
KERNBASE == NPT * NPTE * PGSIZE

VARIABLES free,   \* [Page -> times the page is on kmem.freelist]
          mem,    \* [Page -> contents]
          proc,   \* [Proc -> [st, kstack, sz, vm]]
          task    \* [Proc -> the system call in progress]

vars == <<free, mem, proc, task>>

NoVm == [pgdir |-> 0, kpt |-> {}, pt |-> [d \in 0 .. NPT - 1 |-> 0],
         pte |-> [v \in Vpn |-> 0], user |-> {}]

NoProc == [st |-> "UNUSED", kstack |-> 0, sz |-> 0, vm |-> NoVm]

NoTask == [op |-> "none", at |-> "none", np |-> InitProc, vm |-> NoVm, sz |-> 0,
           a |-> 0, old |-> 0, new |-> 0, prog |-> 0, seg |-> 0]

\* PGROUNDUP(sz) / PGSIZE
Pages(sz) == (sz + PGSIZE - 1) \div PGSIZE

\* userinit(): a kernel stack, a page table and the page of initcode.
Init ==
  /\ free = [g \in Page |-> IF g <= NKPT + 4 THEN 0 ELSE 1]
  /\ mem = [g \in Page |-> IF g = NKPT + 4 THEN "text" ELSE "junk"]
  /\ proc = [p \in Proc |-> IF p # InitProc THEN NoProc ELSE
       [st |-> "RUN", kstack |-> 1, sz |-> PGSIZE,
        vm |-> [pgdir |-> 2, kpt |-> 3 .. NKPT + 2,
                pt |-> [NoVm.pt EXCEPT ![0] = NKPT + 3],
                pte |-> [NoVm.pte EXCEPT ![0] = NKPT + 4], user |-> {0}]]]
  /\ task = [p \in Proc |-> NoTask]

-----------------------------------------------------------------------------
\* kalloc(), n times over: which pages the free list yields does not matter.
FreePages == {g \in Page : free[g] > 0}

Kalloc(n) == {g \in FreePages : Cardinality({h \in FreePages : h <= g}) <= n}

Taken(S) == [g \in Page |-> IF g \in S THEN free[g] - 1 ELSE free[g]]

\* kfree() of every page of S.
Kfree(S) == [g \in Page |-> IF g \in S THEN free[g] + 1 ELSE free[g]]

Junked(S) == [g \in Page |-> IF g \in S THEN "junk" ELSE mem[g]]

Mapped(vm, V) == {vm.pte[v] : v \in V} \ {0}

Between(new, old) == {v \in Vpn : Pages(new) <= v /\ v < Pages(old)}

(* Mutant: deallocuvm() leaves the entries of the pages it frees.          *)
UnmapKeep(vm, V) == vm

Unmap(vm, V) == [vm EXCEPT !.pte = [v \in Vpn |-> IF v \in V THEN 0 ELSE vm.pte[v]],
                           !.user = @ \ V]

\* freevm(): the user pages, every page-table page, the directory.
VmPages(vm) ==
  ({vm.pgdir} \union vm.kpt \union {vm.pt[d] : d \in 0 .. NPT - 1} \union Mapped(vm, Vpn)) \ {0}

Idle(p) == proc[p].st = "RUN" /\ task[p].op = "none"

\* The page table the task works on: sbrk() works on the process's own.
Vm(p) == IF task[p].op = "sbrk" THEN proc[p].vm ELSE task[p].vm

\* The next page of the task's loop is mapped.
Mapping(p, vm) ==
  /\ proc' = IF task[p].op = "sbrk" THEN [proc EXCEPT ![p].vm = vm] ELSE proc
  /\ task' = [task EXCEPT ![p].a = @ + 1,
                          ![p].vm = IF task[p].op = "sbrk" THEN @ ELSE vm]

\* fork() gives up: the child's kernel stack and its slot.
Abandon(p) ==
  IF task[p].op = "fork" THEN [proc EXCEPT ![task[p].np] = NoProc] ELSE proc

ForkStack(p) == IF task[p].op = "fork" THEN {proc[task[p].np].kstack} \ {0} ELSE {}

(* Mutant: fork() and exec() do not free what they have built.             *)
BadKeep(p) ==
  /\ task' = [task EXCEPT ![p] = NoTask]
  /\ proc' = Abandon(p)
  /\ free' = Kfree(ForkStack(p))
  /\ mem' = Junked(ForkStack(p))

\* `bad:' of copyuvm() and exec(): freevm() of the new page table.
Bad(p) ==
  LET S == VmPages(task[p].vm) \union ForkStack(p) IN
  /\ task' = [task EXCEPT ![p] = NoTask]
  /\ proc' = Abandon(p)
  /\ free' = Kfree(S)
  /\ mem' = Junked(S)

-----------------------------------------------------------------------------
\* A user program stores to a page it may touch.
Store(p, v) ==
  /\ Idle(p) /\ v \in proc[p].vm.user /\ proc[p].vm.pte[v] # 0
  /\ mem' = [mem EXCEPT ![proc[p].vm.pte[v]] = "user"]
  /\ UNCHANGED <<free, proc, task>>

\* sys_sbrk() and growproc() with n > 0: allocuvm() starts.
SbrkGrow(p, n) ==
  LET sz == proc[p].sz IN
  /\ Idle(p) /\ n > 0 /\ sz + n < KERNBASE
  /\ task' = [task EXCEPT ![p] = [NoTask EXCEPT !.op = "sbrk", !.at = "alloc",
                !.a = Pages(sz), !.old = sz, !.new = sz + n]]
  /\ UNCHANGED <<free, mem, proc>>

\* n < 0: deallocuvm(), whose result 0 growproc() takes for a failure.  A size
\* below zero wraps around and is larger than the old one: nothing happens.
SbrkShrink(p, n) ==
  LET sz == proc[p].sz
      gone == Between(sz + n, sz)
      S == Mapped(proc[p].vm, gone)
  IN /\ Idle(p) /\ n < 0 /\ sz + n >= 0 /\ (sz + n = 0 => ToZero)
     /\ free' = Kfree(S) /\ mem' = Junked(S)
     /\ proc' = [proc EXCEPT ![p].vm = Unmap(@, gone),
                             ![p].sz = IF sz + n = 0 THEN sz ELSE sz + n]
     /\ UNCHANGED task

\* walkpgdir() with alloc set: the page table of entry v is there.
HasTable(vm, v) == vm.pt[v \div NPTE] # 0

\* The kalloc() calls that mapping a new page at v takes.
Needs(vm, v) == IF HasTable(vm, v) THEN 1 ELSE 2

\* mappages() of page g at v, with table page t if there is none yet.
MapOne(vm, v, g, u, t) ==
  [vm EXCEPT !.pte[v] = g, !.user = IF u THEN @ \union {v} ELSE @,
             !.pt[v \div NPTE] = IF HasTable(vm, v) THEN @ ELSE t]

(* Mutant: allocuvm() does not undo its work when memory runs out.         *)
AllocFailsKeep(p) ==
  /\ task' = [task EXCEPT ![p] = NoTask]
  /\ UNCHANGED <<free, mem, proc>>

\* allocuvm() fails: deallocuvm(pgdir, newsz, oldsz), then its caller gives up.
\* A page that was taken but could not be mapped goes back to the list.
AllocFails(p) ==
  LET gone == Between(task[p].old, task[p].new)
      S == Mapped(Vm(p), gone)
  IN IF task[p].op = "sbrk"
       THEN /\ free' = Kfree(S) /\ mem' = Junked(S)
            /\ proc' = [proc EXCEPT ![p].vm = Unmap(@, gone)]
            /\ task' = [task EXCEPT ![p] = NoTask]
       ELSE Bad(p)

\* One turn of the loop of allocuvm().
AllocPage(p) ==
  LET t == task[p]
      S == Kalloc(Needs(Vm(p), t.a))
  IN /\ t.at = "alloc" /\ t.a < Pages(t.new)
     /\ IF Cardinality(S) < Needs(Vm(p), t.a)
          THEN AllocFails(p)
          ELSE /\ free' = Taken(S)
               /\ mem' = [mem EXCEPT ![Min(S)] = "zero"]
               /\ Mapping(p, MapOne(Vm(p), t.a, Min(S), TRUE, Max(S)))

\* allocuvm() is done: growproc() stores the size, exec() goes on.
AllocDone(p) ==
  LET t == task[p] IN
  /\ t.at = "alloc" /\ t.a >= Pages(t.new)
  /\ IF t.op = "sbrk"
       THEN /\ proc' = [proc EXCEPT ![p].sz = t.new]
            /\ task' = [task EXCEPT ![p] = NoTask]
       ELSE /\ task' = [task EXCEPT ![p].sz = t.new,
                 ![p].at = IF t.seg <= Len(t.prog.segs) THEN "load" ELSE "finish"]
            /\ proc' = proc
  /\ UNCHANGED <<free, mem>>

-----------------------------------------------------------------------------
\* setupkvm() with the pages in S: NKPT + 1 of them make a page table.
KernelVm(S) == [NoVm EXCEPT !.pgdir = Min(S), !.kpt = S \ {Min(S)}]

\* fork(): allocproc() takes a kernel stack, copyuvm() calls setupkvm().  When
\* setupkvm() fails, what it has taken is not given back.
Fork(p, np) ==
  LET k == Kalloc(1)
      S == Kalloc(NKPT + 2) \ k
  IN /\ Idle(p) /\ proc[np].st = "UNUSED" /\ k # {}
     /\ IF Cardinality(S) <= NKPT
          THEN free' = Taken(S) /\ UNCHANGED <<proc, task>>
          ELSE /\ free' = Taken(S \union k)
               /\ proc' = [proc EXCEPT ![np] = [NoProc EXCEPT !.st = "EMBRYO", !.kstack = Min(k)]]
               /\ task' = [task EXCEPT ![p] = [NoTask EXCEPT !.op = "fork", !.at = "copy",
                              !.np = np, !.vm = KernelVm(S)]]
     /\ mem' = Junked(IF Cardinality(S) <= NKPT THEN k ELSE {})

\* flags = PTE_FLAGS( *pte )
CopiedFlag(p, v) == v \in proc[p].vm.user

\* One turn of the loop of copyuvm(): when the page table cannot be had, the
\* page taken for the copy is not freed.
CopyPage(p) ==
  LET t == task[p]
      S == Kalloc(Needs(t.vm, t.a))
      from == proc[p].vm.pte[t.a]
  IN /\ t.at = "copy" /\ t.a < Pages(proc[p].sz) /\ from # 0
     /\ IF Cardinality(S) < Needs(t.vm, t.a)
          THEN LET back == VmPages(t.vm) \union ForkStack(p) IN
               /\ free' = [g \in Page |-> Kfree(back)[g] - (IF g \in S THEN 1 ELSE 0)]
               /\ mem' = Junked(back)
               /\ task' = [task EXCEPT ![p] = NoTask]
               /\ proc' = Abandon(p)
          ELSE /\ free' = Taken(S)
               /\ mem' = [mem EXCEPT ![Min(S)] = mem[from]]
               /\ Mapping(p, MapOne(t.vm, t.a, Min(S), CopiedFlag(p, t.a), Max(S)))

\* The rest of fork(): the child becomes RUNNABLE.
ForkDone(p) ==
  LET t == task[p] IN
  /\ t.at = "copy" /\ t.a >= Pages(proc[p].sz)
  /\ proc' = [proc EXCEPT ![t.np].st = "RUN", ![t.np].vm = t.vm, ![t.np].sz = proc[p].sz]
  /\ task' = [task EXCEPT ![p] = NoTask]
  /\ UNCHANGED <<free, mem>>

-----------------------------------------------------------------------------
\* exec() up to setupkvm().  A program has loadable segments, each with vaddr,
\* memsz, filesz and whether readi() finds all of it (ok), and args, the bytes
\* of the argument strings and pointers.
Exec(p, prog) ==
  LET S == Kalloc(NKPT + 1) IN
  /\ Idle(p)
  /\ free' = Taken(S)
  /\ task' = IF Cardinality(S) <= NKPT THEN task
             ELSE [task EXCEPT ![p] = [NoTask EXCEPT !.op = "exec", !.at = "seg",
                      !.vm = KernelVm(S), !.prog = prog, !.seg = 1]]
  /\ UNCHANGED <<mem, proc>>

\* The next program header, or the two pages of the stack after the last one.
ExecSeg(p) ==
  LET t == task[p]
      s == t.prog.segs[t.seg]
      last == t.seg > Len(t.prog.segs)
      old == IF last THEN Pages(t.sz) * PGSIZE ELSE t.sz
      new == IF last THEN old + 2 * PGSIZE ELSE s.vaddr + s.memsz
  IN /\ t.at = "seg"
     /\ IF (~last /\ s.memsz < s.filesz) \/ new >= KERNBASE \/ (new = 0 /\ old = 0)
          THEN Bad(p)
          ELSE /\ task' = [task EXCEPT ![p].at = "alloc", ![p].a = Pages(old), ![p].old = old,
                                       ![p].new = IF new < old THEN old ELSE new]
               /\ UNCHANGED <<free, mem, proc>>

(* Mutant: the whole segment is filled from the file.                      *)
TextAll(s) == {v \in Vpn : s.vaddr <= v * PGSIZE /\ v * PGSIZE < s.vaddr + s.memsz}

\* The pages loaduvm() reads: the last may be filled in part.
Text(s) == {v \in Vpn : s.vaddr <= v * PGSIZE /\ v * PGSIZE < s.vaddr + s.filesz}

\* The checks on a segment after allocuvm(), and loaduvm().
ExecLoad(p) ==
  LET t == task[p]
      s == t.prog.segs[t.seg]
  IN /\ t.at = "load"
     /\ IF s.vaddr % PGSIZE # 0 \/ ~s.ok
          THEN Bad(p)
          ELSE /\ mem' = [g \in Page |-> IF g \in Mapped(t.vm, Text(s)) THEN "text" ELSE mem[g]]
               /\ task' = [task EXCEPT ![p].at = "seg", ![p].seg = @ + 1]
               /\ UNCHANGED <<free, proc>>

\* copyout() fails when the arguments reach into the page below the stack,
\* which clearpteu() has closed to user code.
FitsStack(prog) == prog.args <= PGSIZE

\* The arguments, the commitment to the new image and freevm() of the old one.
ExecFinish(p) ==
  LET t == task[p]
      top == Pages(t.sz)
      old == VmPages(proc[p].vm)
  IN /\ t.at = "finish"
     /\ IF ~FitsStack(t.prog)
          THEN Bad(p)
          ELSE /\ proc' = [proc EXCEPT ![p].vm = [t.vm EXCEPT !.user = @ \ {top - 2}],
                                       ![p].sz = t.sz]
               /\ free' = Kfree(old)
               /\ mem' = [Junked(old) EXCEPT ![t.vm.pte[top - 1]] = "user"]
               /\ task' = [task EXCEPT ![p] = NoTask]

-----------------------------------------------------------------------------
Exit(p) ==
  /\ Idle(p) /\ p # InitProc
  /\ proc' = [proc EXCEPT ![p].st = "ZOMBIE"]
  /\ UNCHANGED <<free, mem, task>>

\* wait() by the parent frees the kernel stack and the page table.
Wait(p) ==
  LET S == VmPages(proc[p].vm) \union {proc[p].kstack} IN
  /\ proc[p].st = "ZOMBIE"
  /\ free' = Kfree(S) /\ mem' = Junked(S)
  /\ proc' = [proc EXCEPT ![p] = NoProc]
  /\ UNCHANGED task

Call(p) ==
  \/ \E v \in Vpn : Store(p, v)
  \/ "sbrk" \in Calls /\ \E n \in Deltas : SbrkGrow(p, n) \/ SbrkShrink(p, n)
  \/ "fork" \in Calls /\ \E np \in Proc : Fork(p, np)
  \/ "exec" \in Calls /\ \E prog \in Progs : Exec(p, prog)
  \/ Exit(p) \/ Wait(p)

Step(p) ==
  \/ AllocPage(p) \/ AllocDone(p) \/ CopyPage(p) \/ ForkDone(p)
  \/ ExecSeg(p) \/ ExecLoad(p) \/ ExecFinish(p)

Next == \E p \in Proc : Call(p) \/ Step(p)

Spec == Init /\ [][Next]_vars

-----------------------------------------------------------------------------
VmUses(vm, g) ==
  Cardinality({v \in Vpn : vm.pte[v] = g}) + Cardinality({d \in 0 .. NPT - 1 : vm.pt[d] = g})
  + (IF g \in vm.kpt THEN 1 ELSE 0) + (IF vm.pgdir = g THEN 1 ELSE 0)

Uses(g) ==
  free[g] + Cardinality({p \in Proc : proc[p].kstack = g})
  + MapThenSumSet(LAMBDA p : VmUses(proc[p].vm, g) + VmUses(task[p].vm, g), Proc)

(* A page of memory is never in two places: on the free list twice, in two *)
(* page tables, twice in one, or free and in use.                          *)
NoPageTwice == \A g \in Page : Uses(g) <= 1

(* Every page is free or in use: a call that fails gives back all it took. *)
NoPageLost == \A g \in Page : Uses(g) >= 1

(* The entries below the size of a process that runs user code are all     *)
(* present, and the others are not: copyuvm() and loaduvm() find the pages *)
(* they insist on, mappages() finds no entry in its way.                   *)
SizeBacked ==
  \A p \in Proc :
    Idle(p) => \A v \in Vpn : proc[p].vm.pte[v] # 0 <=> v < Pages(proc[p].sz)

\* The image exec() makes of a program: segments, closed page, stack.
Loaded(prog) ==
  LET ends == {prog.segs[k].vaddr + prog.segs[k].memsz : k \in DOMAIN prog.segs}
      n == Pages(Max(ends \union {0}))
      text(v) == \E k \in DOMAIN prog.segs :
        LET s == prog.segs[k]
        IN s.vaddr <= v * PGSIZE /\ v * PGSIZE < s.vaddr + s.filesz
  IN [i \in 1 .. n + 2 |->
       IF i > n THEN [data |-> IF i = n + 1 THEN "zero" ELSE "user", user |-> i = n + 2]
       ELSE [data |-> IF text(i - 1) THEN "text" ELSE "zero", user |-> TRUE]]

\* The programs exec() accepts when there is memory for them.
Loadable(prog) ==
  /\ prog.args <= PGSIZE
  /\ \A k \in DOMAIN prog.segs :
       LET s == prog.segs[k] IN s.ok /\ s.filesz <= s.memsz /\ s.vaddr % PGSIZE = 0

Image(p) ==
  IF proc[p].st # "RUN" THEN <<>>
  ELSE [i \in 1 .. Pages(proc[p].sz) |->
         [data |-> mem[proc[p].vm.pte[i - 1]], user |-> (i - 1) \in proc[p].vm.user]]

Abs == INSTANCE VmAbs WITH
  Proc <- Proc, InitProc <- InitProc, MaxPages <- NPT * NPTE, Zero <- "zero", User <- "user",
  InitImage <- <<[data |-> "text", user |-> TRUE]>>, Loaded <- Loaded,
  Progs <- {prog \in Progs : Loadable(prog)},
  image <- [p \in Proc |-> Image(p)]

(* Every process has an image of its own: sbrk() adds zeroed pages or cuts *)
(* the image, fork() copies it with its protection, exec() replaces it all *)
(* at once or not at all, and nothing another process does shows in it.    *)
ImplementsImages == Abs!Spec
=============================================================================
