-------------------------------- MODULE Memory --------------------------------
(***************************************************************************)
(* The memory of the processes of xv6: pages (kernel/kalloc.c), page       *)
(* tables (kernel/vm.c), and the calls that build, change and free them:   *)
(* fork, exec, sbrk, a fault on a page that was not allocated yet, exit    *)
(* and wait.  Memory may run out at any kalloc.                            *)
(*                                                                         *)
(* Grain: one action per kalloc; the kfrees of one call are one action.    *)
(***************************************************************************)
EXTENDS Integers, Sequences, FiniteSets

CONSTANTS
    NProc,       \* slots of the process table
    PageSize,    \* PGSIZE
    UserPages,   \* virtual pages below TRAPFRAME
    Nodes, Path, \* page-table pages below the root; those that walk passes, by virtual page
    MaxPages,    \* the largest physical memory of the workloads
    Values, Zero, Junk, Text, Arg,   \* contents of a page
    Workloads    \* [pages: physical pages, calls: of fork, exec and sbrk together, does: which
                 \* of fork and exec, grow, shrink: arguments of sbrk, stores: what is
                 \* written, image: the segments of the program, args: its arguments]

Slots == 0..(NProc - 1)
TRAPFRAME == UserPages
TRAMPOLINE == UserPages + 1
VirtualPages == 0..TRAMPOLINE
MaxSize == UserPages * PageSize

\* PGROUNDUP(n) / PGSIZE.
PagesIn(n) == (n + PageSize - 1) \div PageSize

\* A segment: its first page, its end in bytes, the pages that the file fills, its flags.
Segments == [first : Nat, end : Nat, file : Nat, write : BOOLEAN]

\* A segment has bytes of its own and room for what is read into it; the ends ascend, and
\* the stack fits above them.
Fits(image) ==
    \A i \in DOMAIN image :
        /\ image[i].end > image[i].first * PageSize
        /\ (image[i].first + image[i].file - 1) * PageSize < image[i].end
        /\ PagesIn(image[i].end) + 2 <= UserPages
        /\ \A j \in 1..i : image[j].end <= image[i].end

ASSUME MemoryAssumption ==
    /\ NProc \in Nat \ {0} /\ PageSize \in Nat \ {0} /\ UserPages \in Nat \ {0, 1}
    /\ MaxPages \in Nat
    /\ {Zero, Text, Arg} \subseteq Values /\ Junk \notin Values
    /\ Path \in [VirtualPages -> Seq(Nodes)]
    /\ Path[TRAPFRAME] = Path[TRAMPOLINE]   \* neighbours, in one page-table page
    /\ \A i, j \in DOMAIN Path[TRAMPOLINE] : Path[TRAMPOLINE][i] = Path[TRAMPOLINE][j] => i = j
    /\ Workloads \subseteq [pages : 1..MaxPages, calls : Nat, does : SUBSET {"fork", "exec"},
                            grow : SUBSET (Nat \ {0}), shrink : SUBSET (Nat \ {0}),
                            stores : SUBSET Values, image : Seq(Segments), args : Nat]
    \* The machine has memory for the first process.
    /\ \A w \in Workloads : w.pages >= 2 + Len(Path[TRAMPOLINE]) /\ Fits(w.image)

NoPage == 0
Kernel == -1       \* the page of the kernel with the trampoline
NoSlot == -1
Pages == 1..MaxPages

VARIABLES
    load,         \* the workload, with the calls that are left
    free,         \* kmem.freelist
    data,         \* contents of the pages
    state, sz,    \* struct proc
    trapframe,    \* p->trapframe
    table,        \* p->pagetable ("own"), and one in a local variable ("new")
    pc, job,      \* a process in a call: next step, and where it is
    np,           \* the child that kfork has in hand
    mem,          \* the page between kalloc and mappages
    argv,         \* the pages of sys_exec's arguments
    panic         \* mappages or freewalk has called panic

kmem == <<free, data>>
procs == <<state, sz, trapframe, table>>
calls == <<pc, job, np, mem, argv>>
vars == <<load, kmem, procs, calls, panic>>

NoPte == [page |-> NoPage, user |-> FALSE, write |-> FALSE]
NoTable == [root |-> NoPage, node |-> [n \in Nodes |-> NoPage],
            pte |-> [a \in VirtualPages |-> NoPte]]
\* kind: of the loop; on: the page table; va: the virtual page; seg: the segment;
\* sz, new: the size of the memory before and after.
NoJob == [kind |-> "none", on |-> <<0, "own">>, va |-> 0, seg |-> 0, sz |-> 0, new |-> 0]

TypeOK ==
    /\ free \subseteq Pages
    /\ data \in [Pages -> Values \cup {Junk}]
    /\ state \in [Slots -> {"UNUSED", "USED", "RUNNABLE", "ZOMBIE"}]
    /\ sz \in [Slots -> 0..MaxSize]
    /\ trapframe \in [Slots -> Pages \cup {NoPage}]
    /\ DOMAIN table = Slots \X {"own", "new"}
    /\ \A t \in DOMAIN table :
          /\ table[t].root \in Pages \cup {NoPage}
          /\ table[t].node \in [Nodes -> Pages \cup {NoPage}]
          /\ \A a \in VirtualPages : table[t].pte[a].page \in Pages \cup {NoPage, Kernel}
    /\ pc \in [Slots -> {"user", "argv", "root", "page", "map", "done"}]
    /\ np \in [Slots -> Slots \cup {NoSlot}]
    /\ mem \in [Slots -> Pages \cup {NoPage}]
    /\ argv \in [Slots -> SUBSET Pages]
    /\ panic \in BOOLEAN

-----------------------------------------------------------------------------
(* Pages and page tables.                                                  *)

\* kalloc.  Pages are alike: the list gives the one with the least number.
Kalloc(pg) ==
    /\ pg \in free /\ \A r \in free : pg <= r
    /\ free' = free \ {pg}

\* kfree of every page of a set.
Kfree(S) ==
    /\ free' = free \cup S
    /\ data' = [pg \in Pages |-> IF pg \in S THEN Junk ELSE data[pg]]

Mapped(T, a) == T.pte[a] # NoPte

\* uvmunmap of the virtual pages from..to-1, and the pages that it frees.
Unmap(T, from, to) ==
    [T EXCEPT !.pte = [a \in VirtualPages |-> IF a \in from..(to - 1) THEN NoPte ELSE @[a]]]
PagesOf(T, from, to) == {T.pte[a].page : a \in {b \in from..(to - 1) : Mapped(T, b)}}

\* freewalk.
TablePages(T) == ({T.root} \cup {T.node[n] : n \in Nodes}) \ {NoPage}

\* proc_freepagetable(T, size): what it frees, and whether freewalk finds a leaf.
AllPages(T, size) == TablePages(T) \cup PagesOf(T, 0, PagesIn(size))
LeafRemains(T, size) == \E a \in 0..(UserPages - 1) : a >= PagesIn(size) /\ Mapped(T, a)

\* The page-table pages that walk has to allocate for the page in hand.
Missing(p) ==
    LET path == Path[job[p].va] IN
    {i \in DOMAIN path : table[job[p].on].node[path[i]] = NoPage}

\* kalloc fails, in uvmalloc, uvmcopy or vmfault or in the walk of mappages.
OutOfMemory(p) ==
    /\ free = {}
    /\ pc[p] = "page" \/ (pc[p] = "map" /\ Missing(p) # {})
InHand(p) == {mem[p]} \ {NoPage}

Running(p) == state[p] = "RUNNABLE" /\ pc[p] = "user"

\* The call returns.
Return(p) ==
    /\ pc' = [pc EXCEPT ![p] = "user"]
    /\ job' = [job EXCEPT ![p] = NoJob]
    /\ mem' = [mem EXCEPT ![p] = NoPage]

\* A loop over virtual pages goes on with j, or is over.
Continue(p, j) ==
    /\ job' = [job EXCEPT ![p] = j]
    /\ pc' = [pc EXCEPT ![p] = IF j.va < PagesIn(j.new) THEN "page" ELSE "done"]

\* uvmalloc(T, old, new).
Uvmalloc(p, kind, T, seg, old, new) ==
    Continue(p, [kind |-> kind, on |-> T, va |-> PagesIn(old), seg |-> seg, sz |-> old,
                 new |-> IF new < old THEN old ELSE new])

Counted ==
    /\ load.calls > 0
    /\ load' = [load EXCEPT !.calls = @ - 1]
-----------------------------------------------------------------------------
(* The loops of uvmalloc, uvmcopy and vmfault: kalloc, then mappages.      *)

\* uvmcopy passes over what the parent has not touched yet.
NextMapped(p, a) ==
    CHOOSE b \in a..PagesIn(sz[p]) :
        /\ b < PagesIn(sz[p]) => Mapped(table[<<p, "own">>], b)
        /\ \A c \in a..(b - 1) : ~Mapped(table[<<p, "own">>], c)

NextPage(p) ==
    IF job[p].kind = "copy" THEN NextMapped(p, job[p].va + 1) ELSE job[p].va + 1

\* The page of the parent that uvmcopy copies.
Original(p) == table[<<p, "own">>].pte[job[p].va]

\* Mutant: vmfault and uvmalloc do not clear the page.
ContentJunk(p) == IF job[p].kind = "copy" THEN data[Original(p).page] ELSE Junk

\* memmove, or memset after the junk of kalloc.
Content(p) == IF job[p].kind = "copy" THEN data[Original(p).page] ELSE Zero

GetPage(p) ==
    /\ pc[p] = "page"
    /\ \E pg \in free :
          /\ Kalloc(pg)
          /\ data' = [data EXCEPT ![pg] = Content(p)]
          /\ mem' = [mem EXCEPT ![p] = pg]
    /\ pc' = [pc EXCEPT ![p] = "map"]
    /\ UNCHANGED <<load, procs, job, np, argv, panic>>

\* walk: one level of the page table.
MapNode(p) ==
    /\ pc[p] = "map"
    /\ \E pg \in free, i \in Missing(p) :
          /\ \A j \in Missing(p) : i <= j
          /\ Kalloc(pg)
          /\ data' = [data EXCEPT ![pg] = Zero]
          /\ table' = [table EXCEPT ![job[p].on].node[Path[job[p].va][i]] = pg]
    /\ UNCHANGED <<load, state, sz, trapframe, calls, panic>>

\* The flags of the pte: those of the parent, of the segment, or PTE_R, PTE_U and PTE_W.
Pte(p) ==
    CASE job[p].kind = "copy" -> [Original(p) EXCEPT !.page = mem[p]]
      [] job[p].kind = "segment" ->
            [page |-> mem[p], user |-> TRUE, write |-> load.image[job[p].seg].write]
      [] OTHER -> [page |-> mem[p], user |-> TRUE, write |-> TRUE]

MapLeaf(p) ==
    /\ pc[p] = "map" /\ Missing(p) = {} /\ job[p].kind # "create"
    /\ panic' = (panic \/ Mapped(table[job[p].on], job[p].va))
    /\ table' = [table EXCEPT ![job[p].on].pte[job[p].va] = Pte(p)]
    /\ mem' = [mem EXCEPT ![p] = NoPage]
    /\ Continue(p, [job[p] EXCEPT !.va = NextPage(p)])
    /\ UNCHANGED <<load, kmem, state, sz, trapframe, np, argv>>

-----------------------------------------------------------------------------
(* A user process: memory that is there, and a fault on memory that is not.*)

\* A store of the process, or of the kernel (copyout) in its memory.
Write(p, a, v) ==
    LET e == table[<<p, "own">>].pte[a] IN
    /\ Running(p)
    /\ e.user /\ e.write
    /\ data' = [data EXCEPT ![e.page] = v]
    /\ UNCHANGED <<load, free, procs, calls, panic>>

\* usertrap, copyin or copyout calls vmfault for an address in the page a below p->sz.
Fault(p, a) ==
    /\ Running(p)
    /\ ~Mapped(table[<<p, "own">>], a) /\ a * PageSize < sz[p]
    /\ Continue(p, [kind |-> "fault", on |-> <<p, "own">>, va |-> a, seg |-> 0, sz |-> sz[p],
                    new |-> (a + 1) * PageSize])
    /\ UNCHANGED <<load, kmem, procs, np, mem, argv, panic>>

FaultDone(p) ==
    /\ pc[p] = "done" /\ job[p].kind = "fault"
    /\ Return(p)
    /\ UNCHANGED <<load, kmem, procs, np, argv, panic>>

\* vmfault returns 0: the system call fails, or usertrap ends the process.
FaultFails(p) ==
    /\ OutOfMemory(p) /\ job[p].kind = "fault"
    /\ Kfree(InHand(p))
    /\ Return(p)
    /\ UNCHANGED <<load, procs, np, argv, panic>>

-----------------------------------------------------------------------------
(* sys_sbrk.                                                               *)

\* growproc of a positive number.
Grow(p, n) ==
    /\ Running(p) /\ Counted
    /\ n \in load.grow /\ sz[p] + n <= MaxSize
    /\ Uvmalloc(p, "grow", <<p, "own">>, 0, sz[p], sz[p] + n)
    /\ UNCHANGED <<kmem, procs, np, mem, argv, panic>>

GrowDone(p) ==
    /\ pc[p] = "done" /\ job[p].kind = "grow"
    /\ sz' = [sz EXCEPT ![p] = job[p].new]
    /\ Return(p)
    /\ UNCHANGED <<load, kmem, state, trapframe, table, np, argv, panic>>

\* uvmdealloc takes back what uvmalloc has mapped; page-table pages stay.
GrowFails(p) ==
    LET t == <<p, "own">> IN
    /\ OutOfMemory(p) /\ job[p].kind = "grow"
    /\ Kfree(InHand(p) \cup PagesOf(table[t], PagesIn(sz[p]), job[p].va))
    /\ table' = [table EXCEPT ![t] = Unmap(@, PagesIn(sz[p]), job[p].va)]
    /\ Return(p)
    /\ UNCHANGED <<load, state, sz, trapframe, np, argv, panic>>

\* SBRK_LAZY only moves the size.
SbrkLazy(p, n) ==
    /\ Running(p) /\ Counted
    /\ n \in load.grow /\ sz[p] + n <= MaxSize
    /\ sz' = [sz EXCEPT ![p] = @ + n]
    /\ UNCHANGED <<kmem, state, trapframe, table, calls, panic>>

\* growproc(-n).  More than there is: the new size wraps around and is not below the old.
Shrink(p, n) ==
    LET t == <<p, "own">>
        new == IF n > sz[p] THEN sz[p] ELSE sz[p] - n
    IN
    /\ Running(p) /\ Counted
    /\ n \in load.shrink
    /\ Kfree(PagesOf(table[t], PagesIn(new), PagesIn(sz[p])))
    /\ table' = [table EXCEPT ![t] = Unmap(@, PagesIn(new), PagesIn(sz[p]))]
    /\ sz' = [sz EXCEPT ![p] = new]
    /\ UNCHANGED <<state, trapframe, calls, panic>>
-----------------------------------------------------------------------------
(* proc_pagetable, for allocproc and for kexec.                            *)

Creating(p) == job[p].kind = "create"
CreateJob(p) ==
    [NoJob EXCEPT !.kind = "create", !.on = <<p, "new">>, !.va = TRAMPOLINE]

CreateRoot(p) ==
    /\ pc[p] = "root"
    /\ \E pg \in free :
          /\ Kalloc(pg)
          /\ data' = [data EXCEPT ![pg] = Zero]
          /\ table' = [table EXCEPT ![<<p, "new">>].root = pg]
    /\ pc' = [pc EXCEPT ![p] = "map"]
    /\ UNCHANGED <<load, state, sz, trapframe, job, np, mem, argv, panic>>

\* With the trampoline and the trapframe of the process q.
WithTrampoline(T, q) ==
    [T EXCEPT !.pte[TRAMPOLINE] = [page |-> Kernel, user |-> FALSE, write |-> FALSE],
              !.pte[TRAPFRAME] = [page |-> trapframe[q], user |-> FALSE, write |-> TRUE]]

\* The page tables after the caller has freed, or given away, that in its hand.
Dropped(p) == [table EXCEPT ![<<p, "new">>] = NoTable]

\* allocproc gives the page table to the child, and uvmcopy begins.
ForkCreated(p) ==
    LET q == np[p] IN
    /\ pc[p] = "map" /\ Creating(p) /\ Missing(p) = {} /\ q # NoSlot
    /\ table' = [Dropped(p) EXCEPT ![<<q, "own">>] = WithTrampoline(table[<<p, "new">>], q)]
    /\ Continue(p, [kind |-> "copy", on |-> <<q, "own">>, va |-> NextMapped(p, 0), seg |-> 0,
                    sz |-> 0, new |-> sz[p]])
    /\ UNCHANGED <<load, kmem, state, sz, trapframe, np, mem, argv, panic>>

\* kexec: uvmalloc for the segment i, or for the stack and its guard page after the last.
LoadNext(p, i, size) ==
    IF i \in DOMAIN load.image
      THEN Uvmalloc(p, "segment", <<p, "new">>, i, size, load.image[i].end)
      ELSE LET base == PagesIn(size) * PageSize IN
           Uvmalloc(p, "stack", <<p, "new">>, i, base, base + 2 * PageSize)

ExecCreated(p) ==
    /\ pc[p] = "map" /\ Creating(p) /\ Missing(p) = {} /\ np[p] = NoSlot
    /\ table' = [table EXCEPT ![<<p, "new">>] = WithTrampoline(@, p)]
    /\ LoadNext(p, 1, 0)
    /\ UNCHANGED <<load, kmem, state, sz, trapframe, np, mem, argv, panic>>

CreateFails(p) ==
    /\ Creating(p) /\ free = {}
    /\ pc[p] = "root" \/ (pc[p] = "map" /\ Missing(p) # {})

\* The exec of /init, on which forkret insists: that it fails at boot is not looked at.
FirstExec(p) == p = 0 /\ sz[p] = 0

-----------------------------------------------------------------------------
(* kfork.                                                                  *)

\* allocproc takes a slot and a trapframe.
Fork(p, q) ==
    /\ Running(p) /\ Counted /\ "fork" \in load.does
    /\ state[q] = "UNUSED" /\ \A r \in 0..(q - 1) : state[r] # "UNUSED"
    /\ \E pg \in free :
          /\ Kalloc(pg)
          /\ trapframe' = [trapframe EXCEPT ![q] = pg]
    /\ state' = [state EXCEPT ![q] = "USED"]
    /\ np' = [np EXCEPT ![p] = q]
    /\ job' = [job EXCEPT ![p] = CreateJob(p)]
    /\ pc' = [pc EXCEPT ![p] = "root"]
    /\ UNCHANGED <<data, sz, table, mem, argv, panic>>

\* freeproc: q is UNUSED and has no memory, after its pages were freed.
Freeproc(q) ==
    /\ trapframe' = [trapframe EXCEPT ![q] = NoPage]
    /\ sz' = [sz EXCEPT ![q] = 0]
    /\ state' = [state EXCEPT ![q] = "UNUSED"]

\* proc_pagetable fails: it frees its table, and freeproc the trapframe.
ForkCreateFails(p) ==
    LET q == np[p] IN
    /\ CreateFails(p) /\ q # NoSlot
    /\ Kfree(TablePages(table[<<p, "new">>]) \cup {trapframe[q]})
    /\ table' = Dropped(p)
    /\ Freeproc(q)
    /\ np' = [np EXCEPT ![p] = NoSlot]
    /\ Return(p)
    /\ UNCHANGED <<load, argv, panic>>

\* Mutant: uvmcopy frees one page less than it has mapped.
ForkCopyFailsShort(p) ==
    LET q == np[p]
        T == table[<<q, "own">>]
        last == job[p].va - 1
    IN
    /\ OutOfMemory(p) /\ job[p].kind = "copy"
    /\ Kfree(InHand(p) \cup PagesOf(T, 0, last) \cup TablePages(T) \cup {trapframe[q]})
    /\ panic' = (panic \/ LeafRemains(Unmap(T, 0, last), 0))
    /\ table' = [table EXCEPT ![<<q, "own">>] = NoTable]
    /\ Freeproc(q)
    /\ np' = [np EXCEPT ![p] = NoSlot]
    /\ Return(p)
    /\ UNCHANGED <<load, argv>>

\* uvmcopy frees what it has copied; the size of the child is still 0 in freeproc.
ForkCopyFails(p) ==
    LET q == np[p]
        T == table[<<q, "own">>]
        i == job[p].va
    IN
    /\ OutOfMemory(p) /\ job[p].kind = "copy"
    /\ Kfree(InHand(p) \cup PagesOf(T, 0, i) \cup TablePages(T) \cup {trapframe[q]})
    /\ panic' = (panic \/ LeafRemains(Unmap(T, 0, i), 0))
    /\ table' = [table EXCEPT ![<<q, "own">>] = NoTable]
    /\ Freeproc(q)
    /\ np' = [np EXCEPT ![p] = NoSlot]
    /\ Return(p)
    /\ UNCHANGED <<load, argv>>

ForkDone(p) ==
    LET q == np[p] IN
    /\ pc[p] = "done" /\ job[p].kind = "copy"
    /\ sz' = [sz EXCEPT ![q] = sz[p]]
    /\ state' = [state EXCEPT ![q] = "RUNNABLE"]
    /\ np' = [np EXCEPT ![p] = NoSlot]
    /\ Return(p)
    /\ UNCHANGED <<load, kmem, trapframe, table, argv, panic>>

-----------------------------------------------------------------------------
(* sys_exec and kexec.                                                     *)

Exec(p) ==
    /\ Running(p) /\ Counted /\ "exec" \in load.does
    /\ job' = [job EXCEPT ![p] = CreateJob(p)]
    /\ pc' = [pc EXCEPT ![p] = IF load.args > 0 THEN "argv" ELSE "root"]
    /\ UNCHANGED <<kmem, procs, np, mem, argv, panic>>

ExecArg(p) ==
    /\ pc[p] = "argv"
    /\ \E pg \in free :
          /\ Kalloc(pg)
          /\ data' = [data EXCEPT ![pg] = Arg]
          /\ argv' = [argv EXCEPT ![p] = @ \cup {pg}]
    /\ pc' = [pc EXCEPT ![p] = IF Cardinality(argv[p]) + 1 < load.args THEN @ ELSE "root"]
    /\ UNCHANGED <<load, procs, job, np, mem, panic>>

\* A bad address or no memory for an argument; then no such file, or not a program.
ExecRefused(p) ==
    /\ pc[p] \in {"argv", "root"} /\ np[p] = NoSlot /\ ~FirstExec(p)
    /\ Kfree(argv[p])
    /\ argv' = [argv EXCEPT ![p] = {}]
    /\ Return(p)
    /\ UNCHANGED <<load, procs, np, panic>>

\* sz = sz1, and loadseg reads the file into its pages.
ExecLoaded(p) ==
    LET seg == load.image[job[p].seg]
        T == table[<<p, "new">>]
        read == seg.first..(seg.first + seg.file - 1)
    IN
    /\ pc[p] = "done" /\ job[p].kind = "segment"
    /\ panic' = (panic \/ \E a \in read : ~Mapped(T, a))
    /\ data' = [pg \in Pages |-> IF \E a \in read : T.pte[a].page = pg THEN Text ELSE data[pg]]
    /\ LoadNext(p, job[p].seg + 1, job[p].new)
    /\ UNCHANGED <<load, free, procs, np, mem, argv>>

\* The label bad of kexec, where sz is size; then sys_exec frees the arguments.
Bad(p, T, size) ==
    /\ panic' = (panic \/ LeafRemains(T, size))
    /\ table' = Dropped(p)
    /\ argv' = [argv EXCEPT ![p] = {}]
    /\ Return(p)
    /\ UNCHANGED <<load, state, sz, trapframe, np>>

\* proc_pagetable or uvmalloc finds no memory; uvmalloc has undone what it did.
ExecFails(p) ==
    LET T == table[<<p, "new">>]
        old == PagesIn(job[p].sz)
    IN
    \/ /\ CreateFails(p) /\ np[p] = NoSlot /\ ~FirstExec(p)
       /\ Kfree(TablePages(T) \cup argv[p])
       /\ Bad(p, T, 0)
    \/ /\ OutOfMemory(p) /\ job[p].kind \in {"segment", "stack"} /\ ~FirstExec(p)
       /\ Kfree(InHand(p) \cup PagesOf(T, old, job[p].va) \cup AllPages(T, job[p].sz) \cup argv[p])
       /\ Bad(p, Unmap(T, old, job[p].va), job[p].sz)

\* A header is bad; loadseg cannot read, or the arguments do not fit in the stack.
ExecBad(p) ==
    LET T == table[<<p, "new">>]
        size == IF pc[p] = "done" THEN job[p].new ELSE job[p].sz
    IN
    /\ ~FirstExec(p)
    /\ \/ pc[p] = "page" /\ job[p].kind = "segment" /\ job[p].va = PagesIn(job[p].sz)
       \/ pc[p] = "done" /\ job[p].kind \in {"segment", "stack"}
    /\ Kfree(AllPages(T, size) \cup argv[p])
    /\ Bad(p, T, size)

\* uvmclear of the guard page, the arguments, and the new memory for the old.
ExecCommit(p) ==
    LET old == table[<<p, "own">>]
        guard == PagesIn(job[p].sz)
        T == table[<<p, "new">>]
        freed == AllPages(old, sz[p]) \cup argv[p]
    IN
    /\ pc[p] = "done" /\ job[p].kind = "stack"
    /\ free' = free \cup freed
    /\ data' = [pg \in Pages |-> IF pg \in freed THEN Junk
                                 ELSE IF pg = T.pte[guard + 1].page THEN Arg ELSE data[pg]]
    /\ panic' = (panic \/ LeafRemains(old, sz[p]))
    /\ table' = [Dropped(p) EXCEPT ![<<p, "own">>] = [T EXCEPT !.pte[guard].user = FALSE]]
    /\ sz' = [sz EXCEPT ![p] = job[p].new]
    /\ argv' = [argv EXCEPT ![p] = {}]
    /\ Return(p)
    /\ UNCHANGED <<load, state, trapframe, np>>

-----------------------------------------------------------------------------
(* kexit and kwait.                                                        *)

Exit(p) ==
    /\ Running(p) /\ p # 0
    /\ state' = [state EXCEPT ![p] = "ZOMBIE"]
    /\ UNCHANGED <<load, kmem, sz, trapframe, table, calls, panic>>

\* freeproc of a zombie.  (Who the parent is, is in LifeCycle.)
Wait(p, q) ==
    /\ Running(p) /\ state[q] = "ZOMBIE"
    /\ Kfree(AllPages(table[<<q, "own">>], sz[q]) \cup {trapframe[q]})
    /\ panic' = (panic \/ LeafRemains(table[<<q, "own">>], sz[q]))
    /\ table' = [table EXCEPT ![<<q, "own">>] = NoTable]
    /\ Freeproc(q)
    /\ UNCHANGED <<load, calls>>

-----------------------------------------------------------------------------
\* userinit, and the exec of /init in forkret: the first pages are a trapframe, a root and
\* the path to the trampoline.
Init ==
    LET first == 2 + Len(Path[TRAMPOLINE])
        root == [NoTable EXCEPT !.root = 2,
                    !.node = [n \in Nodes |->
                        IF \E i \in DOMAIN Path[TRAMPOLINE] : Path[TRAMPOLINE][i] = n
                          THEN 2 + CHOOSE i \in DOMAIN Path[TRAMPOLINE] : Path[TRAMPOLINE][i] = n
                          ELSE NoPage]]
    IN
    \E w \in Workloads :
        /\ load = w
        /\ free = (first + 1)..w.pages
        /\ data = [pg \in Pages |-> IF pg \in 1..first THEN Zero ELSE Junk]
        /\ state = [p \in Slots |-> IF p = 0 THEN "RUNNABLE" ELSE "UNUSED"]
        /\ sz = [p \in Slots |-> 0]
        /\ trapframe = [p \in Slots |-> IF p = 0 THEN 1 ELSE NoPage]
        /\ table = [t \in Slots \X {"own", "new"} |->
                        IF t = <<0, "own">> THEN WithTrampoline(root, 0) ELSE NoTable]
        /\ pc = [p \in Slots |-> IF p = 0 THEN "root" ELSE "user"]
        /\ job = [p \in Slots |-> IF p = 0 THEN CreateJob(0) ELSE NoJob]
        /\ np = [p \in Slots |-> NoSlot]
        /\ mem = [p \in Slots |-> NoPage]
        /\ argv = [p \in Slots |-> {}]
        /\ panic = FALSE

Step(p) ==
    \/ GetPage(p) \/ MapNode(p) \/ MapLeaf(p)
    \/ \E a \in 0..(UserPages - 1) : Fault(p, a) \/ \E v \in load.stores : Write(p, a, v)
    \/ FaultDone(p) \/ FaultFails(p)
    \/ \E n \in load.grow : Grow(p, n) \/ SbrkLazy(p, n)
    \/ GrowDone(p) \/ GrowFails(p)
    \/ \E n \in load.shrink : Shrink(p, n)
    \/ CreateRoot(p)
    \/ \E q \in Slots : Fork(p, q) \/ Wait(p, q)
    \/ ForkCreated(p) \/ ForkCreateFails(p) \/ ForkCopyFails(p) \/ ForkDone(p)
    \/ Exec(p) \/ ExecArg(p) \/ ExecRefused(p) \/ ExecCreated(p) \/ ExecLoaded(p)
    \/ ExecFails(p) \/ ExecBad(p) \/ ExecCommit(p)
    \/ Exit(p)

Next == \E p \in Slots : Step(p)

Spec == Init /\ [][Next]_vars

-----------------------------------------------------------------------------
(* Properties.                                                             *)

\* Who has a page: the trapframe, the root, the nodes and the user pages of each page
\* table, the page in hand, and the arguments of exec.
Owners(pg) ==
    {<<"trapframe", p, 0>> : p \in {q \in Slots : trapframe[q] = pg}}
    \cup {<<"root", t, 0>> : t \in {u \in DOMAIN table : table[u].root = pg}}
    \cup {<<"node", e[1], e[2]>> :
             e \in {f \in (DOMAIN table) \X Nodes : table[f[1]].node[f[2]] = pg}}
    \cup {<<"user", e[1], e[2]>> :
             e \in {f \in (DOMAIN table) \X (0..(UserPages - 1)) : table[f[1]].pte[f[2]].page = pg}}
    \cup {<<"hand", p, 0>> : p \in {q \in Slots : mem[q] = pg}}
    \cup {<<"argv", p, 0>> : p \in {q \in Slots : pg \in argv[q]}}

\* No page is lost, freed twice, or in two places, whatever fails on the way (usertests.c
\* counts the free pages before and after its tests); a slot that is not used has no
\* memory; and neither mappages, loadseg nor freewalk panics.
MemoryConsistent ==
    /\ TypeOK
    /\ ~panic
    /\ \A pg \in 1..load.pages : Cardinality(Owners(pg)) = IF pg \in free THEN 0 ELSE 1
    /\ \A p \in Slots : state[p] = "UNUSED" => table[<<p, "own">>] = NoTable /\ sz[p] = 0

\* The memory that a process sees.
View(p) ==
    [sz |-> sz[p],
     mem |-> [a \in 0..(PagesIn(sz[p]) - 1) |->
        LET e == table[<<p, "own">>].pte[a] IN
        IF e = NoPte THEN [user |-> TRUE, write |-> TRUE, value |-> Zero]
        ELSE [user |-> e.user, write |-> e.write,
              value |-> IF e.user THEN data[e.page] ELSE Zero]]]

\* What kexec makes of the program: its segments, a guard page and the stack.
Image(segs) ==
    LET top == IF segs = <<>> THEN 0 ELSE PagesIn(segs[Len(segs)].end)
        Of(a) == CHOOSE i \in DOMAIN segs :
                    /\ a < PagesIn(segs[i].end) /\ \A j \in 1..(i - 1) : a >= PagesIn(segs[j].end)
        InFile(a) == \E i \in DOMAIN segs : a \in segs[i].first..(segs[i].first + segs[i].file - 1)
    IN
    [sz |-> (top + 2) * PageSize,
     mem |-> [a \in 0..(top + 1) |->
        CASE a < top -> [user |-> TRUE, write |-> segs[Of(a)].write,
                         value |-> IF InFile(a) THEN Text ELSE Zero]
          [] a = top -> [user |-> FALSE, write |-> TRUE, value |-> Zero]
          [] OTHER -> [user |-> TRUE, write |-> TRUE, value |-> Arg]]]

NoSpace == [sz |-> -1, mem |-> <<>>]

Spaces == INSTANCE AddressSpaces WITH
    program <- Image(load.image), more <- load.grow, less <- load.shrink,
    space <- [p \in Slots |-> IF state[p] = "RUNNABLE" THEN View(p) ELSE NoSpace]

\* Each process sees memory of its own, whole calls of fork, exec and sbrk, and no trace
\* of one that failed; memory that sbrk gives is zero, and it does not show whether it was
\* allocated at once, at the first touch, or copied by fork before or after that (but for
\* copyinstr, which does not call vmfault: vm.c:418).
ImplementsAddressSpaces == Spaces!Spec
=============================================================================
