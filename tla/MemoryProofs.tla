---------------------------- MODULE MemoryProofs -----------------------------
(***************************************************************************)
(* Proofs about Memory, for every number of processes and pages, every     *)
(* shape of the page tables and every workload: no page is lost, shared or *)
(* freed twice, whatever fails on the way.                                 *)
(***************************************************************************)
EXTENDS Memory, FiniteSetTheorems, WellFoundedInduction, TLAPS

Tables == Slots \X {"own", "new"}
Own(p) == <<p, "own">>
New(p) == <<p, "new">>
UserVPs == 0..(UserPages - 1)
Real == 1..load.pages

PTE == [page : Pages \cup {NoPage, Kernel}, user : BOOLEAN, write : BOOLEAN]
PageTable == [root : Pages \cup {NoPage}, node : [Nodes -> Pages \cup {NoPage}],
              pte : [VirtualPages -> PTE]]

Loops == {"fault", "grow", "copy", "segment", "stack"}
Job == [kind : Loops \cup {"none", "create"}, on : Tables, va : VirtualPages, seg : Nat,
        sz : Nat, new : Nat]

\* The types of TypeOK, and those of what it leaves open.
FullTypeOK ==
    /\ load.calls \in Nat /\ \E w \in Workloads : load = [w EXCEPT !.calls = load.calls]
    /\ free \subseteq Real
    /\ data \in [Pages -> Values \cup {Junk}]
    /\ state \in [Slots -> {"UNUSED", "USED", "RUNNABLE", "ZOMBIE"}]
    /\ sz \in [Slots -> 0..MaxSize]
    /\ trapframe \in [Slots -> Pages \cup {NoPage}]
    /\ table \in [Tables -> PageTable]
    /\ pc \in [Slots -> {"user", "argv", "root", "page", "map", "done"}]
    /\ job \in [Slots -> Job]
    /\ np \in [Slots -> Slots \cup {NoSlot}]
    /\ mem \in [Slots -> Pages \cup {NoPage}]
    /\ argv \in [Slots -> SUBSET Pages]
    /\ panic = FALSE

\* A page-table entry is empty, or leads to a page; one below TRAPFRAME, to one of its own.
EntriesOK ==
    \A t \in Tables : \A a \in VirtualPages :
        /\ table[t].pte[a].page = NoPage => table[t].pte[a] = NoPte
        /\ a \in UserVPs => table[t].pte[a].page # Kernel

SlotsOK ==
    \A p \in Slots :
        /\ state[p] = "UNUSED" => sz[p] = 0 /\ trapframe[p] = NoPage /\ table[Own(p)] = NoTable
        /\ state[p] # "UNUSED" => trapframe[p] # NoPage
        /\ state[p] = "USED" => sz[p] = 0
        /\ np[p] # NoSlot => state[np[p]] = "USED"
        /\ \A q \in Slots : np[p] # NoSlot /\ np[p] = np[q] => p = q

\* What the call k of p has in hand at each of its steps.
CallOK(p, k) ==
    /\ pc[p] # "user" => state[p] = "RUNNABLE"
    /\ pc[p] = "user" <=> k = "none"
    /\ pc[p] \in {"argv", "root"} => k = "create"
    /\ pc[p] \in {"page", "done"} => k \in Loops
    /\ k = "create" => job[p].on = New(p) /\ job[p].va = TRAMPOLINE
    /\ k \in {"fault", "grow"} => job[p].on = Own(p)
    /\ k = "copy" => np[p] # NoSlot /\ job[p].on = Own(np[p]) /\ job[p].new = sz[p]
    /\ k \in {"segment", "stack"} => job[p].on = New(p)
    /\ pc[p] = "argv" \/ k \notin {"create", "copy"} => np[p] = NoSlot
    /\ k = "create" /\ np[p] # NoSlot => table[Own(np[p])] = NoTable
    /\ np[p] # NoSlot \/ k \notin {"create", "segment", "stack"} => argv[p] = {}
    /\ pc[p] \in {"argv", "root"} \/ k \notin {"create", "segment", "stack"} =>
          table[New(p)] = NoTable
    /\ k = "create" => \A a \in VirtualPages : ~Mapped(table[New(p)], a)
    /\ mem[p] # NoPage <=> pc[p] = "map" /\ k # "create"

CallsOK == \A p \in Slots : CallOK(p, job[p].kind)

Below(T, n) == \A a \in UserVPs : Mapped(T, a) => a < n

\* How far the user pages go, of the page table of p and of the one that its call fills
\* from first to last and has come to v.
ExtentOK(p, k, v, first, last) ==
    LET own == table[Own(p)] IN
    /\ state[p] # "USED" => Below(own, IF k = "grow" THEN v ELSE PagesIn(sz[p]))
    /\ k \in Loops => v <= last /\ job[p].new <= MaxSize
    /\ k \in Loops => (pc[p] = "done" <=> v = last)
    /\ k = "fault" /\ pc[p] # "done" =>
          ~Mapped(own, v) /\ v < PagesIn(sz[p]) /\ last = v + 1
    /\ k \in {"grow", "segment", "stack"} => first <= v
    /\ k = "grow" => job[p].sz = sz[p]
    /\ k = "copy" => Below(table[Own(np[p])], v)
    /\ k = "copy" /\ pc[p] # "done" => Mapped(own, v)
    /\ k \in {"segment", "stack"} => \A a \in UserVPs : Mapped(table[New(p)], a) <=> a < v
    /\ k = "segment" => /\ job[p].seg \in DOMAIN load.image
                        /\ job[p].new = load.image[job[p].seg].end
    /\ k = "stack" => last = first + 2

ExtentsOK ==
    \A p \in Slots :
        ExtentOK(p, job[p].kind, job[p].va, PagesIn(job[p].sz), PagesIn(job[p].new))

\* Who a page belongs to.
ListTag == <<"free">>
FrameTag(p) == <<"trapframe", p, 0>>
RootTag(t) == <<"root", t, 0>>
NodeTag(t, n) == <<"node", t, n>>
UserTag(t, a) == <<"user", t, a>>
HandTag(p) == <<"hand", p, 0>>
ArgvTag(p) == <<"argv", p, 0>>

Tags ==
    {ListTag} \cup {FrameTag(p) : p \in Slots} \cup {HandTag(p) : p \in Slots}
    \cup {ArgvTag(p) : p \in Slots} \cup {RootTag(t) : t \in Tables}
    \cup {NodeTag(t, n) : t \in Tables, n \in Nodes}
    \cup {UserTag(t, a) : t \in Tables, a \in UserVPs}

\* own says of every page who it belongs to: it is an entry of every list it is on.
SlotPages(own) ==
    \A p \in Slots :
        /\ trapframe[p] \in Real \cup {NoPage} /\ mem[p] \in Real \cup {NoPage}
        /\ argv[p] \subseteq Real
        /\ \A pg \in Real :
              /\ trapframe[p] = pg <=> own[pg] = FrameTag(p)
              /\ mem[p] = pg <=> own[pg] = HandTag(p)
              /\ pg \in argv[p] <=> own[pg] = ArgvTag(p)

PagesOfTable(own, t, T) ==
    /\ T.root \in Real \cup {NoPage}
    /\ \A pg \in Real : T.root = pg <=> own[pg] = RootTag(t)
    /\ \A n \in Nodes :
          /\ T.node[n] \in Real \cup {NoPage}
          /\ \A pg \in Real : T.node[n] = pg <=> own[pg] = NodeTag(t, n)
    /\ \A a \in UserVPs :
          /\ T.pte[a].page \in Real \cup {NoPage}
          /\ \A pg \in Real : T.pte[a].page = pg <=> own[pg] = UserTag(t, a)

Accounts(own) ==
    /\ own \in [Real -> Tags]
    /\ \A pg \in Real : pg \in free <=> own[pg] = ListTag
    /\ SlotPages(own)
    /\ \A t \in Tables : PagesOfTable(own, t, table[t])

PagesAreOwned == \E own \in [Real -> Tags] : Accounts(own)

\* The inductive invariant.
IInv == FullTypeOK /\ EntriesOK /\ SlotsOK /\ CallsOK /\ ExtentsOK /\ PagesAreOwned

-----------------------------------------------------------------------------
(* Sizes in bytes and in pages.                                            *)

LEMMA Rounding ==
    ASSUME NEW n \in Nat
    PROVE  /\ PagesIn(n) \in Nat
           /\ n <= PagesIn(n) * PageSize
           /\ PagesIn(n) * PageSize < n + PageSize
<1> DEFINE d == n + PageSize - 1
<1>1. PageSize \in Nat \ {0} /\ d \in Nat
  BY MemoryAssumption
<1>2. /\ d \div PageSize \in Nat
      /\ PageSize * (d \div PageSize) <= d /\ d < PageSize * (d \div PageSize) + PageSize
  <2> HIDE DEF d
  <2> QED BY <1>1, SMT
<1>3. PagesIn(n) = d \div PageSize
  BY DEF PagesIn
<1> HIDE DEF d
<1>4. ASSUME NEW q \in Nat, PageSize * q <= d, d < PageSize * q + PageSize
      PROVE  n <= q * PageSize /\ q * PageSize < n + PageSize
  <2>1. d = n + PageSize - 1
    BY DEF d
  <2>2. PageSize * q = q * PageSize /\ PageSize * q \in Int
    BY <1>1, SMT
  <2> QED BY <1>1, <1>4, <2>1, <2>2, SMT
<1> QED BY <1>2, <1>3, <1>4

LEMMA Multiples ==
    ASSUME NEW i \in Int, NEW j \in Int
    PROVE  /\ i < j => i * PageSize + PageSize <= j * PageSize
           /\ i * PageSize \in Int /\ j * PageSize \in Int
<1>1. PageSize \in Nat \ {0}
  BY MemoryAssumption
<1>2. /\ i * PageSize \in Int /\ j * PageSize \in Int /\ (j - i - 1) * PageSize \in Int
      /\ (j - i - 1) * PageSize = j * PageSize - i * PageSize - PageSize
  BY <1>1, SMT
<1>3. ASSUME i < j PROVE (j - i - 1) * PageSize >= 0
  <2>1. j - i - 1 \in Nat
    BY <1>3
  <2> QED BY <1>1, <2>1, SMT
<1> QED BY <1>1, <1>2, <1>3, SMT

\* A page is below the end of n bytes exactly when its first byte is.
LEMMA PageBelow ==
    ASSUME NEW n \in Nat, NEW a \in Int
    PROVE  a < PagesIn(n) <=> a * PageSize < n
<1>1. PageSize \in Nat \ {0}
  BY MemoryAssumption
<1>2. PagesIn(n) \in Nat /\ n <= PagesIn(n) * PageSize /\ PagesIn(n) * PageSize < n + PageSize
  BY Rounding
<1>3. a * PageSize \in Int /\ PagesIn(n) * PageSize \in Int
  BY <1>2, Multiples
<1>4. ASSUME a < PagesIn(n) PROVE a * PageSize < n
  <2>1. a * PageSize + PageSize <= PagesIn(n) * PageSize
    BY <1>2, <1>4, Multiples
  <2> QED BY <1>1, <1>2, <1>3, <2>1
<1>5. ASSUME a >= PagesIn(n) PROVE a * PageSize >= n
  <2>1. PagesIn(n) * PageSize <= a * PageSize
    BY <1>1, <1>2, <1>3, <1>5, Multiples
  <2> QED BY <1>2, <1>3, <2>1
<1> QED BY <1>2, <1>3, <1>4, <1>5

LEMMA PagesMonotone ==
    ASSUME NEW m \in Nat, NEW n \in Nat, m <= n
    PROVE  PagesIn(m) <= PagesIn(n)
<1>1. PagesIn(m) \in Nat /\ PagesIn(n) \in Nat
  BY Rounding
<1>2. ASSUME PagesIn(n) < PagesIn(m) PROVE FALSE
  <2>1. PagesIn(n) * PageSize < m
    BY <1>1, <1>2, PageBelow
  <2>2. ~(PagesIn(n) * PageSize < n)
    BY <1>1, PageBelow
  <2>3. PagesIn(n) * PageSize \in Int
    BY <1>1, Multiples
  <2> QED BY <2>1, <2>2, <2>3
<1> QED BY <1>1, <1>2

LEMMA WholePages ==
    ASSUME NEW k \in Nat
    PROVE  k * PageSize \in Nat /\ PagesIn(k * PageSize) = k
<1>1. PageSize \in Nat \ {0}
  BY MemoryAssumption
<1>2. k * PageSize \in Nat
  BY <1>1, SMT
<1>3. PagesIn(k * PageSize) \in Nat
  BY <1>2, Rounding
<1>4. ~(k < PagesIn(k * PageSize))
  BY <1>2, PageBelow
<1>5. ASSUME PagesIn(k * PageSize) < k PROVE FALSE
  <2>1. PagesIn(k * PageSize) * PageSize + PageSize <= k * PageSize
    BY <1>3, <1>5, Multiples
  <2>2. k * PageSize <= PagesIn(k * PageSize) * PageSize
    BY <1>2, Rounding
  <2>3. PagesIn(k * PageSize) * PageSize \in Int
    BY <1>3, Multiples
  <2> QED BY <1>1, <1>2, <2>1, <2>2, <2>3
<1> QED BY <1>2, <1>3, <1>4, <1>5

\* The sizes of processes.
LEMMA SizesAre ==
    /\ MaxSize \in Nat /\ PagesIn(MaxSize) = UserPages /\ PagesIn(0) = 0
    /\ \A n \in 0..MaxSize : PagesIn(n) \in 0..UserPages
<1>1. UserPages \in Nat /\ PageSize \in Nat \ {0}
  BY MemoryAssumption
<1>2. MaxSize \in Nat /\ PagesIn(MaxSize) = UserPages
  BY <1>1, WholePages DEF MaxSize
<1>3. PagesIn(0) = 0
  <2>1. 0 * PageSize = 0
    BY <1>1, SMT
  <2> QED BY <2>1, WholePages
<1>4. ASSUME NEW n \in 0..MaxSize PROVE PagesIn(n) \in 0..UserPages
  BY <1>1, <1>2, Rounding, PagesMonotone
<1> QED BY <1>2, <1>3, <1>4

-----------------------------------------------------------------------------
(* Constants, tags and page tables.                                        *)

\* The workload is one of Workloads, but for the calls that are left.
LEMMA LoadFacts ==
    ASSUME FullTypeOK
    PROVE  /\ load.pages \in 1..MaxPages /\ Real \subseteq Pages /\ NoPage \notin Real
           /\ load.image \in Seq(Segments) /\ Fits(load.image)
           /\ load.stores \subseteq Values /\ load.args \in Nat
           /\ load.grow \subseteq Nat \ {0} /\ load.shrink \subseteq Nat \ {0}
<1>1. PICK w \in Workloads : load = [w EXCEPT !.calls = load.calls]
  BY DEF FullTypeOK
<1>2. /\ w \in [pages : 1..MaxPages, calls : Nat, does : SUBSET {"fork", "exec"},
                 grow : SUBSET (Nat \ {0}), shrink : SUBSET (Nat \ {0}),
                 stores : SUBSET Values, image : Seq(Segments), args : Nat]
      /\ Fits(w.image) /\ MaxPages \in Nat
  BY MemoryAssumption
<1>3. /\ load.pages = w.pages /\ load.image = w.image /\ load.stores = w.stores
      /\ load.args = w.args /\ load.grow = w.grow /\ load.shrink = w.shrink
  BY <1>1, <1>2
<1> QED BY <1>2, <1>3 DEF Real, Pages, NoPage

\* A call is counted and changes nothing else of the workload.
LEMMA LoadStep ==
    ASSUME FullTypeOK, load' = load \/ Counted
    PROVE  /\ load'.calls \in Nat /\ \E w \in Workloads : load' = [w EXCEPT !.calls = load'.calls]
           /\ load'.pages = load.pages /\ load'.image = load.image /\ Real' = Real
<1>1. PICK w \in Workloads : load = [w EXCEPT !.calls = load.calls]
  BY DEF FullTypeOK
<1>2. w \in [pages : 1..MaxPages, calls : Nat, does : SUBSET {"fork", "exec"},
             grow : SUBSET (Nat \ {0}), shrink : SUBSET (Nat \ {0}),
             stores : SUBSET Values, image : Seq(Segments), args : Nat]
  BY MemoryAssumption
<1>3. CASE load' = load
  BY <1>1, <1>3 DEF FullTypeOK, Real
<1>4. CASE Counted
  <2>1. load.calls \in Nat /\ load.calls > 0 /\ load' = [load EXCEPT !.calls = @ - 1]
    BY <1>4 DEF Counted, FullTypeOK
  <2>2. load' = [w EXCEPT !.calls = load'.calls] /\ load'.calls = load.calls - 1
    BY <1>1, <1>2, <2>1
  <2> QED BY <1>1, <1>2, <2>1, <2>2 DEF Real
<1> QED BY <1>3, <1>4

LEMMA PathFacts ==
    ASSUME NEW a \in VirtualPages
    PROVE  /\ Path[a] \in Seq(Nodes)
           /\ \A i \in DOMAIN Path[a] : i \in Nat /\ Path[a][i] \in Nodes
  BY MemoryAssumption

\* What a tag tells: its kind, and whose it is.
LEMMA TagFacts ==
    /\ ListTag \in Tags /\ ListTag[1] = "free"
    /\ \A p \in Slots :
          /\ FrameTag(p) \in Tags /\ FrameTag(p)[1] = "trapframe" /\ FrameTag(p)[2] = p
          /\ HandTag(p) \in Tags /\ HandTag(p)[1] = "hand" /\ HandTag(p)[2] = p
          /\ ArgvTag(p) \in Tags /\ ArgvTag(p)[1] = "argv" /\ ArgvTag(p)[2] = p
    /\ \A t \in Tables :
          /\ RootTag(t) \in Tags /\ RootTag(t)[1] = "root" /\ RootTag(t)[2] = t
          /\ \A n \in Nodes :
                /\ NodeTag(t, n) \in Tags /\ NodeTag(t, n)[1] = "node"
                /\ NodeTag(t, n)[2] = t /\ NodeTag(t, n)[3] = n
          /\ \A a \in UserVPs :
                /\ UserTag(t, a) \in Tags /\ UserTag(t, a)[1] = "user"
                /\ UserTag(t, a)[2] = t /\ UserTag(t, a)[3] = a
  BY DEF Tags, ListTag, FrameTag, HandTag, ArgvTag, RootTag, NodeTag, UserTag

LEMMA TagKinds ==
    ASSUME NEW o \in Tags
    PROVE  \/ o = ListTag
           \/ \E p \in Slots : o \in {FrameTag(p), HandTag(p), ArgvTag(p)}
           \/ \E t \in Tables : \/ o = RootTag(t) \/ \E n \in Nodes : o = NodeTag(t, n)
                               \/ \E a \in UserVPs : o = UserTag(t, a)
  BY DEF Tags

LEMMA TableNames ==
    /\ \A p \in Slots : Own(p) \in Tables /\ New(p) \in Tables
    /\ \A p, q \in Slots : Own(p) # New(q) /\ (Own(p) = Own(q) => p = q)
                           /\ (New(p) = New(q) => p = q)
    /\ \A t \in Tables : \E p \in Slots : t = Own(p) \/ t = New(p)
    /\ NoSlot \notin Slots
<1>1. NoSlot \notin Slots
  BY MemoryAssumption DEF NoSlot, Slots
<1> QED BY <1>1 DEF Own, New, Tables

LEMMA VirtualPagesAre ==
    /\ UserPages \in Nat /\ UserVPs \subseteq VirtualPages
    /\ TRAPFRAME \in VirtualPages \ UserVPs /\ TRAMPOLINE \in VirtualPages \ UserVPs
    /\ TRAPFRAME # TRAMPOLINE /\ VirtualPages \subseteq Nat
    /\ \A a \in VirtualPages : a \in UserVPs <=> a < UserPages
  BY MemoryAssumption DEF UserVPs, VirtualPages, TRAPFRAME, TRAMPOLINE

LEMMA NoTableFacts ==
    /\ NoTable \in PageTable /\ NoTable.root = NoPage
    /\ \A n \in Nodes : NoTable.node[n] = NoPage
    /\ \A a \in VirtualPages : NoTable.pte[a] = NoPte /\ ~Mapped(NoTable, a)
    /\ NoPte \in PTE /\ NoPte.page = NoPage
    /\ \A n : Below(NoTable, n)
<1>1. NoPte \in PTE /\ NoPte.page = NoPage
  BY DEF NoPte, PTE
<1>2. UserVPs \subseteq VirtualPages
  BY VirtualPagesAre
<1> QED BY <1>1, <1>2 DEF NoTable, PageTable, Mapped, Below

\* A page is mapped when its entry leads to a page.
LEMMA MappedIs ==
    ASSUME FullTypeOK, EntriesOK, NEW t \in Tables, NEW a \in VirtualPages
    PROVE  /\ Mapped(table[t], a) <=> table[t].pte[a].page # NoPage
           /\ table[t].pte[a] \in PTE
<1>1. table[t].pte \in [VirtualPages -> PTE]
  BY DEF FullTypeOK, PageTable
<1> QED BY <1>1, NoTableFacts DEF EntriesOK, Mapped

-----------------------------------------------------------------------------
(* The accounts.                                                           *)

\* A table that keeps its pages keeps them in the accounts.
LEMMA SameTable ==
    ASSUME NEW own, NEW t \in Tables, NEW T, NEW U, PagesOfTable(own, t, T),
           U.root = T.root, \A n \in Nodes : U.node[n] = T.node[n],
           \A a \in UserVPs : U.pte[a].page = T.pte[a].page
    PROVE  PagesOfTable(own, t, U)
  BY DEF PagesOfTable

LEMMA SameAccounts ==
    ASSUME NEW own, Accounts(own), Real' = Real, free' = free, trapframe' = trapframe,
           mem' = mem, argv' = argv,
           \A t \in Tables : 
              /\ table'[t].root = table[t].root
              /\ \A n \in Nodes : table'[t].node[n] = table[t].node[n]
              /\ \A a \in UserVPs : table'[t].pte[a].page = table[t].pte[a].page
    PROVE  Accounts(own)'
<1>1. SlotPages(own)'
  BY DEF Accounts, SlotPages
<1>2. ASSUME NEW t \in Tables PROVE PagesOfTable(own, t, table[t])'
  BY DEF Accounts, PagesOfTable
<1> QED BY <1>1, <1>2 DEF Accounts

\* A page goes from the holder of one tag to that of another, which had none.
Moved(own, pg, o) == [own EXCEPT ![pg] = o]

LEMMA MovedFacts ==
    ASSUME NEW own \in [Real -> Tags], NEW pg \in Real, NEW o \in Tags
    PROVE  /\ Moved(own, pg, o) \in [Real -> Tags]
           /\ Moved(own, pg, o)[pg] = o
           /\ \A r \in Real : r # pg => Moved(own, pg, o)[r] = own[r]
  BY DEF Moved

LEMMA MovedAccounts ==
    ASSUME NEW own, Accounts(own), NEW pg \in Real, NEW o \in Tags, Real' = Real, NoPage \notin Real,
           own[pg] = ListTag \/ own[pg][1] = "hand", o # ListTag,
           o[1] # "argv" => \A r \in Real : own[r] # o,
           free' = free \ {pg},
           \A p \in Slots :
              /\ trapframe'[p] = IF o = FrameTag(p) THEN pg ELSE trapframe[p]
              /\ mem'[p] = IF o = HandTag(p) THEN pg
                           ELSE IF own[pg] = HandTag(p) THEN NoPage ELSE mem[p]
              /\ argv'[p] = IF o = ArgvTag(p) THEN argv[p] \cup {pg} ELSE argv[p],
           \A t \in Tables :
              /\ table'[t].root = IF o = RootTag(t) THEN pg ELSE table[t].root
              /\ \A n \in Nodes :
                    table'[t].node[n] = IF o = NodeTag(t, n) THEN pg ELSE table[t].node[n]
              /\ \A a \in UserVPs : table'[t].pte[a].page =
                    IF o = UserTag(t, a) THEN pg ELSE table[t].pte[a].page
    PROVE  Moved(own, pg, o) \in [Real -> Tags] /\ Accounts(Moved(own, pg, o))'
<1> DEFINE own2 == Moved(own, pg, o)
<1>1. own \in [Real -> Tags] /\ \A r \in Real : r \in free <=> own[r] = ListTag
  BY DEF Accounts
<1>2. own2 \in [Real -> Tags] /\ own2[pg] = o /\ \A r \in Real : r # pg => own2[r] = own[r]
  BY <1>1, MovedFacts
<1> HIDE DEF own2
<1>3. \A r \in Real : r \in free' <=> own2[r] = ListTag
  BY <1>1, <1>2
<1>4. ASSUME NEW g \in Tags, g[1] # "argv", NEW x \in Real \cup {NoPage}, NEW y,
             \A r \in Real : x = r <=> own[r] = g,
             y = IF o = g THEN pg ELSE IF own[pg] = g THEN NoPage ELSE x
      PROVE  y \in Real \cup {NoPage} /\ \A r \in Real : y = r <=> own2[r] = g
  <2>1. o = g => \A r \in Real : own[r] # g
    BY <1>4
  <2>2. CASE o = g
    BY <1>2, <1>4, <2>1, <2>2
  <2>3. CASE o # g /\ own[pg] = g
    BY <1>2, <1>4, <2>3
  <2>4. CASE o # g /\ own[pg] # g
    BY <1>2, <1>4, <2>4
  <2> QED BY <2>2, <2>3, <2>4
<1>5. ASSUME NEW p \in Slots
      PROVE  /\ trapframe'[p] \in Real \cup {NoPage} /\ mem'[p] \in Real \cup {NoPage}
             /\ argv'[p] \subseteq Real
             /\ \A r \in Real : /\ trapframe'[p] = r <=> own2[r] = FrameTag(p)
                                /\ mem'[p] = r <=> own2[r] = HandTag(p)
                                /\ r \in argv'[p] <=> own2[r] = ArgvTag(p)
  <2>1. /\ trapframe[p] \in Real \cup {NoPage} /\ mem[p] \in Real \cup {NoPage}
        /\ argv[p] \subseteq Real
        /\ \A r \in Real : trapframe[p] = r <=> own[r] = FrameTag(p)
        /\ \A r \in Real : mem[p] = r <=> own[r] = HandTag(p)
        /\ \A r \in Real : r \in argv[p] <=> own[r] = ArgvTag(p)
    BY DEF Accounts, SlotPages
  <2>2. /\ FrameTag(p) \in Tags /\ FrameTag(p)[1] = "trapframe" /\ own[pg] # FrameTag(p)
        /\ HandTag(p) \in Tags /\ HandTag(p)[1] = "hand"
        /\ ArgvTag(p) \in Tags /\ ArgvTag(p)[1] = "argv" /\ own[pg] # ArgvTag(p)
    BY TagFacts
  <2>3. /\ trapframe'[p] \in Real \cup {NoPage}
        /\ \A r \in Real : trapframe'[p] = r <=> own2[r] = FrameTag(p)
    <3>1. trapframe'[p] = IF o = FrameTag(p) THEN pg
                          ELSE IF own[pg] = FrameTag(p) THEN NoPage ELSE trapframe[p]
      BY <2>2
    <3> QED BY <1>4, <2>1, <2>2, <3>1
  <2>4. /\ mem'[p] \in Real \cup {NoPage}
        /\ \A r \in Real : mem'[p] = r <=> own2[r] = HandTag(p)
    <3>1. mem'[p] = IF o = HandTag(p) THEN pg
                    ELSE IF own[pg] = HandTag(p) THEN NoPage ELSE mem[p]
      OBVIOUS
    <3> QED BY <1>4, <2>1, <2>2, <3>1
  <2>5. /\ argv'[p] \subseteq Real
        /\ \A r \in Real : r \in argv'[p] <=> own2[r] = ArgvTag(p)
    <3>1. argv'[p] = IF o = ArgvTag(p) THEN argv[p] \cup {pg} ELSE argv[p]
      OBVIOUS
    <3> QED BY <1>2, <2>1, <2>2, <3>1
  <2> QED BY <2>3, <2>4, <2>5
<1>6. ASSUME NEW t \in Tables PROVE PagesOfTable(own2, t, table[t])'
  <2>1. PagesOfTable(own, t, table[t])
    BY DEF Accounts
  <2>2. /\ RootTag(t) \in Tags /\ RootTag(t)[1] = "root" /\ own[pg] # RootTag(t)
        /\ \A n \in Nodes :
              NodeTag(t, n) \in Tags /\ NodeTag(t, n)[1] = "node" /\ own[pg] # NodeTag(t, n)
        /\ \A a \in UserVPs :
              UserTag(t, a) \in Tags /\ UserTag(t, a)[1] = "user" /\ own[pg] # UserTag(t, a)
    BY TagFacts
  <2>3. /\ table'[t].root \in Real \cup {NoPage}
        /\ \A r \in Real : table'[t].root = r <=> own2[r] = RootTag(t)
    <3>1. table'[t].root = IF o = RootTag(t) THEN pg
                           ELSE IF own[pg] = RootTag(t) THEN NoPage ELSE table[t].root
      BY <2>2
    <3>2. table[t].root \in Real \cup {NoPage} /\ \A r \in Real : table[t].root = r <=> own[r] = RootTag(t)
      BY <2>1 DEF PagesOfTable
    <3> QED BY <1>4, <2>2, <3>1, <3>2
  <2>4. ASSUME NEW n \in Nodes
        PROVE  /\ table'[t].node[n] \in Real \cup {NoPage}
               /\ \A r \in Real : table'[t].node[n] = r <=> own2[r] = NodeTag(t, n)
    <3>1. table'[t].node[n] = IF o = NodeTag(t, n) THEN pg
                              ELSE IF own[pg] = NodeTag(t, n) THEN NoPage ELSE table[t].node[n]
      BY <2>2
    <3>2. /\ table[t].node[n] \in Real \cup {NoPage}
          /\ \A r \in Real : table[t].node[n] = r <=> own[r] = NodeTag(t, n)
      BY <2>1 DEF PagesOfTable
    <3> QED BY <1>4, <2>2, <3>1, <3>2
  <2>5. ASSUME NEW a \in UserVPs
        PROVE  /\ table'[t].pte[a].page \in Real \cup {NoPage}
               /\ \A r \in Real : table'[t].pte[a].page = r <=> own2[r] = UserTag(t, a)
    <3>1. table'[t].pte[a].page =
             IF o = UserTag(t, a) THEN pg
             ELSE IF own[pg] = UserTag(t, a) THEN NoPage ELSE table[t].pte[a].page
      BY <2>2
    <3>2. /\ table[t].pte[a].page \in Real \cup {NoPage}
          /\ \A r \in Real : table[t].pte[a].page = r <=> own[r] = UserTag(t, a)
      BY <2>1 DEF PagesOfTable
    <3> QED BY <1>4, <2>2, <3>1, <3>2
  <2> QED BY <2>3, <2>4, <2>5 DEF PagesOfTable
<1> QED BY <1>2, <1>3, <1>5, <1>6 DEF Accounts, SlotPages, own2

\* The pages with the tags of D go to the free list.
Freed(own, D) == [r \in DOMAIN own |-> IF own[r] \in D THEN ListTag ELSE own[r]]
PagesWith(own, D) == {r \in DOMAIN own : own[r] \in D}

LEMMA FreedAccounts ==
    ASSUME NEW own, Accounts(own), NEW D, Real' = Real, NoPage \notin Real,
           free' = free \cup PagesWith(own, D),
           ListTag \notin D,
           \A p \in Slots :
              /\ trapframe'[p] = IF FrameTag(p) \in D THEN NoPage ELSE trapframe[p]
              /\ mem'[p] = IF HandTag(p) \in D THEN NoPage ELSE mem[p]
              /\ argv'[p] = IF ArgvTag(p) \in D THEN {} ELSE argv[p],
           \A t \in Tables :
              /\ table'[t].root = IF RootTag(t) \in D THEN NoPage ELSE table[t].root
              /\ \A n \in Nodes : table'[t].node[n] =
                    IF NodeTag(t, n) \in D THEN NoPage ELSE table[t].node[n]
              /\ \A a \in UserVPs : table'[t].pte[a].page =
                    IF UserTag(t, a) \in D THEN NoPage ELSE table[t].pte[a].page
    PROVE  Freed(own, D) \in [Real -> Tags] /\ Accounts(Freed(own, D))'
<1> DEFINE own2 == Freed(own, D)
<1>1. own \in [Real -> Tags] /\ \A r \in Real : r \in free <=> own[r] = ListTag
  BY DEF Accounts
<1>2. /\ own2 \in [Real -> Tags]
      /\ \A r \in Real : own2[r] = IF own[r] \in D THEN ListTag ELSE own[r]
  BY <1>1, TagFacts DEF Freed
<1>3. \A r \in Real : r \in PagesWith(own, D) <=> own[r] \in D
  BY <1>1 DEF PagesWith
<1>4. ASSUME NEW g \in Tags, g # ListTag, NEW r \in Real
      PROVE  own2[r] = g <=> own[r] = g /\ g \notin D
  BY <1>2, <1>4
<1> HIDE DEF own2
<1>5. \A r \in Real : r \in free' <=> own2[r] = ListTag
  BY <1>1, <1>2, <1>3
<1>6. \A p \in Slots, r \in Real :
         /\ own2[r] = FrameTag(p) <=> own[r] = FrameTag(p) /\ FrameTag(p) \notin D
         /\ own2[r] = HandTag(p) <=> own[r] = HandTag(p) /\ HandTag(p) \notin D
         /\ own2[r] = ArgvTag(p) <=> own[r] = ArgvTag(p) /\ ArgvTag(p) \notin D
  BY <1>4, TagFacts
<1>7. SlotPages(own2)'
  BY <1>6 DEF Accounts, SlotPages
<1>8. ASSUME NEW t \in Tables PROVE PagesOfTable(own2, t, table[t])'
  <2>1. PagesOfTable(own, t, table[t])
    BY DEF Accounts
  <2>2. \A r \in Real :
           /\ own2[r] = RootTag(t) <=> own[r] = RootTag(t) /\ RootTag(t) \notin D
           /\ \A n \in Nodes :
                 own2[r] = NodeTag(t, n) <=> own[r] = NodeTag(t, n) /\ NodeTag(t, n) \notin D
           /\ \A a \in UserVPs :
                 own2[r] = UserTag(t, a) <=> own[r] = UserTag(t, a) /\ UserTag(t, a) \notin D
    BY <1>4, TagFacts
  <2> QED BY <2>1, <2>2 DEF PagesOfTable
<1> QED BY <1>2, <1>5, <1>7, <1>8 DEF Accounts, own2

\* The pages that are freed, by their tags.
LEMMA PagesHeld ==
    ASSUME NEW own, Accounts(own), FullTypeOK, EntriesOK
    PROVE  /\ DOMAIN own = Real
           /\ \A p \in Slots :
                 /\ InHand(p) \subseteq Real /\ argv[p] \subseteq Real
                 /\ \A r \in Real : /\ r \in InHand(p) <=> own[r] = HandTag(p)
                                    /\ r \in argv[p] <=> own[r] = ArgvTag(p)
                                    /\ r = trapframe[p] <=> own[r] = FrameTag(p)
           /\ \A t \in Tables :
                 /\ TablePages(table[t]) \subseteq Real
                 /\ \A r \in Real :
                       r \in TablePages(table[t])
                          <=> own[r] = RootTag(t) \/ \E n \in Nodes : own[r] = NodeTag(t, n)
<1>1. NoPage \notin Real /\ DOMAIN own = Real
  BY LoadFacts DEF Accounts
<1>2. ASSUME NEW p \in Slots
      PROVE  /\ InHand(p) \subseteq Real /\ argv[p] \subseteq Real
             /\ \A r \in Real : /\ r \in InHand(p) <=> own[r] = HandTag(p)
                                /\ r \in argv[p] <=> own[r] = ArgvTag(p)
                                /\ r = trapframe[p] <=> own[r] = FrameTag(p)
  BY <1>1 DEF Accounts, SlotPages, InHand
<1>3. ASSUME NEW t \in Tables
      PROVE  /\ TablePages(table[t]) \subseteq Real
             /\ \A r \in Real :
                   r \in TablePages(table[t])
                      <=> own[r] = RootTag(t) \/ \E n \in Nodes : own[r] = NodeTag(t, n)
  <2>1. PagesOfTable(own, t, table[t])
    BY DEF Accounts
  <2> QED BY <1>1, <2>1 DEF PagesOfTable, TablePages
<1> QED BY <1>1, <1>2, <1>3

LEMMA UserPagesHeld ==
    ASSUME NEW own, Accounts(own), FullTypeOK, EntriesOK, NEW t \in Tables,
           NEW from \in Nat, NEW to \in Nat, to <= UserPages
    PROVE  /\ PagesOf(table[t], from, to) \subseteq Real
           /\ \A r \in Real :
                 r \in PagesOf(table[t], from, to)
                    <=> \E a \in UserVPs : from <= a /\ a < to /\ own[r] = UserTag(t, a)
<1>1. NoPage \notin Real
  BY LoadFacts
<1>2. /\ \A a : a \in from..(to - 1) <=> a \in UserVPs /\ from <= a /\ a < to
      /\ UserVPs \subseteq VirtualPages
  BY VirtualPagesAre DEF UserVPs
<1>3. PagesOfTable(own, t, table[t])
  BY DEF Accounts
<1>4. \A a \in UserVPs : Mapped(table[t], a) <=> table[t].pte[a].page # NoPage
  BY <1>2, MappedIs
<1> QED BY <1>1, <1>2, <1>3, <1>4 DEF PagesOf, PagesOfTable

-----------------------------------------------------------------------------
(* A step of one process changes its own slot and call, and that of q.     *)

\* The call of r is where it was.
Rests(r) ==
    /\ pc'[r] = pc[r] /\ job'[r] = job[r] /\ np'[r] = np[r] /\ mem'[r] = mem[r]
    /\ argv'[r] = argv[r] /\ table'[New(r)] = table[New(r)]

Same(r) ==
    /\ Rests(r)
    /\ state'[r] = state[r] /\ sz'[r] = sz[r] /\ trapframe'[r] = trapframe[r]
    /\ table'[Own(r)] = table[Own(r)]

LEMMA SameCall ==
    ASSUME NEW r \in Slots, Same(r), load'.image = load.image,
           np[r] # NoSlot => table'[Own(np[r])] = table[Own(np[r])],
           CallOK(r, job[r].kind),
           ExtentOK(r, job[r].kind, job[r].va, PagesIn(job[r].sz), PagesIn(job[r].new))
    PROVE  /\ CallOK(r, job[r].kind)'
           /\ ExtentOK(r, job[r].kind, job[r].va, PagesIn(job[r].sz), PagesIn(job[r].new))'
<1> DEFINE k == job[r].kind
           v == job[r].va
           first == PagesIn(job[r].sz)
           last == PagesIn(job[r].new)
<1>1. /\ k' = k /\ v' = v /\ first' = first /\ last' = last /\ job'[r] = job[r]
      /\ PagesIn(sz[r])' = PagesIn(sz[r])
  BY DEF Same, Rests, PagesIn
<1> HIDE DEF k, v, first, last
<1>2. CallOK(r, k)'
  <2>1. CallOK(r, k)
    BY DEF k
  <2> QED BY <1>1, <2>1 DEF CallOK, Same, Rests, Mapped
<1>3. ExtentOK(r, k, v, first, last)'
  <2>1. ExtentOK(r, k, v, first, last) /\ CallOK(r, k)
    BY DEF k, v, first, last
  <2> QED BY <1>1, <2>1 DEF CallOK, ExtentOK, Same, Rests, Mapped, Below
<1> QED BY <1>2, <1>3 DEF k, v, first, last

\* A process that is in no call stays out of calls.
LEMMA IdleCall ==
    ASSUME NEW r \in Slots, Rests(r), pc[r] = "user", CallOK(r, job[r].kind),
           state'[r] # "USED" => Below(table[Own(r)], PagesIn(sz[r]))'
    PROVE  /\ CallOK(r, job[r].kind)'
           /\ ExtentOK(r, job[r].kind, job[r].va, PagesIn(job[r].sz), PagesIn(job[r].new))'
<1> DEFINE k == job[r].kind
           v == job[r].va
           first == PagesIn(job[r].sz)
           last == PagesIn(job[r].new)
<1>1. /\ k' = k /\ job'[r] = job[r] /\ k = "none"
      /\ pc'[r] = pc[r] /\ np'[r] = np[r] /\ mem'[r] = mem[r] /\ argv'[r] = argv[r]
      /\ table'[New(r)] = table[New(r)]
  BY DEF CallOK, Rests
<1>2. "none" \notin Loops
  BY DEF Loops
<1> HIDE DEF k, v, first, last
<1>3. CallOK(r, k)'
  <2>1. CallOK(r, k)
    BY DEF k
  <2> QED BY <1>1, <1>2, <2>1 DEF CallOK
<1>4. ExtentOK(r, k, v, first, last)'
  BY <1>1, <1>2 DEF ExtentOK
<1> QED BY <1>3, <1>4 DEF k, v, first, last

\* Nobody but p has the slot q in hand; p runs.
LEMMA Confined ==
    ASSUME FullTypeOK, SlotsOK, CallsOK, ExtentsOK, load'.image = load.image,
           NEW p \in Slots, NEW q, state[p] = "RUNNABLE",
           q \in Slots => np[p] = q \/ state[q] # "USED",
           \A r \in Slots \ {p, q} : Same(r),
           CallOK(p, job[p].kind)', 
           ExtentOK(p, job[p].kind, job[p].va, PagesIn(job[p].sz), PagesIn(job[p].new))',
           q \in Slots \ {p} =>
              /\ CallOK(q, job[q].kind)'
              /\ ExtentOK(q, job[q].kind, job[q].va, PagesIn(job[q].sz), PagesIn(job[q].new))'
    PROVE  CallsOK' /\ ExtentsOK'
<1>1. ASSUME NEW r \in Slots \ {p, q}
      PROVE  /\ CallOK(r, job[r].kind)'
             /\ ExtentOK(r, job[r].kind, job[r].va, PagesIn(job[r].sz), PagesIn(job[r].new))'
  <2>1. CASE np[r] = NoSlot
    BY <1>1, <2>1, SameCall DEF CallsOK, ExtentsOK
  <2>2. CASE np[r] # NoSlot
    <3>1. np[r] \in Slots /\ state[np[r]] = "USED" /\ np[r] # np[p]
      BY <2>2 DEF FullTypeOK, SlotsOK
    <3>2. np[r] \notin {p, q}
      BY <3>1
    <3>3. table'[Own(np[r])] = table[Own(np[r])]
      BY <3>1, <3>2 DEF Same
    <3> QED BY <1>1, <3>3, SameCall DEF CallsOK, ExtentsOK
  <2> QED BY <2>1, <2>2
<1> QED BY <1>1 DEF CallsOK, ExtentsOK

-----------------------------------------------------------------------------
(* kalloc and mappages.                                                    *)

\* kalloc takes a page of the list.
LEMMA KallocFacts ==
    ASSUME FullTypeOK, NEW own, Accounts(own), NEW pg \in free
    PROVE  /\ pg \in Real /\ pg \in Pages /\ pg # NoPage /\ own[pg] = ListTag
           /\ own \in [Real -> Tags] /\ free \ {pg} \subseteq Real
  BY LoadFacts DEF FullTypeOK, Accounts

LEMMA GetPageStep ==
    ASSUME IInv, NEW p \in Slots, GetPage(p)
    PROVE  IInv'
<1>0. FullTypeOK /\ EntriesOK /\ SlotsOK /\ CallsOK /\ ExtentsOK
  BY DEF IInv
<1>1. PICK pg \in free : Kalloc(pg) /\ data' = [data EXCEPT ![pg] = Content(p)]
                         /\ mem' = [mem EXCEPT ![p] = pg]
  BY DEF GetPage
<1>2. /\ pc[p] = "page" /\ pc' = [pc EXCEPT ![p] = "map"] /\ free' = free \ {pg}
      /\ UNCHANGED <<load, procs, job, np, argv, panic>>
  BY <1>1 DEF GetPage, Kalloc
<1>3. PICK own \in [Real -> Tags] : Accounts(own)
  BY DEF IInv, PagesAreOwned
<1>4. /\ pg \in Real /\ pg \in Pages /\ pg # NoPage /\ own[pg] = ListTag
      /\ free \ {pg} \subseteq Real
  BY <1>0, <1>3, KallocFacts
<1>5. Real' = Real /\ load' = load
  BY <1>2 DEF Real
<1>6. state[p] = "RUNNABLE" /\ job[p].kind \in Loops /\ mem[p] = NoPage
  BY <1>0, <1>2 DEF CallsOK, CallOK
<1>7. FullTypeOK'
  <2>1. Content(p) \in Values \cup {Junk}
    <3>1. CASE job[p].kind # "copy"
      BY <3>1, MemoryAssumption DEF Content
    <3>2. CASE job[p].kind = "copy"
      <4>1. /\ job[p].va \in VirtualPages /\ Own(p) \in Tables /\ Mapped(table[Own(p)], job[p].va)
            /\ job[p].va < UserPages
        <5>1. job[p].va \in VirtualPages /\ Own(p) \in Tables /\ job[p].new \in Nat
          BY <1>0, TableNames DEF FullTypeOK, Job
        <5>2. /\ Mapped(table[Own(p)], job[p].va) /\ job[p].va <= PagesIn(job[p].new)
              /\ job[p].va # PagesIn(job[p].new) /\ job[p].new <= MaxSize
          BY <1>0, <1>2, <1>6, <3>2 DEF ExtentsOK, ExtentOK
        <5>3. PagesIn(job[p].new) \in 0..UserPages
          BY <5>1, <5>2, SizesAre
        <5> QED BY <5>1, <5>2, <5>3, VirtualPagesAre
      <4>2. job[p].va \in UserVPs
        BY <4>1, VirtualPagesAre
      <4>3. table[Own(p)].pte[job[p].va].page \in Pages
        BY <1>0, <4>1, <4>2, MappedIs DEF EntriesOK, PTE
      <4> QED BY <1>0, <3>2, <4>3 DEF Content, Original, Own, FullTypeOK
    <3> QED BY <3>1, <3>2
  <2> QED BY <1>0, <1>1, <1>2, <1>4, <1>5, <2>1 DEF FullTypeOK, procs
<1>8. EntriesOK' /\ SlotsOK'
  BY <1>0, <1>2 DEF EntriesOK, SlotsOK, procs
<1>9. CallsOK' /\ ExtentsOK'
  <2>1. \A r \in Slots \ {p} : Same(r)
    BY <1>0, <1>1, <1>2 DEF Same, Rests, procs, FullTypeOK
  <2>2. /\ job'[p] = job[p] /\ pc'[p] = "map" /\ mem'[p] = pg /\ UNCHANGED <<state, sz, table, np, argv>>
    BY <1>0, <1>1, <1>2 DEF procs, FullTypeOK
  <2>3. CallOK(p, job[p].kind)'
    <3>1. CallOK(p, job[p].kind)
      BY <1>0 DEF CallsOK
    <3> QED BY <1>2, <1>4, <1>6, <2>2, <3>1 DEF CallOK, Loops
  <2>4. ExtentOK(p, job[p].kind, job[p].va, PagesIn(job[p].sz), PagesIn(job[p].new))'
    <3>1. ExtentOK(p, job[p].kind, job[p].va, PagesIn(job[p].sz), PagesIn(job[p].new))
      BY <1>0 DEF ExtentsOK
    <3> QED BY <1>2, <1>5, <2>2, <3>1 DEF ExtentOK, Below, Mapped, PagesIn
  <2> QED BY <1>0, <1>5, <1>6, <2>1, <2>3, <2>4, Confined
<1>10. PagesAreOwned'
  <2>1. \A r \in Real : own[r] # HandTag(p)
    BY <1>3, <1>6, LoadFacts, <1>0 DEF Accounts, SlotPages
  <2>2. \A q \in Slots :
           /\ HandTag(p) # FrameTag(q) /\ HandTag(p) # ArgvTag(q) /\ own[pg] # HandTag(q)
           /\ HandTag(p) = HandTag(q) <=> q = p
    BY <1>4, TagFacts
  <2>3. \A t \in Tables :
           /\ HandTag(p) # RootTag(t) /\ \A n \in Nodes : HandTag(p) # NodeTag(t, n)
           /\ \A a \in UserVPs : HandTag(p) # UserTag(t, a)
    BY TagFacts
  <2>4. /\ trapframe' = trapframe /\ argv' = argv /\ table' = table
        /\ \A q \in Slots : mem'[q] = IF q = p THEN pg ELSE mem[q]
    BY <1>0, <1>1, <1>2 DEF procs, FullTypeOK
  <2>5. HandTag(p) \in Tags /\ HandTag(p) # ListTag /\ HandTag(p)[1] = "hand"
    BY TagFacts
  <2>6. NoPage \notin Real
    BY <1>0, LoadFacts
  <2>7. /\ Moved(own, pg, HandTag(p)) \in [Real -> Tags]
        /\ Accounts(Moved(own, pg, HandTag(p)))'
    BY <1>2, <1>3, <1>4, <1>5, <2>1, <2>2, <2>3, <2>4, <2>5, <2>6, MovedAccounts
  <2> QED BY <1>5, <2>7 DEF PagesAreOwned
<1> QED BY <1>7, <1>8, <1>9, <1>10 DEF IInv

\* The child that p has in hand is in no call.
LEMMA ChildFacts ==
    ASSUME FullTypeOK, SlotsOK, CallsOK, NEW p \in Slots, state[p] = "RUNNABLE", np[p] # NoSlot
    PROVE  /\ np[p] \in Slots /\ np[p] # p /\ state[np[p]] = "USED" /\ pc[np[p]] = "user"
           /\ trapframe[np[p]] # NoPage /\ sz[np[p]] = 0
<1>1. np[p] \in Slots /\ state[np[p]] = "USED"
  BY DEF FullTypeOK, SlotsOK
<1> QED BY <1>1 DEF CallsOK, CallOK, SlotsOK

\* The page table on which a call works.
LEMMA OnFacts ==
    ASSUME FullTypeOK, SlotsOK, CallsOK, NEW p \in Slots, pc[p] \in {"page", "map", "done"}
    PROVE  /\ state[p] = "RUNNABLE" /\ job[p].on \in Tables
           /\ job[p].on \in {Own(p), New(p)} \/ (np[p] # NoSlot /\ job[p].on = Own(np[p]))
           /\ job[p].kind \in Loops \cup {"create"} /\ job[p].va \in VirtualPages
<1>1. CallOK(p, job[p].kind) /\ job[p] \in Job
  BY DEF FullTypeOK, CallsOK
<1> QED BY <1>1 DEF CallOK, Job, Loops

LEMMA MapNodeStep ==
    ASSUME IInv, NEW p \in Slots, MapNode(p)
    PROVE  IInv'
<1>0. FullTypeOK /\ EntriesOK /\ SlotsOK /\ CallsOK /\ ExtentsOK
  BY DEF IInv
<1>6. PICK t \in Tables, a \in VirtualPages :
      /\ t = job[p].on /\ a = job[p].va /\ state[p] = "RUNNABLE"
      /\ t \in {Own(p), New(p)} \/ (np[p] # NoSlot /\ t = Own(np[p]))
      /\ np[p] # NoSlot => np[p] \in Slots /\ state[np[p]] = "USED"
  BY <1>0, OnFacts, ChildFacts DEF MapNode
<1>1. PICK pg \in free, i \in Missing(p) :
        /\ Kalloc(pg) /\ data' = [data EXCEPT ![pg] = Zero]
        /\ table' = [table EXCEPT ![t].node[Path[a][i]] = pg]
  BY <1>6 DEF MapNode
<1>2. /\ pc[p] = "map" /\ free' = free \ {pg}
      /\ UNCHANGED <<load, state, sz, trapframe, pc, job, np, mem, argv, panic>>
  BY <1>1 DEF MapNode, Kalloc, calls
<1>3. PICK own \in [Real -> Tags] : Accounts(own)
  BY DEF IInv, PagesAreOwned
<1>4. /\ pg \in Real /\ pg \in Pages /\ pg # NoPage /\ own[pg] = ListTag
      /\ free \ {pg} \subseteq Real
  BY <1>0, <1>3, KallocFacts
<1>5. Real' = Real /\ load' = load
  BY <1>2 DEF Real
<1>7. PICK n \in Nodes : n = Path[a][i] /\ table[t].node[n] = NoPage
  BY <1>1, <1>6, PathFacts DEF Missing
<1>8. /\ table' \in [Tables -> PageTable]
      /\ \A u \in Tables : u # t => table'[u] = table[u]
      /\ table'[t].root = table[t].root /\ table'[t].pte = table[t].pte
      /\ \A m \in Nodes : table'[t].node[m] = IF m = n THEN pg ELSE table[t].node[m]
  <2>1. table \in [Tables -> PageTable]
    BY <1>0 DEF FullTypeOK
  <2>2. table' = [table EXCEPT ![t].node[n] = pg]
    BY <1>1, <1>7
  <2>3. table[t] \in PageTable
    BY <2>1
  <2> DEFINE U == [table[t] EXCEPT !.node[n] = pg]
  <2>4. /\ U \in PageTable /\ U.root = table[t].root /\ U.pte = table[t].pte
        /\ \A m \in Nodes : U.node[m] = IF m = n THEN pg ELSE table[t].node[m]
    BY <1>4, <2>3 DEF PageTable
  <2>5. table' = [table EXCEPT ![t] = U]
    BY <2>2
  <2> HIDE DEF U
  <2>6. table' \in [Tables -> PageTable] /\ table'[t] = U
        /\ \A u \in Tables : u # t => table'[u] = table[u]
    BY <2>1, <2>4, <2>5
  <2> QED BY <2>4, <2>6
<1>9. FullTypeOK'
  <2>1. data' \in [Pages -> Values \cup {Junk}]
    BY <1>0, <1>1, <1>4, MemoryAssumption DEF FullTypeOK
  <2> QED BY <1>0, <1>2, <1>4, <1>5, <1>8, <2>1 DEF FullTypeOK
<1>10. \A u \in Tables : table'[u].pte = table[u].pte
  BY <1>8
<1>11. EntriesOK'
  BY <1>0, <1>10 DEF EntriesOK
<1>12. SlotsOK' /\ CallsOK' /\ ExtentsOK'
  <2>1. \A r \in Slots \ {p} : r # np[p] => Same(r)
    BY <1>2, <1>6, <1>8, TableNames DEF Same, Rests
  <2>2. ASSUME NEW q \in Slots, np[p] = q
        PROVE  /\ q # p /\ CallOK(q, job[q].kind)'
               /\ ExtentOK(q, job[q].kind, job[q].va, PagesIn(job[q].sz), PagesIn(job[q].new))'
    <3>1. q # p /\ state[q] = "USED" /\ pc[q] = "user"
      BY <1>0, <1>6, <2>2, ChildFacts, TableNames
    <3>2. Rests(q)
      BY <1>2, <1>6, <1>8, <3>1, TableNames DEF Rests
    <3> QED BY <1>0, <1>2, <3>1, <3>2, IdleCall DEF CallsOK
  <2>3. CallOK(p, job[p].kind)'
    <3>1. CallOK(p, job[p].kind)
      BY <1>0 DEF CallsOK
    <3>2. /\ job[p].kind = "create" => t = New(p)
          /\ job[p].kind # "create" /\ t = New(p) => job[p].kind \in {"segment", "stack"}
      BY <1>0, <1>2, <1>6, <3>1, OnFacts, TableNames DEF CallOK, Loops, FullTypeOK, Job
    <3>3. /\ job[p].kind = "create" /\ np[p] # NoSlot => table'[Own(np[p])] = table[Own(np[p])]
          /\ job[p].kind \notin {"create", "segment", "stack"} =>
                table'[New(p)] = table[New(p)]
      BY <1>0, <1>8, <3>2, TableNames DEF FullTypeOK
    <3>4. \A b \in VirtualPages : Mapped(table'[New(p)], b) <=> Mapped(table[New(p)], b)
      BY <1>10, TableNames DEF Mapped
    <3>5. CallOK(p, job[p].kind)' <=> CallOK(p, job[p].kind)
      BY <1>2, <3>1, <3>3, <3>4 DEF CallOK, Mapped
    <3> QED BY <3>1, <3>5
  <2>4. ExtentOK(p, job[p].kind, job[p].va, PagesIn(job[p].sz), PagesIn(job[p].new))'
    <3>1. ExtentOK(p, job[p].kind, job[p].va, PagesIn(job[p].sz), PagesIn(job[p].new))
      BY <1>0 DEF ExtentsOK
    <3>2. np[p] # NoSlot => Own(np[p]) \in Tables
      BY <1>0, TableNames DEF FullTypeOK
    <3>3. job[p].kind = "copy" => np[p] # NoSlot
      BY <1>0 DEF CallsOK, CallOK
    <3> QED BY <1>2, <1>5, <1>10, <3>1, <3>2, <3>3, TableNames DEF ExtentOK, Below, Mapped, PagesIn
  <2>5. SlotsOK'
    <3>1. ASSUME NEW r \in Slots, state[r] = "UNUSED" PROVE table'[Own(r)] = table[Own(r)]
      <4>1. Same(r)
        BY <1>6, <2>1, <3>1, TableNames
      <4> QED BY <4>1 DEF Same
    <3> QED BY <1>0, <1>2, <3>1 DEF SlotsOK
  <2>6. CallsOK' /\ ExtentsOK'
    <3>1. load'.image = load.image
      BY <1>5
    <3>2. np[p] \in Slots => np[p] # NoSlot
      BY TableNames
    <3>3. CASE np[p] = NoSlot
      <4>1. \A r \in Slots \ {p, p} : Same(r)
        BY <2>1, <3>3, TableNames
      <4> QED BY <1>0, <1>6, <2>3, <2>4, <3>1, <4>1, Confined
    <3>4. CASE np[p] # NoSlot
      <4>1. PICK q \in Slots : q = np[p]
        BY <1>6, <3>4
      <4>2. \A r \in Slots \ {p, q} : Same(r)
        BY <2>1, <4>1
      <4> QED BY <1>0, <1>6, <2>2, <2>3, <2>4, <3>1, <4>1, <4>2, Confined
    <3> QED BY <3>3, <3>4
  <2> QED BY <2>5, <2>6
<1>13. PagesAreOwned'
  <2> DEFINE o == NodeTag(t, n)
  <2>1. o \in Tags /\ o[1] = "node" /\ o[2] = t /\ o[3] = n
    BY <1>6, <1>7, TagFacts
  <2>2. \A r \in Real : own[r] # o
    BY <1>3, <1>6, <1>7, <1>0, LoadFacts DEF Accounts, PagesOfTable
  <2> HIDE DEF o
  <2>3. \A q \in Slots : o # FrameTag(q) /\ o # ArgvTag(q) /\ o # HandTag(q) /\ own[pg] # HandTag(q)
    BY <1>4, <2>1, TagFacts
  <2>4. \A u \in Tables :
           /\ o # RootTag(u)
           /\ \A m \in Nodes : o = NodeTag(u, m) <=> u = t /\ m = n
           /\ \A b \in UserVPs : o # UserTag(u, b)
    BY <1>6, <1>7, <2>1, TagFacts DEF o
  <2>5. \A u \in Tables :
           /\ table'[u].root = table[u].root /\ table'[u].pte = table[u].pte
           /\ \A m \in Nodes : table'[u].node[m] = IF u = t /\ m = n THEN pg ELSE table[u].node[m]
    BY <1>8
  <2>6. NoPage \notin Real /\ o # ListTag
    BY <1>0, <2>1, LoadFacts, TagFacts
  <2>7. /\ Moved(own, pg, o) \in [Real -> Tags]
        /\ Accounts(Moved(own, pg, o))'
    <3>1. \A q \in Slots :
             /\ trapframe'[q] = IF o = FrameTag(q) THEN pg ELSE trapframe[q]
             /\ mem'[q] = IF o = HandTag(q) THEN pg
                          ELSE IF own[pg] = HandTag(q) THEN NoPage ELSE mem[q]
             /\ argv'[q] = IF o = ArgvTag(q) THEN argv[q] \cup {pg} ELSE argv[q]
      BY <1>2, <2>3
    <3>2. \A u \in Tables :
             /\ table'[u].root = IF o = RootTag(u) THEN pg ELSE table[u].root
             /\ \A m \in Nodes :
                   table'[u].node[m] = IF o = NodeTag(u, m) THEN pg ELSE table[u].node[m]
             /\ \A b \in UserVPs : table'[u].pte[b].page =
                   IF o = UserTag(u, b) THEN pg ELSE table[u].pte[b].page
      BY <2>4, <2>5
    <3> QED BY <1>2, <1>3, <1>4, <1>5, <2>1, <2>2, <2>6, <3>1, <3>2, MovedAccounts
  <2> QED BY <1>5, <2>7 DEF PagesAreOwned
<1> QED BY <1>9, <1>11, <1>12, <1>13 DEF IInv

\* The step of p changes its slot and its call, and the slot of q, which nobody else has.
LEMMA CallStep ==
    ASSUME FullTypeOK, SlotsOK, CallsOK, ExtentsOK, load'.image = load.image,
           NEW p \in Slots, NEW q, state[p] = "RUNNABLE",
           q \in Slots => /\ q # p /\ (np[p] = q \/ state[q] # "USED")
                          /\ state[q] # "RUNNABLE" /\ Rests(q)
                          /\ state'[q] # "USED" => Below(table[Own(q)], PagesIn(sz[q]))',
           \A r \in Slots : r \notin {p, q} => Same(r),
           CallOK(p, job[p].kind)',
           ExtentOK(p, job[p].kind, job[p].va, PagesIn(job[p].sz), PagesIn(job[p].new))'
    PROVE  CallsOK' /\ ExtentsOK'
<1>1. ASSUME q \in Slots
      PROVE  /\ CallOK(q, job[q].kind)'
             /\ ExtentOK(q, job[q].kind, job[q].va, PagesIn(job[q].sz), PagesIn(job[q].new))'
  <2>1. CallOK(q, job[q].kind) /\ pc[q] = "user"
    BY <1>1 DEF CallsOK, CallOK
  <2> QED BY <1>1, <2>1, IdleCall
<1>2. \A r \in Slots \ {p, q} : Same(r)
  OBVIOUS
<1> QED BY <1>1, <1>2, Confined

\* The slot that a call has in hand.
LEMMA InHandFacts ==
    ASSUME FullTypeOK, SlotsOK, CallsOK, NEW p \in Slots, state[p] = "RUNNABLE"
    PROVE  \E q \in Slots \cup {NoSlot} :
              /\ q = np[p]
              /\ q \in Slots <=> q # NoSlot
              /\ q \in Slots => /\ q # p /\ state[q] = "USED" /\ pc[q] = "user"
                                /\ trapframe[q] # NoPage /\ sz[q] = 0
  BY ChildFacts, TableNames DEF FullTypeOK

\* A loop is at a page below its end, which is not mapped yet.
LEMMA LoopFacts ==
    ASSUME FullTypeOK, EntriesOK, SlotsOK, CallsOK, ExtentsOK, NEW p \in Slots,
           pc[p] \in {"page", "map"}, job[p].kind # "create"
    PROVE  /\ job[p].kind \in Loops /\ job[p].va \in UserVPs
           /\ job[p].va < PagesIn(job[p].new) /\ PagesIn(job[p].new) \in 0..UserPages
           /\ ~Mapped(table[job[p].on], job[p].va)
           /\ job[p].kind = "copy" =>
                 /\ Original(p) \in PTE /\ Original(p).page \in Pages
                 /\ Original(p) = table[Own(p)].pte[job[p].va]
<1>1. /\ CallOK(p, job[p].kind)
      /\ ExtentOK(p, job[p].kind, job[p].va, PagesIn(job[p].sz), PagesIn(job[p].new))
      /\ job[p] \in Job
  BY DEF CallsOK, ExtentsOK, FullTypeOK
<1>2. job[p].kind \in Loops
  BY <1>1, OnFacts
<1>3. /\ job[p].va \in VirtualPages /\ job[p].new \in 0..MaxSize
      /\ job[p].va <= PagesIn(job[p].new) /\ job[p].va # PagesIn(job[p].new)
  BY <1>1, <1>2 DEF ExtentOK, Job
<1>4. PagesIn(job[p].new) \in 0..UserPages
  BY <1>3, SizesAre
<1>5. job[p].va < PagesIn(job[p].new) /\ job[p].va \in UserVPs
  <2>1. job[p].va \in Nat /\ UserPages \in Nat
    BY <1>3, VirtualPagesAre
  <2> QED BY <1>3, <1>4, <2>1 DEF UserVPs
<1>6. ~Mapped(table[job[p].on], job[p].va)
  <2>1. state[p] = "RUNNABLE"
    BY <1>1 DEF CallOK
  <2>2. CASE job[p].kind = "fault"
    BY <1>1, <2>2 DEF CallOK, ExtentOK, Loops
  <2>3. CASE job[p].kind = "grow"
    BY <1>1, <1>5, <2>1, <2>3 DEF CallOK, ExtentOK, Below, UserVPs
  <2>4. CASE job[p].kind = "copy"
    BY <1>1, <1>5, <2>4 DEF CallOK, ExtentOK, Below, UserVPs
  <2>5. CASE job[p].kind \in {"segment", "stack"}
    BY <1>1, <1>5, <2>5 DEF CallOK, ExtentOK, UserVPs
  <2> QED BY <1>2, <2>2, <2>3, <2>4, <2>5 DEF Loops
<1>7. ASSUME job[p].kind = "copy"
      PROVE  /\ Original(p) \in PTE /\ Original(p).page \in Pages
             /\ Original(p) = table[Own(p)].pte[job[p].va]
  <2>1. Original(p) = table[Own(p)].pte[job[p].va] /\ Mapped(table[Own(p)], job[p].va)
    BY <1>1, <1>7 DEF ExtentOK, Original, Own
  <2>2. Own(p) \in Tables
    BY TableNames
  <2> QED BY <1>3, <1>5, <2>1, <2>2, MappedIs DEF EntriesOK, PTE
<1> QED BY <1>2, <1>4, <1>5, <1>6, <1>7

\* A set of numbers that is not empty has a least one.
LEMMA LeastNumber ==
    ASSUME NEW S \in SUBSET Nat, S # {}
    PROVE  \E i \in S : \A j \in S : i <= j
<1>1. PICK i \in S : \A j \in S : ~ (<<j, i>> \in OpToRel(<, Nat))
  BY NatLessThanWellFounded, WFMin
<1>2. ASSUME NEW j \in S PROVE i <= j
  <2>1. ~ (<<j, i>> \in {r \in Nat \X Nat : r[1] < r[2]})
    BY <1>1 DEF OpToRel
  <2> QED BY <2>1
<1> QED BY <1>2

\* uvmcopy goes to the next page that the parent has, or to the end.
LEMMA NextMappedFacts ==
    ASSUME FullTypeOK, NEW p \in Slots, NEW a \in Nat, a <= PagesIn(sz[p])
    PROVE  /\ NextMapped(p, a) \in a..PagesIn(sz[p])
           /\ NextMapped(p, a) < PagesIn(sz[p]) => Mapped(table[Own(p)], NextMapped(p, a))
<1> DEFINE N == PagesIn(sz[p])
           T == table[Own(p)]
           S == {b \in a..N : b < N => Mapped(T, b)}
<1>1. N \in Nat /\ a <= N
  BY SizesAre DEF FullTypeOK
<1> HIDE DEF N, T
<1>2. N \in S /\ S \subseteq Nat
  BY <1>1
<1>3. PICK b \in S : \A c \in S : b <= c
  <2> HIDE DEF S
  <2> QED BY <1>2, LeastNumber
<1>4. ASSUME NEW c \in a..(b - 1) PROVE ~Mapped(T, c)
  BY <1>1, <1>3, <1>4
<1>5. b \in a..N /\ (b < N => Mapped(T, b))
  BY <1>3
<1>6. NextMapped(p, a) = CHOOSE d \in a..N : /\ d < N => Mapped(T, d)
                                            /\ \A c \in a..(d - 1) : ~Mapped(T, c)
  BY DEF NextMapped, N, T, Own
<1>7. NextMapped(p, a) \in a..N /\ (NextMapped(p, a) < N => Mapped(T, NextMapped(p, a)))
  BY <1>4, <1>5, <1>6
<1> QED BY <1>7 DEF N, T

\* The call of p is at j after the step.
LEMMA CallAt ==
    ASSUME NEW p \in Slots, NEW j, job'[p] = j, CallOK(p, j.kind)',
           ExtentOK(p, j.kind, j.va, PagesIn(j.sz), PagesIn(j.new))'
    PROVE  /\ CallOK(p, job[p].kind)'
           /\ ExtentOK(p, job[p].kind, job[p].va, PagesIn(job[p].sz), PagesIn(job[p].new))'
<1>1. /\ job'[p].kind = j.kind /\ job'[p].va = j.va /\ PagesIn(job'[p].sz) = PagesIn(j.sz)
      /\ PagesIn(job'[p].new) = PagesIn(j.new)
  OBVIOUS
<1>2. PagesIn(job[p].sz)' = PagesIn(job'[p].sz) /\ PagesIn(job[p].new)' = PagesIn(job'[p].new)
  BY DEF PagesIn
<1>3. CallOK(p, job[p].kind)'
  BY <1>1 DEF CallOK
<1>4. ExtentOK(p, job[p].kind, job[p].va, PagesIn(job[p].sz), PagesIn(job[p].new))'
  BY <1>1, <1>2 DEF ExtentOK
<1> QED BY <1>3, <1>4

\* The entry a of a page table becomes e.
WithEntry(T, a, e) == [T EXCEPT !.pte[a] = e]

LEMMA EntrySet ==
    ASSUME NEW T \in PageTable, NEW a \in VirtualPages, NEW e \in PTE
    PROVE  /\ WithEntry(T, a, e) \in PageTable
           /\ WithEntry(T, a, e).root = T.root /\ WithEntry(T, a, e).node = T.node
           /\ \A b \in VirtualPages : WithEntry(T, a, e).pte[b] = IF b = a THEN e ELSE T.pte[b]
  BY DEF PageTable, WithEntry

\* The entry that mappages writes.
LEMMA PteFacts ==
    ASSUME FullTypeOK, EntriesOK, SlotsOK, CallsOK, ExtentsOK, NEW p \in Slots,
           pc[p] = "map", job[p].kind # "create"
    PROVE  Pte(p) \in PTE /\ Pte(p).page = mem[p] /\ mem[p] \in Pages /\ mem[p] # NoPage
<1>1. mem[p] \in Pages /\ mem[p] # NoPage
  BY DEF CallsOK, CallOK, FullTypeOK
<1>2. CASE job[p].kind = "copy"
  <2>1. Original(p) \in PTE
    BY <1>2, LoopFacts
  <2>2. Pte(p) = [Original(p) EXCEPT !.page = mem[p]]
    BY <1>2 DEF Pte
  <2> QED BY <1>1, <2>1, <2>2 DEF PTE
<1>3. CASE job[p].kind = "segment"
  <2>1. job[p].seg \in DOMAIN load.image /\ load.image \in Seq(Segments)
    BY <1>3, LoopFacts, LoadFacts DEF ExtentsOK, ExtentOK
  <2>2. load.image[job[p].seg].write \in BOOLEAN
    <3>1. load.image[job[p].seg] \in Segments
      BY <2>1
    <3> QED BY <3>1 DEF Segments
  <2>3. Pte(p) = [page |-> mem[p], user |-> TRUE, write |-> load.image[job[p].seg].write]
    BY <1>3 DEF Pte
  <2> QED BY <1>1, <2>2, <2>3 DEF PTE
<1>4. CASE job[p].kind \notin {"copy", "segment"}
  <2>1. Pte(p) = [page |-> mem[p], user |-> TRUE, write |-> TRUE]
    BY <1>4 DEF Pte
  <2> QED BY <1>1, <2>1 DEF PTE
<1> QED BY <1>2, <1>3, <1>4

LEMMA MapLeafStep ==
    ASSUME IInv, NEW p \in Slots, MapLeaf(p)
    PROVE  IInv'
<1>0. FullTypeOK /\ EntriesOK /\ SlotsOK /\ CallsOK /\ ExtentsOK
  BY DEF IInv
<1>1. /\ pc[p] = "map" /\ job[p].kind # "create" /\ state[p] = "RUNNABLE"
      /\ UNCHANGED <<load, free, data, state, sz, trapframe, np, argv>>
  BY <1>0, OnFacts DEF MapLeaf, kmem
<1>2. PICK q \in Slots \cup {NoSlot} :
         /\ q = np[p]
         /\ q \in Slots <=> q # NoSlot
         /\ q \in Slots => q # p /\ state[q] = "USED" /\ pc[q] = "user"
  BY <1>0, <1>1, InHandFacts
<1>3. PICK j \in Job : j = job[p]
  BY <1>0 DEF FullTypeOK
<1>4. PICK t \in Tables, a \in UserVPs :
      /\ t = j.on /\ a = j.va /\ a \in VirtualPages /\ a \in Nat
      /\ CallOK(p, j.kind) /\ j.kind \in Loops
      /\ ExtentOK(p, j.kind, a, PagesIn(j.sz), PagesIn(j.new))
      /\ a < PagesIn(j.new) /\ PagesIn(j.new) \in 0..UserPages
      /\ ~Mapped(table[t], a)
      /\ t \in {Own(p), New(p)} \/ (q \in Slots /\ t = Own(q))
  <2>1. /\ CallOK(p, j.kind)
        /\ ExtentOK(p, j.kind, j.va, PagesIn(j.sz), PagesIn(j.new))
    BY <1>0, <1>3 DEF CallsOK, ExtentsOK
  <2>2. /\ j.kind \in Loops /\ j.va \in UserVPs
        /\ j.va < PagesIn(j.new) /\ PagesIn(j.new) \in 0..UserPages
        /\ ~Mapped(table[j.on], j.va)
    BY <1>0, <1>1, <1>3, LoopFacts
  <2>3. j.on \in Tables /\ (j.on \in {Own(p), New(p)} \/ (np[p] # NoSlot /\ j.on = Own(np[p])))
    BY <1>0, <1>1, <1>3, OnFacts
  <2>4. j.va \in VirtualPages /\ j.va \in Nat
    BY <2>2, VirtualPagesAre
  <2> QED BY <1>2, <2>1, <2>2, <2>3, <2>4
<1>5. PICK e \in PTE : e = Pte(p)
  BY <1>0, <1>1, PteFacts
<1>6. e.page = mem[p] /\ mem[p] \in Pages /\ mem[p] # NoPage /\ e # NoPte
  BY <1>0, <1>1, <1>5, PteFacts, NoTableFacts
<1>7. /\ table' \in [Tables -> PageTable]
      /\ \A u \in Tables : u # t => table'[u] = table[u]
      /\ table'[t].root = table[t].root /\ table'[t].node = table[t].node
      /\ \A c \in VirtualPages : table'[t].pte[c] = IF c = a THEN e ELSE table[t].pte[c]
  <2>1. table[t] \in PageTable /\ a \in VirtualPages
    BY <1>0, <1>4 DEF FullTypeOK
  <2>2. PICK U \in PageTable :
           /\ U = WithEntry(table[t], a, e)
           /\ U.root = table[t].root /\ U.node = table[t].node
           /\ \A c \in VirtualPages : U.pte[c] = IF c = a THEN e ELSE table[t].pte[c]
    BY <2>1, EntrySet
  <2>3. table' = [table EXCEPT ![t] = U]
    BY <1>3, <1>4, <1>5, <2>2 DEF MapLeaf, WithEntry
  <2>4. table' \in [Tables -> PageTable] /\ table'[t] = U
        /\ \A u \in Tables : u # t => table'[u] = table[u]
    BY <1>0, <2>3 DEF FullTypeOK
  <2> QED BY <2>2, <2>4
<1>8. PICK b \in Nat :
         /\ b = NextPage(p) /\ a < b /\ b <= PagesIn(j.new)
         /\ j.kind # "copy" => b = a + 1
         /\ j.kind = "copy" /\ b # PagesIn(j.new) => Mapped(table[Own(p)], b)
  <2>2. CASE j.kind # "copy"
    BY <1>3, <1>4, <2>2 DEF NextPage
  <2>3. CASE j.kind = "copy"
    <3>1. PagesIn(j.new) = PagesIn(sz[p]) /\ NextPage(p) = NextMapped(p, a + 1)
      BY <1>3, <1>4, <2>3 DEF CallOK, NextPage
    <3> QED BY <1>0, <1>4, <2>3, <3>1, NextMappedFacts
  <2> QED BY <2>2, <2>3
<1>9. PICK i \in Job : i = [j EXCEPT !.va = b]
  <2>1. b \in VirtualPages
    BY <1>4, <1>8, VirtualPagesAre DEF VirtualPages, TRAMPOLINE
  <2> QED BY <2>1 DEF Job
<1>10. /\ job' = [job EXCEPT ![p] = i] /\ mem' = [mem EXCEPT ![p] = NoPage]
       /\ pc' = [pc EXCEPT ![p] = IF b < PagesIn(i.new) THEN "page" ELSE "done"]
       /\ i.kind = j.kind /\ i.on = j.on /\ i.va = b /\ i.seg = j.seg /\ i.sz = j.sz /\ i.new = j.new
  BY <1>3, <1>8, <1>9 DEF MapLeaf, Continue, Job
<1>11. panic' = FALSE
  <2>1. panic = FALSE /\ panic' = (panic \/ Mapped(table[job[p].on], job[p].va))
    BY <1>0 DEF FullTypeOK, MapLeaf
  <2>2. ~Mapped(table[job[p].on], job[p].va)
    BY <1>3, <1>4
  <2> QED BY <2>1, <2>2
<1>12. Real' = Real
  BY <1>1 DEF Real
<1>13. FullTypeOK'
  <2>1. /\ pc' \in [Slots -> {"user", "argv", "root", "page", "map", "done"}]
        /\ job' \in [Slots -> Job] /\ mem' \in [Slots -> Pages \cup {NoPage}]
    BY <1>0, <1>10 DEF FullTypeOK
  <2> QED BY <1>0, <1>1, <1>7, <1>11, <1>12, <2>1 DEF FullTypeOK
<1>14. EntriesOK'
  <2>1. ASSUME NEW u \in Tables, NEW c \in VirtualPages
        PROVE  /\ table'[u].pte[c].page = NoPage => table'[u].pte[c] = NoPte
               /\ c \in UserVPs => table'[u].pte[c].page # Kernel
    <3>1. e.page # NoPage /\ e.page # Kernel
      BY <1>6 DEF Pages, Kernel
    <3>2. table'[u].pte[c] = IF u = t /\ c = a THEN e ELSE table[u].pte[c]
      BY <1>7
    <3> QED BY <1>0, <3>1, <3>2 DEF EntriesOK
  <2> QED BY <2>1 DEF EntriesOK
<1>15. \A r \in Slots : r # p => /\ Rests(r)
                                 /\ r # q => Same(r)
  <2>1. ASSUME NEW r \in Slots, r # p
        PROVE  /\ pc'[r] = pc[r] /\ job'[r] = job[r] /\ mem'[r] = mem[r]
               /\ table'[New(r)] = table[New(r)]
               /\ r # q => table'[Own(r)] = table[Own(r)]
    BY <1>0, <1>4, <1>7, <1>10, <2>1, TableNames DEF FullTypeOK
  <2> QED BY <1>1, <2>1 DEF Same, Rests
<1>16. SlotsOK'
  <2>1. ASSUME NEW r \in Slots, state[r] = "UNUSED" PROVE table'[Own(r)] = table[Own(r)]
    BY <1>1, <1>2, <1>15, <2>1 DEF Same
  <2> QED BY <1>0, <1>1, <2>1 DEF SlotsOK
<1>17. CallsOK' /\ ExtentsOK'
  <2>2. /\ job'[p] = i /\ mem'[p] = NoPage /\ pc'[p] = IF b < PagesIn(i.new) THEN "page" ELSE "done"
    BY <1>0, <1>10 DEF FullTypeOK
  <2>3. CallOK(p, i.kind)'
    <3>1. /\ j.kind \notin {"create", "segment", "stack"} => table'[New(p)] = table[New(p)]
          /\ j.kind # "create" /\ "create" \notin Loops /\ "none" \notin Loops
      <4>1. CASE j.kind \in {"fault", "grow"}
        <5>1. t = Own(p)
          BY <1>3, <1>4, <4>1 DEF CallOK
        <5> QED BY <1>7, <5>1, TableNames, <4>1 DEF Loops
      <4>2. CASE j.kind = "copy"
        <5>1. t = Own(q) /\ q \in Slots
          BY <1>2, <1>3, <1>4, <4>2 DEF CallOK
        <5> QED BY <1>7, <5>1, TableNames, <4>2 DEF Loops
      <4>3. CASE j.kind \in {"segment", "stack"}
        BY <4>3 DEF Loops
      <4> QED BY <1>4, <4>1, <4>2, <4>3 DEF Loops
    <3> QED BY <1>1, <1>3, <1>4, <1>10, <2>2, <3>1 DEF CallOK
  <2>4. ExtentOK(p, i.kind, i.va, PagesIn(i.sz), PagesIn(i.new))'
    <3>1. PICK first \in Nat, last \in Nat :
             first = PagesIn(i.sz) /\ last = PagesIn(i.new)
      BY Rounding DEF Job
    <3>2. /\ ExtentOK(p, j.kind, a, first, last)
          /\ CallOK(p, j.kind)
          /\ a < last /\ a < b /\ b <= last
          /\ j.kind # "copy" => b = a + 1
          /\ j.kind = "copy" /\ b # last => Mapped(table[Own(p)], b)
      BY <1>4, <1>8, <1>10, <3>1
    <3>3. \A u \in Tables, c \in UserVPs :
             Mapped(table'[u], c) <=> Mapped(table[u], c) \/ (u = t /\ c = a)
      <4>1. ASSUME NEW u \in Tables, NEW c \in UserVPs, u # t
            PROVE  Mapped(table'[u], c) <=> Mapped(table[u], c)
        <5>1. table'[u] = table[u]
          BY <1>7, <4>1
        <5> QED BY <5>1
      <4>2. ASSUME NEW c \in UserVPs
            PROVE  Mapped(table'[t], c) <=> Mapped(table[t], c) \/ c = a
        <5>1. table'[t].pte[c] = IF c = a THEN e ELSE table[t].pte[c]
          BY <1>7, VirtualPagesAre
        <5> QED BY <1>6, <5>1 DEF Mapped
      <4> QED BY <4>1, <4>2
    <3>4. /\ UserVPs \subseteq Nat /\ PagesIn(sz[p]) \in Nat
      BY <1>0, SizesAre DEF UserVPs, FullTypeOK
    <3>5. /\ Own(p) \in Tables /\ New(p) \in Tables /\ Own(p) # New(p)
          /\ q \in Slots => Own(q) \in Tables /\ Own(q) # Own(p)
      BY <1>2, TableNames
    <3>6. /\ pc[p] = "map" /\ state'[p] = "RUNNABLE" /\ sz'[p] = sz[p] /\ job'[p] = i
          /\ pc'[p] = "done" <=> b = last
          /\ i.kind = j.kind /\ i.sz = j.sz /\ i.new = j.new /\ i.seg = j.seg
          /\ np'[p] = np[p] /\ load' = load /\ state[p] = "RUNNABLE"
      BY <1>1, <1>10, <2>2, <3>1, <3>2
    <3>7. ASSUME j.kind = "fault" PROVE ExtentOK(p, j.kind, b, first, last)'
      <4>1. t = Own(p) /\ a < PagesIn(sz[p]) /\ b = last /\ j.new <= MaxSize
            /\ Below(table[Own(p)], PagesIn(sz[p]))
        BY <1>3, <1>4, <3>2, <3>6, <3>7 DEF CallOK, ExtentOK, Loops
      <4>2. Below(table'[Own(p)], PagesIn(sz[p]))
        BY <3>3, <3>5, <4>1 DEF Below
      <4> QED BY <3>6, <3>7, <4>1, <4>2 DEF ExtentOK, PagesIn
    <3>8. ASSUME j.kind = "grow" PROVE ExtentOK(p, j.kind, b, first, last)'
      <4>1. t = Own(p) /\ j.new <= MaxSize /\ Below(table[Own(p)], a) /\ first <= a
            /\ j.sz = sz[p]
        BY <1>3, <1>4, <3>2, <3>6, <3>8 DEF CallOK, ExtentOK, Loops
      <4>2. Below(table'[Own(p)], b)
        <5>1. a \in Nat /\ b = a + 1
          BY <1>4, <3>2, <3>8
        <5>2. ASSUME NEW c \in UserVPs, Mapped(table'[t], c) PROVE c < b
          <6>1. c \in Nat
            BY <3>4
          <6>2. c < a \/ c = a
            BY <3>3, <4>1, <5>2 DEF Below
          <6> QED BY <5>1, <6>1, <6>2
        <5> QED BY <4>1, <5>2 DEF Below
      <4> QED BY <1>4, <3>2, <3>6, <3>8, <4>1, <4>2 DEF ExtentOK
    <3>9. ASSUME j.kind = "copy" PROVE ExtentOK(p, j.kind, b, first, last)'
      <4>1. /\ q \in Slots /\ t = Own(q) /\ j.new <= MaxSize /\ Below(table[t], a)
            /\ Below(table[Own(p)], PagesIn(sz[p]))
        BY <1>2, <1>3, <1>4, <3>2, <3>6, <3>9 DEF CallOK, ExtentOK, Loops
      <4>2. table'[Own(p)] = table[Own(p)]
        BY <1>7, <3>5, <4>1
      <4>3. Below(table'[t], b)
        <5>1. a \in Nat /\ b \in Nat /\ a < b
          BY <1>4, <3>2, <3>4
        <5>2. ASSUME NEW c \in UserVPs, Mapped(table'[t], c) PROVE c < b
          <6>1. c \in Nat
            BY <3>4
          <6>2. c < a \/ c = a
            BY <3>3, <4>1, <5>2 DEF Below
          <6> QED BY <5>1, <6>1, <6>2
        <5> QED BY <5>2 DEF Below
      <4> QED BY <1>2, <3>2, <3>6, <3>9, <4>1, <4>2, <4>3 DEF ExtentOK, PagesIn
    <3>10. ASSUME j.kind \in {"segment", "stack"} PROVE ExtentOK(p, j.kind, b, first, last)'
      <4>1. /\ t = New(p) /\ j.new <= MaxSize /\ first <= a
            /\ \A c \in UserVPs : Mapped(table[t], c) <=> c < a
            /\ Below(table[Own(p)], PagesIn(sz[p]))
            /\ j.kind = "segment" => /\ j.seg \in DOMAIN load.image
                                     /\ j.new = load.image[j.seg].end
            /\ j.kind = "stack" => last = first + 2
        BY <1>3, <1>4, <3>2, <3>6, <3>10 DEF CallOK, ExtentOK, Loops
      <4>2. table'[Own(p)] = table[Own(p)]
        BY <1>7, <3>5, <4>1
      <4>3. \A c \in UserVPs : Mapped(table'[t], c) <=> c < b
        BY <1>4, <3>2, <3>3, <3>4, <3>10, <4>1
      <4> QED BY <1>4, <3>2, <3>6, <3>10, <4>1, <4>2, <4>3 DEF ExtentOK, PagesIn
    <3>11. ExtentOK(p, j.kind, b, first, last)'
      BY <1>4, <3>7, <3>8, <3>9, <3>10 DEF Loops
    <3> QED BY <1>10, <3>1, <3>11
  <2>5. /\ CallOK(p, job[p].kind)'
        /\ ExtentOK(p, job[p].kind, job[p].va, PagesIn(job[p].sz), PagesIn(job[p].new))'
    BY <2>2, <2>3, <2>4, CallAt
  <2>6. /\ load'.image = load.image
        /\ \A r \in Slots : r \notin {p, q} => Same(r)
    BY <1>1, <1>15
  <2>7. q \in Slots => /\ q # p /\ np[p] = q /\ state[q] # "RUNNABLE" /\ Rests(q)
                       /\ state'[q] = "USED"
    <3>1. state' = state
      BY <1>1
    <3> QED BY <1>2, <1>15, <3>1
  <2> QED BY <1>0, <1>1, <2>5, <2>6, <2>7, CallStep
<1>18. PagesAreOwned'
  <2>1. PICK own \in [Real -> Tags], pg \in Real :
           /\ Accounts(own) /\ pg = mem[p] /\ own[pg] = HandTag(p)
    <3>1. PICK own \in [Real -> Tags] : Accounts(own)
      BY DEF IInv, PagesAreOwned
    <3> QED BY <1>6, <3>1 DEF Accounts, SlotPages
  <2>2. PICK o \in Tags : o = UserTag(t, a) /\ o[1] = "user"
    BY TagFacts
  <2>3. own[pg][1] = "hand" /\ o # ListTag /\ o[1] # "argv" /\ NoPage \notin Real
    BY <1>0, <2>1, <2>2, LoadFacts, TagFacts
  <2>4. \A r \in Real : own[r] # o
    <3>1. table[t].pte[a].page = NoPage
      BY <1>0, <1>4, MappedIs
    <3> QED BY <2>1, <2>2, <2>3, <3>1 DEF Accounts, PagesOfTable
  <2>5. \A r \in Slots :
           /\ o # FrameTag(r) /\ o # ArgvTag(r) /\ o # HandTag(r)
           /\ own[pg] = HandTag(r) <=> r = p
    BY <2>1, <2>2, TagFacts
  <2>6. \A u \in Tables :
           /\ o # RootTag(u)
           /\ \A n \in Nodes : o # NodeTag(u, n)
           /\ \A c \in UserVPs : o = UserTag(u, c) <=> u = t /\ c = a
    BY <2>2, TagFacts
  <2>7. free' = free \ {pg}
    <3>1. pg \notin free
      BY <2>1, TagFacts DEF Accounts
    <3> QED BY <1>1, <3>1
  <2>8. \A r \in Slots :
           /\ trapframe'[r] = IF o = FrameTag(r) THEN pg ELSE trapframe[r]
           /\ mem'[r] = IF o = HandTag(r) THEN pg
                        ELSE IF own[pg] = HandTag(r) THEN NoPage ELSE mem[r]
           /\ argv'[r] = IF o = ArgvTag(r) THEN argv[r] \cup {pg} ELSE argv[r]
    <3>1. \A r \in Slots : mem'[r] = IF r = p THEN NoPage ELSE mem[r]
      BY <1>0, <1>10 DEF FullTypeOK
    <3> QED BY <1>1, <2>5, <3>1
  <2>9. \A u \in Tables :
           /\ table'[u].root = IF o = RootTag(u) THEN pg ELSE table[u].root
           /\ \A n \in Nodes :
                 table'[u].node[n] = IF o = NodeTag(u, n) THEN pg ELSE table[u].node[n]
           /\ \A c \in UserVPs : table'[u].pte[c].page =
                 IF o = UserTag(u, c) THEN pg ELSE table[u].pte[c].page
    BY <1>6, <1>7, <2>1, <2>6, VirtualPagesAre
  <2>10. /\ Moved(own, pg, o) \in [Real -> Tags]
         /\ Accounts(Moved(own, pg, o))'
    BY <1>12, <2>1, <2>3, <2>4, <2>7, <2>8, <2>9, MovedAccounts
  <2> QED BY <1>12, <2>10 DEF PagesAreOwned
<1> QED BY <1>13, <1>14, <1>16, <1>17, <1>18 DEF IInv

-----------------------------------------------------------------------------
(* Steps that move no page.                                                *)

\* A process that runs has nothing in hand.
LEMMA RunningFacts ==
    ASSUME FullTypeOK, CallsOK, ExtentsOK, NEW p \in Slots, Running(p)
    PROVE  /\ state[p] = "RUNNABLE" /\ pc[p] = "user" /\ job[p].kind = "none"
           /\ np[p] = NoSlot /\ argv[p] = {} /\ mem[p] = NoPage
           /\ table[New(p)] = NoTable
           /\ Below(table[Own(p)], PagesIn(sz[p]))
           /\ sz[p] \in 0..MaxSize /\ PagesIn(sz[p]) \in 0..UserPages
           /\ sz[p] \in Nat /\ PagesIn(sz[p]) \in Nat
<1>1. /\ CallOK(p, job[p].kind) /\ state[p] = "RUNNABLE" /\ pc[p] = "user"
      /\ ExtentOK(p, job[p].kind, job[p].va, PagesIn(job[p].sz), PagesIn(job[p].new))
  BY DEF Running, CallsOK, ExtentsOK
<1>2. /\ job[p].kind = "none" /\ np[p] = NoSlot /\ argv[p] = {} /\ mem[p] = NoPage
      /\ table[New(p)] = NoTable
  BY <1>1 DEF CallOK
<1>3. Below(table[Own(p)], PagesIn(sz[p]))
  BY <1>1, <1>2 DEF ExtentOK
<1>4. sz[p] \in 0..MaxSize
  BY DEF FullTypeOK
<1>5. PagesIn(sz[p]) \in 0..UserPages /\ sz[p] \in Nat
  BY <1>4, SizesAre
<1> QED BY <1>1, <1>2, <1>3, <1>4, <1>5

LEMMA OwnedStays ==
    ASSUME IInv, Real' = Real, UNCHANGED <<free, trapframe, mem, argv>>,
           \A t \in Tables : 
              /\ table'[t].root = table[t].root
              /\ \A n \in Nodes : table'[t].node[n] = table[t].node[n]
              /\ \A a \in UserVPs : table'[t].pte[a].page = table[t].pte[a].page
    PROVE  PagesAreOwned'
<1>1. PICK own \in [Real -> Tags] : Accounts(own)
  BY DEF IInv, PagesAreOwned
<1>2. free' = free /\ trapframe' = trapframe /\ mem' = mem /\ argv' = argv
  OBVIOUS
<1>3. Accounts(own)'
  BY <1>1, <1>2, SameAccounts
<1> QED BY <1>3 DEF PagesAreOwned

\* The call of p goes to j.
LEMMA JobStep ==
    ASSUME IInv, NEW p \in Slots, NEW j \in Job,
           NEW c \in {"user", "argv", "root", "page", "map", "done"},
           state[p] = "RUNNABLE", load' = load \/ Counted,
           UNCHANGED <<free, data, state, sz, trapframe, table, np, mem, argv, panic>>,
           pc' = [pc EXCEPT ![p] = c], job' = [job EXCEPT ![p] = j],
           CallOK(p, j.kind)', ExtentOK(p, j.kind, j.va, PagesIn(j.sz), PagesIn(j.new))'
    PROVE  IInv'
<1>0. FullTypeOK /\ EntriesOK /\ SlotsOK /\ CallsOK /\ ExtentsOK
  BY DEF IInv
<1>1. /\ load'.image = load.image /\ Real' = Real
      /\ load'.calls \in Nat /\ \E w \in Workloads : load' = [w EXCEPT !.calls = load'.calls]
  BY <1>0, LoadStep
<1>2. job'[p] = j /\ \A r \in Slots : r # p => job'[r] = job[r] /\ pc'[r] = pc[r]
  BY <1>0 DEF FullTypeOK
<1>3. FullTypeOK'
  BY <1>0, <1>1 DEF FullTypeOK
<1>4. EntriesOK' /\ SlotsOK'
  BY <1>0 DEF EntriesOK, SlotsOK
<1>5. CallsOK' /\ ExtentsOK'
  <2>1. /\ CallOK(p, job[p].kind)'
        /\ ExtentOK(p, job[p].kind, job[p].va, PagesIn(job[p].sz), PagesIn(job[p].new))'
    BY <1>2, CallAt
  <2>2. \A r \in Slots \ {p} : Same(r)
    BY <1>2 DEF Same, Rests
  <2> QED BY <1>0, <1>1, <2>1, <2>2, Confined
<1>6. PagesAreOwned'
  BY <1>1, OwnedStays
<1> QED BY <1>3, <1>4, <1>5, <1>6 DEF IInv

\* The jobs of a process in no call, and of one that calls proc_pagetable.
LEMMA JobsAre ==
    /\ NoJob \in Job /\ NoJob.kind = "none"
    /\ \A p \in Slots : /\ CreateJob(p) \in Job /\ CreateJob(p).kind = "create"
                        /\ CreateJob(p).on = New(p) /\ CreateJob(p).va = TRAMPOLINE
<1>1. 0 \in Slots /\ 0 \in VirtualPages /\ 0 \in Nat
  BY MemoryAssumption DEF Slots, VirtualPages, TRAMPOLINE
<1>2. Own(0) \in Tables /\ NoJob = [kind |-> "none", on |-> Own(0), va |-> 0, seg |-> 0,
                                   sz |-> 0, new |-> 0]
  BY <1>1, TableNames DEF NoJob, Own
<1>3. NoJob \in Job /\ NoJob.kind = "none"
  BY <1>1, <1>2 DEF Job
<1>4. ASSUME NEW p \in Slots
      PROVE  /\ CreateJob(p) \in Job /\ CreateJob(p).kind = "create"
             /\ CreateJob(p).on = New(p) /\ CreateJob(p).va = TRAMPOLINE
  <2>1. CreateJob(p) = [NoJob EXCEPT !.kind = "create", !.on = New(p), !.va = TRAMPOLINE]
    BY DEF CreateJob, New
  <2>2. New(p) \in Tables /\ TRAMPOLINE \in VirtualPages
    BY TableNames, VirtualPagesAre
  <2> QED BY <1>3, <2>1, <2>2 DEF Job
<1> QED BY <1>3, <1>4

LEMMA WriteStep ==
    ASSUME IInv, NEW p \in Slots, NEW a \in UserVPs, NEW v \in load.stores, Write(p, a, v)
    PROVE  IInv'
<1>1. /\ UNCHANGED <<load, free, state, sz, trapframe, table, pc, job, np, mem, argv, panic>>
      /\ data' = [data EXCEPT ![table[<<p, "own">>].pte[a].page] = v]
  BY DEF Write, procs, calls
<1>2. FullTypeOK /\ EntriesOK /\ SlotsOK /\ CallsOK /\ ExtentsOK /\ PagesAreOwned
  BY DEF IInv
<1>3. Real' = Real
  BY <1>1 DEF Real
<1>4. FullTypeOK'
  BY <1>1, <1>2, <1>3, LoadFacts DEF FullTypeOK
<1>5. EntriesOK' /\ SlotsOK' /\ CallsOK'
  BY <1>1, <1>2 DEF EntriesOK, SlotsOK, CallsOK, CallOK
<1>6. ExtentsOK'
  BY <1>1, <1>2 DEF ExtentsOK, ExtentOK, PagesIn
<1>7. PagesAreOwned'
  BY <1>1, <1>3, OwnedStays
<1> QED BY <1>4, <1>5, <1>6, <1>7 DEF IInv

LEMMA FaultStep ==
    ASSUME IInv, NEW p \in Slots, NEW a \in UserVPs, Fault(p, a)
    PROVE  IInv'
<1>0. FullTypeOK /\ CallsOK /\ ExtentsOK
  BY DEF IInv
<1>1. /\ Running(p) /\ ~Mapped(table[Own(p)], a) /\ a * PageSize < sz[p]
      /\ UNCHANGED <<load, free, data, state, sz, trapframe, table, np, mem, argv, panic>>
  BY DEF Fault, Own, kmem, procs
<1>2. /\ state[p] = "RUNNABLE" /\ np[p] = NoSlot /\ argv[p] = {} /\ mem[p] = NoPage
      /\ table[New(p)] = NoTable /\ Below(table[Own(p)], PagesIn(sz[p])) /\ sz[p] \in Nat
  BY <1>0, <1>1, RunningFacts
<1>3. /\ (a + 1) * PageSize \in Nat /\ PagesIn((a + 1) * PageSize) = a + 1
      /\ (a + 1) * PageSize <= MaxSize /\ a \in Nat /\ a \in VirtualPages
  <2>1. a \in Nat /\ a + 1 \in Nat /\ a + 1 <= UserPages /\ UserPages \in Nat
    BY VirtualPagesAre DEF UserVPs
  <2>2. (a + 1) * PageSize <= UserPages * PageSize
    <3>1. CASE a + 1 = UserPages
      BY <2>1, <3>1, WholePages
    <3>2. CASE a + 1 < UserPages
      BY <2>1, <3>2, Multiples, MemoryAssumption
    <3> QED BY <2>1, <3>1, <3>2
  <2> QED BY <2>1, <2>2, WholePages, VirtualPagesAre DEF MaxSize
<1>4. PICK j \in Job :
         j = [kind |-> "fault", on |-> Own(p), va |-> a, seg |-> 0, sz |-> sz[p],
              new |-> (a + 1) * PageSize]
  BY <1>2, <1>3, TableNames DEF Job, Loops
<1>5. job' = [job EXCEPT ![p] = j] /\ pc' = [pc EXCEPT ![p] = "page"]
  <2>1. j.va < PagesIn(j.new)
    BY <1>3, <1>4
  <2> QED BY <1>4, <2>1 DEF Fault, Continue, Own
<1>6. job'[p] = j /\ pc'[p] = "page"
  BY <1>0, <1>5 DEF FullTypeOK
<1>7. CallOK(p, j.kind)'
  BY <1>1, <1>2, <1>4, <1>6 DEF CallOK, Loops
<1>8. ExtentOK(p, j.kind, j.va, PagesIn(j.sz), PagesIn(j.new))'
  <2>1. a < PagesIn(sz[p])
    BY <1>1, <1>2, <1>3, PageBelow
  <2>2. PagesIn(j.new) = a + 1 /\ j.kind = "fault" /\ j.va = a /\ j.new <= MaxSize
    BY <1>3, <1>4
  <2> QED BY <1>1, <1>2, <1>3, <1>6, <2>1, <2>2 DEF ExtentOK, PagesIn
<1> QED BY <1>1, <1>2, <1>5, <1>7, <1>8, JobStep

LEMMA GrowStep ==
    ASSUME IInv, NEW p \in Slots, NEW n \in load.grow, Grow(p, n)
    PROVE  IInv'
<1>0. FullTypeOK /\ CallsOK /\ ExtentsOK
  BY DEF IInv
<1>1. /\ Running(p) /\ Counted /\ sz[p] + n <= MaxSize /\ n \in Nat /\ n > 0
      /\ UNCHANGED <<free, data, state, sz, trapframe, table, np, mem, argv, panic>>
  BY <1>0, LoadFacts DEF Grow, kmem, procs
<1>2. /\ state[p] = "RUNNABLE" /\ np[p] = NoSlot /\ argv[p] = {} /\ mem[p] = NoPage
      /\ table[New(p)] = NoTable /\ Below(table[Own(p)], PagesIn(sz[p])) /\ sz[p] \in Nat
      /\ PagesIn(sz[p]) \in 0..UserPages /\ PagesIn(sz[p]) \in Nat
  BY <1>0, <1>1, RunningFacts
<1>3. /\ sz[p] + n \in Nat /\ PagesIn(sz[p] + n) \in Nat
      /\ PagesIn(sz[p]) <= PagesIn(sz[p] + n)
  BY <1>1, <1>2, Rounding, PagesMonotone
<1>4. PICK j \in Job :
         j = [kind |-> "grow", on |-> Own(p), va |-> PagesIn(sz[p]), seg |-> 0, sz |-> sz[p],
              new |-> sz[p] + n]
  <2>1. PagesIn(sz[p]) \in VirtualPages
    BY <1>2, VirtualPagesAre DEF VirtualPages, TRAMPOLINE
  <2> QED BY <1>2, <1>3, <2>1, TableNames DEF Job, Loops
<1>5. PICK c \in {"page", "done"} :
         /\ job' = [job EXCEPT ![p] = j] /\ pc' = [pc EXCEPT ![p] = c]
         /\ c = IF PagesIn(sz[p]) < PagesIn(sz[p] + n) THEN "page" ELSE "done"
  <2>1. Uvmalloc(p, "grow", Own(p), 0, sz[p], sz[p] + n)
    BY DEF Grow, Own
  <2>2. ~(sz[p] + n < sz[p])
    BY <1>1, <1>2
  <2> QED BY <1>4, <2>1, <2>2 DEF Uvmalloc, Continue
<1>6. job'[p] = j /\ pc'[p] = c
  BY <1>0, <1>5 DEF FullTypeOK
<1>7. CallOK(p, j.kind)'
  BY <1>1, <1>2, <1>4, <1>6 DEF CallOK, Loops
<1>8. ExtentOK(p, j.kind, j.va, PagesIn(j.sz), PagesIn(j.new))'
  <2>1. /\ j.kind = "grow" /\ j.va = PagesIn(sz[p]) /\ j.sz = sz[p] /\ j.new = sz[p] + n
    BY <1>4
  <2> QED BY <1>1, <1>2, <1>3, <1>5, <1>6, <2>1 DEF ExtentOK
<1> QED BY <1>1, <1>2, <1>5, <1>7, <1>8, JobStep

LEMMA ExecStep ==
    ASSUME IInv, NEW p \in Slots, Exec(p)
    PROVE  IInv'
<1>0. FullTypeOK /\ CallsOK /\ ExtentsOK
  BY DEF IInv
<1>1. /\ Running(p) /\ Counted
      /\ UNCHANGED <<free, data, state, sz, trapframe, table, np, mem, argv, panic>>
  BY DEF Exec, kmem, procs
<1>2. /\ state[p] = "RUNNABLE" /\ np[p] = NoSlot /\ argv[p] = {} /\ mem[p] = NoPage
      /\ table[New(p)] = NoTable /\ Below(table[Own(p)], PagesIn(sz[p]))
  BY <1>0, <1>1, RunningFacts
<1>3. PICK j \in Job : /\ j = CreateJob(p) /\ j.kind = "create" /\ j.on = New(p)
                       /\ j.va = TRAMPOLINE
  BY JobsAre
<1>4. PICK c \in {"argv", "root"} :
         job' = [job EXCEPT ![p] = j] /\ pc' = [pc EXCEPT ![p] = c]
  BY <1>3 DEF Exec
<1>5. job'[p] = j /\ pc'[p] = c
  BY <1>0, <1>4 DEF FullTypeOK
<1>6. CallOK(p, j.kind)'
  BY <1>1, <1>2, <1>3, <1>5, NoTableFacts DEF CallOK, Loops
<1>7. ExtentOK(p, j.kind, j.va, PagesIn(j.sz), PagesIn(j.new))'
  BY <1>1, <1>2, <1>3, <1>5 DEF ExtentOK, Loops, PagesIn
<1> QED BY <1>1, <1>2, <1>4, <1>6, <1>7, JobStep

\* A call of p that has returned.
LEMMA ReturnedCall ==
    ASSUME NEW p \in Slots, job'[p] = NoJob, pc'[p] = "user", mem'[p] = NoPage,
           np'[p] = NoSlot, argv'[p] = {}, table'[New(p)] = NoTable,
           Below(table[Own(p)], PagesIn(sz[p]))'
    PROVE  /\ CallOK(p, job[p].kind)'
           /\ ExtentOK(p, job[p].kind, job[p].va, PagesIn(job[p].sz), PagesIn(job[p].new))'
<1>1. NoJob.kind = "none" /\ "none" \notin Loops
  BY JobsAre DEF Loops
<1>2. CallOK(p, NoJob.kind)'
  BY <1>1 DEF CallOK
<1>3. ExtentOK(p, NoJob.kind, NoJob.va, PagesIn(NoJob.sz), PagesIn(NoJob.new))'
  BY <1>1 DEF ExtentOK
<1> QED BY <1>2, <1>3, CallAt

LEMMA BelowUp ==
    ASSUME NEW T, NEW m \in Int, NEW n \in Int, Below(T, m), m <= n
    PROVE  Below(T, n)
<1>1. UserVPs \subseteq Int
  BY VirtualPagesAre DEF UserVPs
<1> QED BY <1>1 DEF Below

LEMMA FaultDoneStep ==
    ASSUME IInv, NEW p \in Slots, FaultDone(p)
    PROVE  IInv'
<1>0. FullTypeOK /\ SlotsOK /\ CallsOK /\ ExtentsOK
  BY DEF IInv
<1>1. /\ pc[p] = "done" /\ job[p].kind = "fault" /\ Return(p)
      /\ UNCHANGED <<load, free, data, state, sz, trapframe, table, np, argv, panic>>
  BY DEF FaultDone, kmem, procs
<1>2. CallOK(p, "fault") /\ ExtentOK(p, "fault", job[p].va, PagesIn(job[p].sz), PagesIn(job[p].new))
  BY <1>0, <1>1 DEF CallsOK, ExtentsOK
<1>3. /\ state[p] = "RUNNABLE" /\ np[p] = NoSlot /\ argv[p] = {} /\ mem[p] = NoPage
      /\ table[New(p)] = NoTable /\ Below(table[Own(p)], PagesIn(sz[p]))
  BY <1>1, <1>2 DEF CallOK, ExtentOK
<1>4. mem' = mem /\ pc' = [pc EXCEPT ![p] = "user"] /\ job' = [job EXCEPT ![p] = NoJob]
  BY <1>0, <1>1, <1>3 DEF Return, FullTypeOK
<1>5. job'[p] = NoJob /\ pc'[p] = "user"
  BY <1>0, <1>4 DEF FullTypeOK
<1>6. NoJob.kind = "none" /\ NoJob \in Job
  BY JobsAre
<1>7. CallOK(p, NoJob.kind)'
  BY <1>1, <1>3, <1>4, <1>5, <1>6 DEF CallOK, Loops
<1>8. ExtentOK(p, NoJob.kind, NoJob.va, PagesIn(NoJob.sz), PagesIn(NoJob.new))'
  BY <1>1, <1>3, <1>6 DEF ExtentOK, Loops, PagesIn
<1> QED BY <1>1, <1>3, <1>4, <1>6, <1>7, <1>8, JobStep

LEMMA GrowDoneStep ==
    ASSUME IInv, NEW p \in Slots, GrowDone(p)
    PROVE  IInv'
<1>0. FullTypeOK /\ EntriesOK /\ SlotsOK /\ CallsOK /\ ExtentsOK
  BY DEF IInv
<1>1. /\ pc[p] = "done" /\ job[p].kind = "grow" /\ Return(p)
      /\ sz' = [sz EXCEPT ![p] = job[p].new]
      /\ UNCHANGED <<load, free, data, state, trapframe, table, np, argv, panic>>
  BY DEF GrowDone, kmem
<1>2. CallOK(p, "grow") /\ ExtentOK(p, "grow", job[p].va, PagesIn(job[p].sz), PagesIn(job[p].new))
  BY <1>0, <1>1 DEF CallsOK, ExtentsOK
<1>3. /\ state[p] = "RUNNABLE" /\ np[p] = NoSlot /\ argv[p] = {} /\ mem[p] = NoPage
      /\ table[New(p)] = NoTable /\ Below(table[Own(p)], PagesIn(job[p].new))
      /\ job[p].new <= MaxSize /\ job[p].new \in Nat
  BY <1>0, <1>1, <1>2 DEF CallOK, ExtentOK, Loops, FullTypeOK, Job
<1>4. /\ mem' = mem /\ pc' = [pc EXCEPT ![p] = "user"] /\ job' = [job EXCEPT ![p] = NoJob]
      /\ job'[p] = NoJob /\ pc'[p] = "user" /\ sz'[p] = job[p].new
      /\ \A r \in Slots : r # p => job'[r] = job[r] /\ pc'[r] = pc[r] /\ sz'[r] = sz[r]
  BY <1>0, <1>1, <1>3 DEF Return, FullTypeOK
<1>5. Real' = Real
  BY <1>1 DEF Real
<1>6. FullTypeOK'
  <2>1. job[p].new \in 0..MaxSize
    BY <1>3, SizesAre
  <2>2. sz' \in [Slots -> 0..MaxSize] /\ job' \in [Slots -> Job]
        /\ pc' \in [Slots -> {"user", "argv", "root", "page", "map", "done"}]
    BY <1>0, <1>1, <1>4, <2>1, JobsAre DEF FullTypeOK
  <2> QED BY <1>0, <1>1, <1>4, <1>5, <2>2 DEF FullTypeOK
<1>7. EntriesOK' /\ SlotsOK'
  BY <1>0, <1>1, <1>3, <1>4 DEF EntriesOK, SlotsOK
<1>8. CallsOK' /\ ExtentsOK'
  <2>1. Below(table[Own(p)], PagesIn(sz[p]))'
    BY <1>1, <1>3, <1>4 DEF PagesIn
  <2>2. /\ CallOK(p, job[p].kind)'
        /\ ExtentOK(p, job[p].kind, job[p].va, PagesIn(job[p].sz), PagesIn(job[p].new))'
    BY <1>1, <1>3, <1>4, <2>1, ReturnedCall
  <2>3. \A r \in Slots \ {p} : Same(r)
    BY <1>1, <1>4 DEF Same, Rests
  <2> QED BY <1>0, <1>1, <1>3, <2>2, <2>3, Confined
<1>9. PagesAreOwned'
  BY <1>1, <1>4, <1>5, OwnedStays
<1> QED BY <1>6, <1>7, <1>8, <1>9 DEF IInv

LEMMA SbrkLazyStep ==
    ASSUME IInv, NEW p \in Slots, NEW n \in load.grow, SbrkLazy(p, n)
    PROVE  IInv'
<1>0. FullTypeOK /\ EntriesOK /\ SlotsOK /\ CallsOK /\ ExtentsOK
  BY DEF IInv
<1>1. /\ Running(p) /\ Counted /\ sz[p] + n <= MaxSize /\ n \in Nat
      /\ sz' = [sz EXCEPT ![p] = @ + n]
      /\ UNCHANGED <<free, data, state, trapframe, table, pc, job, np, mem, argv, panic>>
  BY <1>0, LoadFacts DEF SbrkLazy, kmem, calls
<1>2. /\ state[p] = "RUNNABLE" /\ pc[p] = "user" /\ Below(table[Own(p)], PagesIn(sz[p]))
      /\ sz[p] \in Nat
  BY <1>0, <1>1, RunningFacts
<1>3. /\ load'.image = load.image /\ Real' = Real
      /\ load'.calls \in Nat /\ \E w \in Workloads : load' = [w EXCEPT !.calls = load'.calls]
  BY <1>0, <1>1, LoadStep
<1>4. sz'[p] = sz[p] + n /\ \A r \in Slots : r # p => sz'[r] = sz[r]
  BY <1>0, <1>1 DEF FullTypeOK
<1>5. FullTypeOK'
  <2>1. sz[p] + n \in 0..MaxSize
    BY <1>1, <1>2, SizesAre
  <2>2. sz' \in [Slots -> 0..MaxSize]
    BY <1>0, <1>1, <2>1 DEF FullTypeOK
  <2> QED BY <1>0, <1>1, <1>3, <2>2 DEF FullTypeOK
<1>6. EntriesOK' /\ SlotsOK'
  BY <1>0, <1>1, <1>2, <1>4 DEF EntriesOK, SlotsOK
<1>7. CallsOK' /\ ExtentsOK'
  <2>1. Below(table[Own(p)], PagesIn(sz[p]))'
    <3>1. Below(table[Own(p)], PagesIn(sz[p] + n))
      BY <1>1, <1>2, Rounding, PagesMonotone, BelowUp
    <3> QED BY <1>1, <1>4, <3>1 DEF PagesIn
  <2>2. Rests(p) /\ CallOK(p, job[p].kind)
    BY <1>0, <1>1 DEF Rests, CallsOK
  <2>3. /\ CallOK(p, job[p].kind)'
        /\ ExtentOK(p, job[p].kind, job[p].va, PagesIn(job[p].sz), PagesIn(job[p].new))'
    BY <1>2, <2>1, <2>2, IdleCall
  <2>4. \A r \in Slots \ {p} : Same(r)
    BY <1>1, <1>4 DEF Same, Rests
  <2> QED BY <1>0, <1>2, <1>3, <2>3, <2>4, Confined
<1>8. PagesAreOwned'
  BY <1>1, <1>3, OwnedStays
<1> QED BY <1>5, <1>6, <1>7, <1>8 DEF IInv

LEMMA ExitStep ==
    ASSUME IInv, NEW p \in Slots, Exit(p)
    PROVE  IInv'
<1>0. FullTypeOK /\ EntriesOK /\ SlotsOK /\ CallsOK /\ ExtentsOK
  BY DEF IInv
<1>1. /\ Running(p) /\ state' = [state EXCEPT ![p] = "ZOMBIE"]
      /\ UNCHANGED <<load, free, data, sz, trapframe, table, pc, job, np, mem, argv, panic>>
  BY DEF Exit, kmem, calls
<1>2. state[p] = "RUNNABLE" /\ pc[p] = "user" /\ Below(table[Own(p)], PagesIn(sz[p]))
  BY <1>0, <1>1, RunningFacts
<1>3. Real' = Real
  BY <1>1 DEF Real
<1>4. state'[p] = "ZOMBIE" /\ \A r \in Slots : r # p => state'[r] = state[r]
  BY <1>0, <1>1 DEF FullTypeOK
<1>5. FullTypeOK'
  <2>1. state' \in [Slots -> {"UNUSED", "USED", "RUNNABLE", "ZOMBIE"}]
    BY <1>0, <1>1 DEF FullTypeOK
  <2> QED BY <1>0, <1>1, <1>3, <2>1 DEF FullTypeOK
<1>6. EntriesOK'
  BY <1>0, <1>1 DEF EntriesOK
<1>7. SlotsOK'
  <2>1. \A r \in Slots : np[r] # NoSlot => np[r] \in Slots /\ np[r] # p
    BY <1>0, <1>2 DEF SlotsOK, FullTypeOK
  <2> QED BY <1>0, <1>1, <1>2, <1>4, <2>1 DEF SlotsOK
<1>8. CallsOK' /\ ExtentsOK'
  <2>1. Below(table[Own(p)], PagesIn(sz[p]))'
    BY <1>1, <1>2 DEF PagesIn
  <2>2. Rests(p) /\ CallOK(p, job[p].kind)
    BY <1>0, <1>1 DEF Rests, CallsOK
  <2>3. /\ CallOK(p, job[p].kind)'
        /\ ExtentOK(p, job[p].kind, job[p].va, PagesIn(job[p].sz), PagesIn(job[p].new))'
    BY <1>2, <2>1, <2>2, IdleCall
  <2>4. \A r \in Slots \ {p} : Same(r)
    BY <1>1, <1>4 DEF Same, Rests
  <2> QED BY <1>0, <1>1, <1>2, <2>3, <2>4, Confined
<1>9. PagesAreOwned'
  BY <1>1, <1>3, OwnedStays
<1> QED BY <1>5, <1>6, <1>7, <1>8, <1>9 DEF IInv

LEMMA ForkDoneStep ==
    ASSUME IInv, NEW p \in Slots, ForkDone(p)
    PROVE  IInv'
<1>0. FullTypeOK /\ EntriesOK /\ SlotsOK /\ CallsOK /\ ExtentsOK
  BY DEF IInv
<1>1. /\ pc[p] = "done" /\ job[p].kind = "copy" /\ Return(p)
      /\ sz' = [sz EXCEPT ![np[p]] = sz[p]]
      /\ state' = [state EXCEPT ![np[p]] = "RUNNABLE"]
      /\ np' = [np EXCEPT ![p] = NoSlot]
      /\ UNCHANGED <<load, free, data, trapframe, table, argv, panic>>
  BY DEF ForkDone, kmem
<1>2. CallOK(p, "copy") /\ ExtentOK(p, "copy", job[p].va, PagesIn(job[p].sz), PagesIn(job[p].new))
  BY <1>0, <1>1 DEF CallsOK, ExtentsOK
<1>3. /\ state[p] = "RUNNABLE" /\ np[p] # NoSlot /\ argv[p] = {} /\ mem[p] = NoPage
      /\ table[New(p)] = NoTable /\ Below(table[Own(p)], PagesIn(sz[p]))
      /\ Below(table[Own(np[p])], PagesIn(sz[p]))
  BY <1>1, <1>2 DEF CallOK, ExtentOK, Loops
<1>4. PICK q \in Slots : q = np[p] /\ q # p /\ state[q] = "USED" /\ pc[q] = "user"
                         /\ trapframe[q] # NoPage
  BY <1>0, <1>3, InHandFacts
<1>5. /\ mem' = mem /\ job'[p] = NoJob /\ pc'[p] = "user" /\ np'[p] = NoSlot
      /\ \A r \in Slots : r # p => job'[r] = job[r] /\ pc'[r] = pc[r] /\ np'[r] = np[r]
      /\ sz'[q] = sz[p] /\ state'[q] = "RUNNABLE"
      /\ \A r \in Slots : r # q => sz'[r] = sz[r] /\ state'[r] = state[r]
  BY <1>0, <1>1, <1>3, <1>4 DEF Return, FullTypeOK
<1>6. Real' = Real
  BY <1>1 DEF Real
<1>7. FullTypeOK'
  <2>1. /\ sz' \in [Slots -> 0..MaxSize] /\ job' \in [Slots -> Job]
        /\ pc' \in [Slots -> {"user", "argv", "root", "page", "map", "done"}]
        /\ state' \in [Slots -> {"UNUSED", "USED", "RUNNABLE", "ZOMBIE"}]
        /\ np' \in [Slots -> Slots \cup {NoSlot}]
    BY <1>0, <1>1, <1>4, JobsAre DEF FullTypeOK, Return
  <2> QED BY <1>0, <1>1, <1>5, <1>6, <2>1 DEF FullTypeOK
<1>8. EntriesOK'
  BY <1>0, <1>1 DEF EntriesOK
<1>9. SlotsOK'
  <2>1. \A r \in Slots : r # p /\ np[r] # NoSlot => np[r] \in Slots /\ np[r] # q
    BY <1>0, <1>4, <1>3 DEF SlotsOK, FullTypeOK
  <2>2. q # NoSlot
    BY <1>3, <1>4
  <2> QED BY <1>0, <1>1, <1>4, <1>5, <2>1, <2>2 DEF SlotsOK
<1>10. CallsOK' /\ ExtentsOK'
  <2>1. Below(table[Own(p)], PagesIn(sz[p]))' /\ Below(table[Own(q)], PagesIn(sz[q]))'
    BY <1>1, <1>3, <1>4, <1>5 DEF PagesIn
  <2>2. /\ CallOK(p, job[p].kind)'
        /\ ExtentOK(p, job[p].kind, job[p].va, PagesIn(job[p].sz), PagesIn(job[p].new))'
    BY <1>1, <1>3, <1>5, <2>1, ReturnedCall
  <2>3. Rests(q)
    BY <1>1, <1>4, <1>5 DEF Rests
  <2>4. \A r \in Slots : r \notin {p, q} => Same(r)
    BY <1>1, <1>5 DEF Same, Rests
  <2>5. load'.image = load.image
    BY <1>1
  <2> QED BY <1>0, <1>3, <1>4, <2>1, <2>2, <2>3, <2>4, <2>5, CallStep
<1>11. PagesAreOwned'
  BY <1>1, <1>5, <1>6, OwnedStays
<1> QED BY <1>7, <1>8, <1>9, <1>10, <1>11 DEF IInv

-----------------------------------------------------------------------------
(* Steps that take a page.                                                 *)

\* A page of the list goes to the holder of o.
LEMMA OwnedTakes ==
    ASSUME IInv, Real' = Real, NEW own \in [Real -> Tags], Accounts(own),
           NEW pg \in free, Kalloc(pg), NEW o \in Tags, o # ListTag, o[1] # "hand",
           o[1] # "argv" => \A r \in Real : own[r] # o,
           mem' = mem,
           \A p \in Slots :
              /\ trapframe'[p] = IF o = FrameTag(p) THEN pg ELSE trapframe[p]
              /\ argv'[p] = IF o = ArgvTag(p) THEN argv[p] \cup {pg} ELSE argv[p],
           \A t \in Tables :
              /\ table'[t].root = IF o = RootTag(t) THEN pg ELSE table[t].root
              /\ \A n \in Nodes :
                    table'[t].node[n] = IF o = NodeTag(t, n) THEN pg ELSE table[t].node[n]
              /\ \A a \in UserVPs : table'[t].pte[a].page =
                    IF o = UserTag(t, a) THEN pg ELSE table[t].pte[a].page
    PROVE  PagesAreOwned'
<1>2. pg \in Real /\ own[pg] = ListTag /\ NoPage \notin Real
  BY KallocFacts, LoadFacts DEF IInv
<1>3. free' = free \ {pg}
  BY DEF Kalloc
<1>4. \A p \in Slots : mem'[p] = IF o = HandTag(p) THEN pg
                                ELSE IF own[pg] = HandTag(p) THEN NoPage ELSE mem[p]
  <2>1. \A p \in Slots : o # HandTag(p) /\ own[pg] # HandTag(p)
    BY <1>2, TagFacts
  <2> QED BY <2>1
<1>5. /\ Moved(own, pg, o) \in [Real -> Tags]
      /\ Accounts(Moved(own, pg, o))'
  BY <1>2, <1>3, <1>4, MovedAccounts
<1> QED BY <1>5 DEF PagesAreOwned

LEMMA ForkStep ==
    ASSUME IInv, NEW p \in Slots, NEW q \in Slots, Fork(p, q)
    PROVE  IInv'
<1>0. FullTypeOK /\ EntriesOK /\ SlotsOK /\ CallsOK /\ ExtentsOK
  BY DEF IInv
<1>1. PICK pg \in free : Kalloc(pg) /\ trapframe' = [trapframe EXCEPT ![q] = pg]
  BY DEF Fork
<1>2. /\ Running(p) /\ Counted /\ state[q] = "UNUSED"
      /\ state' = [state EXCEPT ![q] = "USED"]
      /\ np' = [np EXCEPT ![p] = q]
      /\ pc' = [pc EXCEPT ![p] = "root"]
      /\ UNCHANGED <<data, sz, table, mem, argv, panic>>
  BY DEF Fork
<1>3. PICK j \in Job : j = CreateJob(p) /\ job' = [job EXCEPT ![p] = j]
  BY JobsAre DEF Fork
<1>4. /\ state[p] = "RUNNABLE" /\ np[p] = NoSlot /\ argv[p] = {} /\ mem[p] = NoPage
      /\ table[New(p)] = NoTable /\ Below(table[Own(p)], PagesIn(sz[p])) /\ q # p
      /\ pc[p] = "user" /\ job[p].kind = "none"
  BY <1>0, <1>2, RunningFacts
<1>5. /\ sz[q] = 0 /\ trapframe[q] = NoPage /\ table[Own(q)] = NoTable
      /\ \A r \in Slots : np[r] # q
  BY <1>0, <1>2, TableNames DEF SlotsOK
<1>6. /\ job'[p] = j /\ pc'[p] = "root" /\ np'[p] = q /\ state'[q] = "USED" /\ trapframe'[q] = pg
      /\ \A r \in Slots : r # p => job'[r] = job[r] /\ pc'[r] = pc[r] /\ np'[r] = np[r]
      /\ \A r \in Slots : r # q => state'[r] = state[r] /\ trapframe'[r] = trapframe[r]
  BY <1>0, <1>1, <1>2, <1>3 DEF FullTypeOK
<1>7. /\ load'.image = load.image /\ Real' = Real
      /\ load'.calls \in Nat /\ \E w \in Workloads : load' = [w EXCEPT !.calls = load'.calls]
  BY <1>0, <1>2, LoadStep
<1>8. pg \in Real /\ pg \in Pages /\ pg # NoPage /\ free' = free \ {pg} /\ free' \subseteq Real
  BY <1>0, <1>1, KallocFacts, LoadFacts DEF Kalloc, FullTypeOK
<1>9. FullTypeOK'
  <2>1. /\ job' \in [Slots -> Job] /\ trapframe' \in [Slots -> Pages \cup {NoPage}]
        /\ pc' \in [Slots -> {"user", "argv", "root", "page", "map", "done"}]
        /\ state' \in [Slots -> {"UNUSED", "USED", "RUNNABLE", "ZOMBIE"}]
        /\ np' \in [Slots -> Slots \cup {NoSlot}]
    BY <1>0, <1>1, <1>2, <1>3, <1>8 DEF FullTypeOK
  <2> QED BY <1>0, <1>2, <1>7, <1>8, <2>1 DEF FullTypeOK
<1>10. EntriesOK'
  BY <1>0, <1>2 DEF EntriesOK
<1>11. SlotsOK'
  BY <1>0, <1>2, <1>4, <1>5, <1>6, <1>8 DEF SlotsOK
<1>12. CallsOK' /\ ExtentsOK'
  <2>1. j.kind = "create" /\ j.on = New(p) /\ j.va = TRAMPOLINE /\ "create" \notin Loops
    BY <1>3, JobsAre DEF Loops
  <2>2. CallOK(p, j.kind)'
    BY <1>2, <1>4, <1>5, <1>6, <2>1, NoTableFacts DEF CallOK
  <2>3. ExtentOK(p, j.kind, j.va, PagesIn(j.sz), PagesIn(j.new))'
    BY <1>2, <1>4, <1>6, <2>1 DEF ExtentOK, PagesIn
  <2>4. /\ CallOK(p, job[p].kind)'
        /\ ExtentOK(p, job[p].kind, job[p].va, PagesIn(job[p].sz), PagesIn(job[p].new))'
    BY <1>6, <2>2, <2>3, CallAt
  <2>5. Rests(q) /\ \A r \in Slots : r \notin {p, q} => Same(r)
    BY <1>2, <1>4, <1>6 DEF Same, Rests
  <2> QED BY <1>0, <1>2, <1>4, <1>6, <1>7, <2>4, <2>5, CallStep
<1>13. PagesAreOwned'
  <2>1. PICK o \in Tags : o = FrameTag(q) /\ o # ListTag /\ o[1] = "trapframe"
    BY TagFacts
  <2>2. PICK own \in [Real -> Tags] : Accounts(own)
    BY DEF IInv, PagesAreOwned
  <2>5. \A r \in Real : own[r] # o
    BY <1>0, <1>5, <2>1, <2>2, LoadFacts DEF Accounts, SlotPages
  <2>3. \A r \in Slots :
           /\ trapframe'[r] = IF o = FrameTag(r) THEN pg ELSE trapframe[r]
           /\ argv'[r] = IF o = ArgvTag(r) THEN argv[r] \cup {pg} ELSE argv[r]
    <3>1. \A r \in Slots : (o = FrameTag(r) <=> r = q) /\ o # ArgvTag(r)
      BY <2>1, TagFacts
    <3> QED BY <1>2, <1>6, <3>1
  <2>4. \A t \in Tables :
           /\ table'[t].root = IF o = RootTag(t) THEN pg ELSE table[t].root
           /\ \A n \in Nodes :
                 table'[t].node[n] = IF o = NodeTag(t, n) THEN pg ELSE table[t].node[n]
           /\ \A a \in UserVPs : table'[t].pte[a].page =
                 IF o = UserTag(t, a) THEN pg ELSE table[t].pte[a].page
    <3>1. \A t \in Tables : /\ o # RootTag(t) /\ \A n \in Nodes : o # NodeTag(t, n)
                            /\ \A a \in UserVPs : o # UserTag(t, a)
      BY <2>1, TagFacts
    <3> QED BY <1>2, <3>1
  <2>6. Real' = Real /\ Kalloc(pg) /\ mem' = mem /\ o[1] # "hand"
    BY <1>1, <1>2, <1>7, <2>1
  <2> QED BY <2>1, <2>2, <2>3, <2>4, <2>5, <2>6, OwnedTakes
<1> QED BY <1>9, <1>10, <1>11, <1>12, <1>13 DEF IInv

LEMMA CreateRootStep ==
    ASSUME IInv, NEW p \in Slots, CreateRoot(p)
    PROVE  IInv'
<1>0. FullTypeOK /\ EntriesOK /\ SlotsOK /\ CallsOK /\ ExtentsOK
  BY DEF IInv
<1>1. PICK pg \in free :
        /\ Kalloc(pg) /\ data' = [data EXCEPT ![pg] = Zero]
        /\ table' = [table EXCEPT ![New(p)].root = pg]
  BY DEF CreateRoot, New
<1>2. /\ pc[p] = "root" /\ pc' = [pc EXCEPT ![p] = "map"]
      /\ UNCHANGED <<load, state, sz, trapframe, job, np, mem, argv, panic>>
  BY DEF CreateRoot
<1>3. PICK j \in Job : /\ j = job[p] /\ CallOK(p, j.kind)
                       /\ ExtentOK(p, j.kind, j.va, PagesIn(j.sz), PagesIn(j.new))
  BY <1>0 DEF FullTypeOK, CallsOK, ExtentsOK
<1>4. /\ state[p] = "RUNNABLE" /\ j.kind = "create" /\ mem[p] = NoPage
      /\ table[New(p)] = NoTable
  BY <1>2, <1>3 DEF CallOK
<1>5. PICK q \in Slots \cup {NoSlot} :
         /\ q = np[p]
         /\ q \in Slots <=> q # NoSlot
         /\ q \in Slots => q # p /\ state[q] = "USED" /\ pc[q] = "user"
  BY <1>0, <1>4, InHandFacts
<1>6. Real' = Real /\ load'.image = load.image
  BY <1>2 DEF Real
<1>7. pg \in Real /\ pg \in Pages /\ pg # NoPage /\ free' = free \ {pg} /\ free' \subseteq Real
  BY <1>0, <1>1, KallocFacts, LoadFacts DEF Kalloc, FullTypeOK
<1>8. /\ table' \in [Tables -> PageTable]
      /\ \A u \in Tables : u # New(p) => table'[u] = table[u]
      /\ table'[New(p)].root = pg
      /\ table'[New(p)].node = NoTable.node /\ table'[New(p)].pte = NoTable.pte
  <2>1. New(p) \in Tables /\ table \in [Tables -> PageTable]
    BY <1>0, TableNames DEF FullTypeOK
  <2>2. PICK U \in PageTable : /\ U = [NoTable EXCEPT !.root = pg]
                               /\ U.root = pg /\ U.node = NoTable.node /\ U.pte = NoTable.pte
    <3> DEFINE V == [NoTable EXCEPT !.root = pg]
    <3>1. NoTable \in PageTable
      BY NoTableFacts
    <3>2. V \in PageTable /\ V.root = pg /\ V.node = NoTable.node /\ V.pte = NoTable.pte
      BY <1>7, <3>1 DEF PageTable
    <3> QED BY <3>2
  <2>3. table' = [table EXCEPT ![New(p)] = U]
    BY <1>1, <1>4, <2>2
  <2>4. table' \in [Tables -> PageTable] /\ table'[New(p)] = U
        /\ \A u \in Tables : u # New(p) => table'[u] = table[u]
    BY <2>1, <2>3
  <2> QED BY <2>2, <2>4
<1>9. \A u \in Tables : table'[u].pte = table[u].pte
  BY <1>4, <1>8
<1>10. FullTypeOK'
  <2>1. data' \in [Pages -> Values \cup {Junk}]
    BY <1>0, <1>1, <1>7, MemoryAssumption DEF FullTypeOK
  <2>2. pc' \in [Slots -> {"user", "argv", "root", "page", "map", "done"}]
    BY <1>0, <1>2 DEF FullTypeOK
  <2> QED BY <1>0, <1>2, <1>6, <1>7, <1>8, <2>1, <2>2 DEF FullTypeOK
<1>11. EntriesOK'
  BY <1>0, <1>9 DEF EntriesOK
<1>12. \A r \in Slots : /\ table'[Own(r)] = table[Own(r)]
                        /\ r # p => table'[New(r)] = table[New(r)] /\ pc'[r] = pc[r]
  BY <1>0, <1>2, <1>8, TableNames DEF FullTypeOK
<1>13. SlotsOK'
  BY <1>0, <1>2, <1>12 DEF SlotsOK
<1>14. CallsOK' /\ ExtentsOK'
  <2>1. pc'[p] = "map" /\ job'[p] = j /\ "create" \notin Loops
    BY <1>0, <1>2, <1>3 DEF FullTypeOK, Loops
  <2>2. CallOK(p, j.kind)'
    <3>1. \A a \in VirtualPages : ~Mapped(table'[New(p)], a)
      BY <1>8, NoTableFacts DEF Mapped
    <3>2. np[p] # NoSlot => table'[Own(np[p])] = table[Own(np[p])]
      BY <1>5, <1>12
    <3> QED BY <1>2, <1>3, <1>4, <2>1, <3>1, <3>2 DEF CallOK
  <2>3. ExtentOK(p, j.kind, j.va, PagesIn(j.sz), PagesIn(j.new))'
    BY <1>2, <1>3, <1>4, <1>12, <2>1 DEF ExtentOK, PagesIn
  <2>4. /\ CallOK(p, job[p].kind)'
        /\ ExtentOK(p, job[p].kind, job[p].va, PagesIn(job[p].sz), PagesIn(job[p].new))'
    BY <2>1, <2>2, <2>3, CallAt
  <2>5. \A r \in Slots : r # p => Same(r) /\ Rests(r)
    BY <1>2, <1>12 DEF Same, Rests
  <2>6. q \in Slots => /\ q # p /\ np[p] = q /\ state[q] # "RUNNABLE" /\ Rests(q)
                       /\ state'[q] = "USED"
    BY <1>2, <1>5, <2>5
  <2> QED BY <1>0, <1>4, <1>6, <2>4, <2>5, <2>6, CallStep
<1>15. PagesAreOwned'
  <2>1. PICK o \in Tags : o = RootTag(New(p)) /\ o # ListTag /\ o[1] = "root"
    BY TagFacts, TableNames
  <2>2. PICK own \in [Real -> Tags] : Accounts(own)
    BY DEF IInv, PagesAreOwned
  <2>3. \A r \in Real : own[r] # o
    BY <1>0, <1>4, <2>1, <2>2, LoadFacts, TableNames, NoTableFacts DEF Accounts, PagesOfTable
  <2>4. \A r \in Slots :
           /\ trapframe'[r] = IF o = FrameTag(r) THEN pg ELSE trapframe[r]
           /\ argv'[r] = IF o = ArgvTag(r) THEN argv[r] \cup {pg} ELSE argv[r]
    <3>1. \A r \in Slots : o # FrameTag(r) /\ o # ArgvTag(r)
      BY <2>1, TagFacts
    <3> QED BY <1>2, <3>1
  <2>5. \A t \in Tables :
           /\ table'[t].root = IF o = RootTag(t) THEN pg ELSE table[t].root
           /\ \A n \in Nodes :
                 table'[t].node[n] = IF o = NodeTag(t, n) THEN pg ELSE table[t].node[n]
           /\ \A a \in UserVPs : table'[t].pte[a].page =
                 IF o = UserTag(t, a) THEN pg ELSE table[t].pte[a].page
    <3>1. \A t \in Tables : /\ o = RootTag(t) <=> t = New(p)
                            /\ \A n \in Nodes : o # NodeTag(t, n)
                            /\ \A a \in UserVPs : o # UserTag(t, a)
      BY <2>1, TagFacts, TableNames
    <3>2. \A t \in Tables : table'[t].node = table[t].node
      BY <1>4, <1>8
    <3> QED BY <1>8, <1>9, <3>1, <3>2
  <2>6. Real' = Real /\ Kalloc(pg) /\ mem' = mem /\ o[1] # "hand"
    BY <1>1, <1>2, <1>6, <2>1
  <2> QED BY <2>1, <2>2, <2>3, <2>4, <2>5, <2>6, OwnedTakes
<1> QED BY <1>10, <1>11, <1>13, <1>14, <1>15 DEF IInv

LEMMA ExecArgStep ==
    ASSUME IInv, NEW p \in Slots, ExecArg(p)
    PROVE  IInv'
<1>0. FullTypeOK /\ EntriesOK /\ SlotsOK /\ CallsOK /\ ExtentsOK
  BY DEF IInv
<1>1. PICK pg \in free :
        /\ Kalloc(pg) /\ data' = [data EXCEPT ![pg] = Arg]
        /\ argv' = [argv EXCEPT ![p] = @ \cup {pg}]
  BY DEF ExecArg
<1>2. PICK c \in {"argv", "root"} :
        /\ pc[p] = "argv" /\ pc' = [pc EXCEPT ![p] = c]
        /\ UNCHANGED <<load, state, sz, trapframe, table, job, np, mem, panic>>
  BY DEF ExecArg, procs
<1>3. PICK j \in Job : /\ j = job[p] /\ CallOK(p, j.kind)
                       /\ ExtentOK(p, j.kind, j.va, PagesIn(j.sz), PagesIn(j.new))
  BY <1>0 DEF FullTypeOK, CallsOK, ExtentsOK
<1>4. /\ state[p] = "RUNNABLE" /\ j.kind = "create" /\ mem[p] = NoPage /\ np[p] = NoSlot
  BY <1>2, <1>3 DEF CallOK
<1>5. Real' = Real /\ load'.image = load.image
  BY <1>2 DEF Real
<1>6. pg \in Real /\ pg \in Pages /\ pg # NoPage /\ free' = free \ {pg} /\ free' \subseteq Real
  BY <1>0, <1>1, KallocFacts, LoadFacts DEF Kalloc, FullTypeOK
<1>7. /\ pc'[p] = c /\ argv'[p] = argv[p] \cup {pg}
      /\ \A r \in Slots : r # p => pc'[r] = pc[r] /\ argv'[r] = argv[r]
  BY <1>0, <1>1, <1>2 DEF FullTypeOK
<1>8. FullTypeOK'
  <2>1. data' \in [Pages -> Values \cup {Junk}]
    BY <1>0, <1>1, <1>6, MemoryAssumption DEF FullTypeOK
  <2>2. /\ pc' \in [Slots -> {"user", "argv", "root", "page", "map", "done"}]
        /\ argv' \in [Slots -> SUBSET Pages]
    BY <1>0, <1>1, <1>2, <1>6 DEF FullTypeOK
  <2> QED BY <1>0, <1>2, <1>5, <1>6, <2>1, <2>2 DEF FullTypeOK
<1>9. EntriesOK' /\ SlotsOK'
  BY <1>0, <1>2 DEF EntriesOK, SlotsOK
<1>10. CallsOK' /\ ExtentsOK'
  <2>1. "create" \notin Loops /\ job'[p] = j
    BY <1>2, <1>3 DEF Loops
  <2>2. CallOK(p, j.kind)'
    BY <1>2, <1>3, <1>4, <1>7, <2>1 DEF CallOK
  <2>3. ExtentOK(p, j.kind, j.va, PagesIn(j.sz), PagesIn(j.new))'
    BY <1>2, <1>3, <1>4, <2>1 DEF ExtentOK, PagesIn
  <2>4. /\ CallOK(p, job[p].kind)'
        /\ ExtentOK(p, job[p].kind, job[p].va, PagesIn(job[p].sz), PagesIn(job[p].new))'
    BY <2>1, <2>2, <2>3, CallAt
  <2>5. \A r \in Slots \ {p} : Same(r)
    BY <1>2, <1>7 DEF Same, Rests
  <2> QED BY <1>0, <1>4, <1>5, <2>4, <2>5, Confined
<1>11. PagesAreOwned'
  <2>1. PICK o \in Tags : o = ArgvTag(p) /\ o # ListTag /\ o[1] = "argv"
    BY TagFacts
  <2>2. PICK own \in [Real -> Tags] : Accounts(own)
    BY DEF IInv, PagesAreOwned
  <2>3. \A r \in Slots :
           /\ trapframe'[r] = IF o = FrameTag(r) THEN pg ELSE trapframe[r]
           /\ argv'[r] = IF o = ArgvTag(r) THEN argv[r] \cup {pg} ELSE argv[r]
    <3>1. \A r \in Slots : o # FrameTag(r) /\ (o = ArgvTag(r) <=> r = p)
      BY <2>1, TagFacts
    <3> QED BY <1>2, <1>7, <3>1
  <2>4. \A t \in Tables :
           /\ table'[t].root = IF o = RootTag(t) THEN pg ELSE table[t].root
           /\ \A n \in Nodes :
                 table'[t].node[n] = IF o = NodeTag(t, n) THEN pg ELSE table[t].node[n]
           /\ \A a \in UserVPs : table'[t].pte[a].page =
                 IF o = UserTag(t, a) THEN pg ELSE table[t].pte[a].page
    <3>1. \A t \in Tables : /\ o # RootTag(t) /\ \A n \in Nodes : o # NodeTag(t, n)
                            /\ \A a \in UserVPs : o # UserTag(t, a)
      BY <2>1, TagFacts
    <3> QED BY <1>2, <3>1
  <2>5. Real' = Real /\ Kalloc(pg) /\ mem' = mem /\ o[1] # "hand"
    BY <1>1, <1>2, <1>5, <2>1
  <2> QED BY <2>1, <2>2, <2>3, <2>4, <2>5, OwnedTakes
<1> QED BY <1>8, <1>9, <1>10, <1>11 DEF IInv

-----------------------------------------------------------------------------
(* proc_pagetable is done; kexec goes from segment to segment.             *)

LEMMA WithTrampolineFacts ==
    ASSUME NEW T \in PageTable, NEW q \in Slots, trapframe[q] \in Pages
    PROVE  /\ WithTrampoline(T, q) \in PageTable
           /\ WithTrampoline(T, q).root = T.root /\ WithTrampoline(T, q).node = T.node
           /\ \A a \in UserVPs : WithTrampoline(T, q).pte[a] = T.pte[a]
           /\ WithTrampoline(T, q).pte[TRAMPOLINE].page # NoPage
           /\ WithTrampoline(T, q).pte[TRAPFRAME].page # NoPage
<1> DEFINE e == [page |-> Kernel, user |-> FALSE, write |-> FALSE]
           f == [page |-> trapframe[q], user |-> FALSE, write |-> TRUE]
           U == WithTrampoline(T, q)
<1>1. e \in PTE /\ f \in PTE /\ e.page # NoPage /\ f.page # NoPage
  BY DEF PTE, Pages, NoPage, Kernel
<1>2. /\ UserVPs \subseteq VirtualPages /\ TRAPFRAME \in VirtualPages /\ TRAMPOLINE \in VirtualPages
      /\ TRAPFRAME \notin UserVPs /\ TRAMPOLINE \notin UserVPs /\ TRAPFRAME # TRAMPOLINE
  BY VirtualPagesAre
<1>3. U = [T EXCEPT !.pte[TRAMPOLINE] = e, !.pte[TRAPFRAME] = f]
  BY DEF WithTrampoline
<1> HIDE DEF e, f, U
<1>4. U = [T EXCEPT !.pte = [[T.pte EXCEPT ![TRAMPOLINE] = e] EXCEPT ![TRAPFRAME] = f]]
  BY <1>3 DEF PageTable
<1>5. T.pte \in [VirtualPages -> PTE]
  BY DEF PageTable
<1>6. PICK P \in [VirtualPages -> PTE] :
         /\ P = [[T.pte EXCEPT ![TRAMPOLINE] = e] EXCEPT ![TRAPFRAME] = f]
         /\ P[TRAMPOLINE] = e /\ P[TRAPFRAME] = f
         /\ \A a \in UserVPs : P[a] = T.pte[a]
  <2> DEFINE O == [T.pte EXCEPT ![TRAMPOLINE] = e]
             Q == [O EXCEPT ![TRAPFRAME] = f]
  <2>1. O \in [VirtualPages -> PTE] /\ O[TRAMPOLINE] = e /\ \A a \in UserVPs : O[a] = T.pte[a]
    BY <1>1, <1>2, <1>5
  <2> HIDE DEF O
  <2>2. /\ Q \in [VirtualPages -> PTE] /\ Q[TRAMPOLINE] = e /\ Q[TRAPFRAME] = f
        /\ \A a \in UserVPs : Q[a] = T.pte[a]
    BY <1>1, <1>2, <2>1
  <2> QED BY <2>2 DEF O
<1>7. U = [T EXCEPT !.pte = P]
  BY <1>4, <1>6
<1>8. U \in PageTable /\ U.root = T.root /\ U.node = T.node /\ U.pte = P
  BY <1>6, <1>7 DEF PageTable
<1> QED BY <1>1, <1>6, <1>8 DEF U

\* kexec begins the next segment, or the stack.
LEMMA LoadNextFacts ==
    ASSUME FullTypeOK, NEW p \in Slots, NEW i \in Nat, NEW size \in Nat, LoadNext(p, i, size),
           PagesIn(size) + 2 <= UserPages,
           i \in DOMAIN load.image => size <= load.image[i].end
    PROVE  \E j \in Job, c \in {"page", "done"} :
              /\ job' = [job EXCEPT ![p] = j] /\ pc' = [pc EXCEPT ![p] = c]
              /\ j.kind \in {"segment", "stack"} /\ j.on = New(p) /\ j.va = PagesIn(size)
              /\ PagesIn(j.sz) = PagesIn(size) /\ j.new <= MaxSize
              /\ PagesIn(size) <= PagesIn(j.new)
              /\ c = "done" <=> PagesIn(size) = PagesIn(j.new)
              /\ j.kind = "segment" => /\ j.seg \in DOMAIN load.image
                                       /\ j.new = load.image[j.seg].end
              /\ j.kind = "stack" => PagesIn(j.new) = PagesIn(size) + 2
<1>1. /\ PagesIn(size) \in Nat /\ New(p) \in Tables /\ PagesIn(size) \in VirtualPages
      /\ UserPages \in Nat /\ PageSize \in Nat \ {0}
  <2>1. PagesIn(size) \in Nat /\ UserPages \in Nat
    BY Rounding, VirtualPagesAre
  <2> QED BY <2>1, TableNames, MemoryAssumption DEF VirtualPages, TRAMPOLINE
<1>2. ASSUME NEW k \in Nat, k <= UserPages PROVE k * PageSize <= MaxSize
  <2>1. CASE k = UserPages
    BY <1>1, <2>1, WholePages DEF MaxSize
  <2>2. CASE k < UserPages
    BY <1>1, <1>2, <2>2, Multiples DEF MaxSize
  <2> QED BY <1>1, <1>2, <2>1, <2>2
<1>3. CASE i \in DOMAIN load.image
  <2>1. PICK end \in Nat : /\ end = load.image[i].end
                           /\ PagesIn(end) + 2 <= UserPages
    <3>1. load.image[i] \in Segments /\ Fits(load.image)
      BY <1>3, LoadFacts
    <3>2. load.image[i].end \in Nat
      BY <3>1 DEF Segments
    <3> QED BY <1>3, <3>1, <3>2 DEF Fits
  <2>2. /\ end <= PagesIn(end) * PageSize /\ PagesIn(end) \in Nat /\ size <= end
        /\ PagesIn(size) <= PagesIn(end) /\ PagesIn(end) <= UserPages
    <3>1. size <= end
      BY <1>3, <2>1
    <3>2. end <= PagesIn(end) * PageSize /\ PagesIn(end) \in Nat
      BY Rounding
    <3>3. PagesIn(size) <= PagesIn(end)
      BY <3>1, PagesMonotone
    <3>4. PagesIn(end) <= UserPages
      BY <1>1, <2>1, <3>2
    <3> QED BY <3>1, <3>2, <3>3, <3>4
  <2>3. end <= MaxSize
    <3>1. PagesIn(end) * PageSize <= MaxSize
      BY <1>2, <2>2
    <3>2. PagesIn(end) * PageSize \in Int /\ MaxSize \in Int
      BY <2>2, Multiples, SizesAre
    <3> QED BY <2>1, <2>2, <3>1, <3>2
  <2>4. PICK j \in Job : j = [kind |-> "segment", on |-> New(p), va |-> PagesIn(size),
                              seg |-> i, sz |-> size, new |-> end]
    BY <1>1, <2>1 DEF Job, Loops
  <2>5. Uvmalloc(p, "segment", New(p), i, size, end)
    BY <1>3, <2>1 DEF LoadNext, New
  <2>6. Continue(p, j)
    <3>1. ~(end < size)
      BY <2>1, <2>2
    <3> QED BY <2>4, <2>5, <3>1 DEF Uvmalloc
  <2>7. PICK c \in {"page", "done"} : c = IF j.va < PagesIn(j.new) THEN "page" ELSE "done"
    OBVIOUS
  <2>8. job' = [job EXCEPT ![p] = j] /\ pc' = [pc EXCEPT ![p] = c]
    BY <2>6, <2>7 DEF Continue
  <2>9. /\ j.kind = "segment" /\ j.on = New(p) /\ j.va = PagesIn(size) /\ j.sz = size
        /\ j.new = end /\ j.seg = i
    BY <2>4
  <2>10. c = "done" <=> PagesIn(size) = PagesIn(end)
    BY <1>1, <2>2, <2>7, <2>9
  <2> QED BY <1>3, <2>1, <2>2, <2>3, <2>8, <2>9, <2>10
<1>4. CASE i \notin DOMAIN load.image
  <2> DEFINE k == PagesIn(size)
  <2>1. PICK base \in Nat, top \in Nat :
           /\ base = k * PageSize /\ top = base + 2 * PageSize /\ top = (k + 2) * PageSize
           /\ PagesIn(base) = k /\ PagesIn(top) = k + 2
    <3> HIDE DEF k
    <3>1. k \in Nat /\ k + 2 \in Nat
      BY <1>1 DEF k
    <3>2. /\ k * PageSize \in Nat /\ PagesIn(k * PageSize) = k
          /\ (k + 2) * PageSize \in Nat /\ PagesIn((k + 2) * PageSize) = k + 2
      BY <3>1, WholePages
    <3>3. (k + 2) * PageSize = k * PageSize + 2 * PageSize
      BY <1>1, <3>1, SMT
    <3> QED BY <3>2, <3>3
  <2>2. top <= MaxSize
    <3>1. k + 2 \in Nat /\ k + 2 <= UserPages
      BY <1>1
    <3> HIDE DEF k
    <3> QED BY <1>2, <2>1, <3>1
  <2>3. PICK j \in Job : j = [kind |-> "stack", on |-> New(p), va |-> k, seg |-> i,
                              sz |-> base, new |-> top]
    BY <1>1, <2>1 DEF Job, Loops
  <2>4. Uvmalloc(p, "stack", New(p), i, base, top)
    BY <1>4, <2>1 DEF LoadNext, New
  <2>5. Continue(p, j)
    <3>1. ~(top < base)
      BY <1>1, <2>1
    <3> QED BY <2>1, <2>3, <2>4, <3>1 DEF Uvmalloc
  <2>6. PICK c \in {"page", "done"} : c = IF j.va < PagesIn(j.new) THEN "page" ELSE "done"
    OBVIOUS
  <2>7. job' = [job EXCEPT ![p] = j] /\ pc' = [pc EXCEPT ![p] = c]
    BY <2>5, <2>6 DEF Continue
  <2>8. /\ j.kind = "stack" /\ j.on = New(p) /\ j.va = k /\ PagesIn(j.sz) = k
        /\ PagesIn(j.new) = k + 2 /\ j.new = top
    BY <2>1, <2>3
  <2>9. (c = "done" <=> k = k + 2) /\ k <= k + 2
    BY <1>1, <2>6, <2>8
  <2> QED BY <2>2, <2>7, <2>8, <2>9
<1> QED BY <1>3, <1>4

\* The call of p is at the beginning of a segment or of the stack.
LEMMA LoadCall ==
    ASSUME NEW p \in Slots, NEW j \in Job, NEW c \in {"page", "done"}, NEW v \in Nat,
           job'[p] = j, pc'[p] = c, state'[p] = "RUNNABLE", np'[p] = NoSlot, mem'[p] = NoPage,
           load'.image = load.image,
           j.kind \in {"segment", "stack"}, j.on = New(p), j.va = v,
           PagesIn(j.sz) = v, j.new <= MaxSize, v <= PagesIn(j.new),
           c = "done" <=> v = PagesIn(j.new),
           j.kind = "segment" => /\ j.seg \in DOMAIN load.image
                                 /\ j.new = load.image[j.seg].end,
           j.kind = "stack" => PagesIn(j.new) = v + 2,
           \A a \in UserVPs : Mapped(table'[New(p)], a) <=> a < v,
           Below(table[Own(p)], PagesIn(sz[p]))'
    PROVE  /\ CallOK(p, job[p].kind)'
           /\ ExtentOK(p, job[p].kind, job[p].va, PagesIn(job[p].sz), PagesIn(job[p].new))'
<1>1. CallOK(p, j.kind)'
  BY DEF CallOK, Loops
<1>2. ExtentOK(p, j.kind, j.va, PagesIn(j.sz), PagesIn(j.new))'
  <2>1. PICK last \in Nat : last = PagesIn(j.new)
    BY Rounding DEF Job
  <2>2. ExtentOK(p, j.kind, v, v, last)'
    BY <2>1 DEF ExtentOK, Loops
  <2> QED BY <2>1, <2>2
<1> QED BY <1>1, <1>2, CallAt

LEMMA ExecCreatedStep ==
    ASSUME IInv, NEW p \in Slots, ExecCreated(p)
    PROVE  IInv'
<1>0. FullTypeOK /\ EntriesOK /\ SlotsOK /\ CallsOK /\ ExtentsOK
  BY DEF IInv
<1>1. /\ pc[p] = "map" /\ job[p].kind = "create" /\ np[p] = NoSlot
      /\ table' = [table EXCEPT ![New(p)] = WithTrampoline(@, p)]
      /\ LoadNext(p, 1, 0)
      /\ UNCHANGED <<load, free, data, state, sz, trapframe, np, mem, argv, panic>>
  BY DEF ExecCreated, Creating, kmem, New
<1>2. /\ CallOK(p, "create")
      /\ ExtentOK(p, "create", job[p].va, PagesIn(job[p].sz), PagesIn(job[p].new))
  BY <1>0, <1>1 DEF CallsOK, ExtentsOK
<1>3. /\ state[p] = "RUNNABLE" /\ mem[p] = NoPage
      /\ \A a \in VirtualPages : ~Mapped(table[New(p)], a)
      /\ Below(table[Own(p)], PagesIn(sz[p]))
      /\ trapframe[p] \in Pages
  BY <1>0, <1>1, <1>2 DEF CallOK, ExtentOK, SlotsOK, FullTypeOK
<1>4. PICK j \in Job, c \in {"page", "done"} :
              /\ job' = [job EXCEPT ![p] = j] /\ pc' = [pc EXCEPT ![p] = c]
              /\ j.kind \in {"segment", "stack"} /\ j.on = New(p) /\ j.va = 0
              /\ PagesIn(j.sz) = 0 /\ j.new <= MaxSize
              /\ 0 <= PagesIn(j.new)
              /\ c = "done" <=> 0 = PagesIn(j.new)
              /\ j.kind = "segment" => /\ j.seg \in DOMAIN load.image
                                       /\ j.new = load.image[j.seg].end
              /\ j.kind = "stack" => PagesIn(j.new) = 0 + 2
  <2>1. PagesIn(0) = 0
    BY SizesAre
  <2>2. PagesIn(0) + 2 <= UserPages
    BY <2>1, MemoryAssumption
  <2>3. 1 \in DOMAIN load.image => 0 <= load.image[1].end
    <3>1. ASSUME 1 \in DOMAIN load.image PROVE load.image[1] \in Segments
      BY <1>0, <3>1, LoadFacts
    <3> QED BY <3>1 DEF Segments
  <2> QED BY <1>0, <1>1, <2>1, <2>2, <2>3, LoadNextFacts
<1>5. /\ job'[p] = j /\ pc'[p] = c
      /\ \A r \in Slots : r # p => job'[r] = job[r] /\ pc'[r] = pc[r]
  BY <1>0, <1>4 DEF FullTypeOK
<1>6. /\ table' \in [Tables -> PageTable]
      /\ \A u \in Tables : u # New(p) => table'[u] = table[u]
      /\ table'[New(p)].root = table[New(p)].root /\ table'[New(p)].node = table[New(p)].node
      /\ \A a \in UserVPs : table'[New(p)].pte[a] = table[New(p)].pte[a]
      /\ table'[New(p)].pte[TRAMPOLINE].page # NoPage
      /\ table'[New(p)].pte[TRAPFRAME].page # NoPage
  <2>1. New(p) \in Tables /\ table \in [Tables -> PageTable] /\ table[New(p)] \in PageTable
    BY <1>0, TableNames DEF FullTypeOK
  <2>2. PICK U \in PageTable :
           /\ U = WithTrampoline(table[New(p)], p)
           /\ U.root = table[New(p)].root /\ U.node = table[New(p)].node
           /\ \A a \in UserVPs : U.pte[a] = table[New(p)].pte[a]
           /\ U.pte[TRAMPOLINE].page # NoPage /\ U.pte[TRAPFRAME].page # NoPage
    BY <1>3, <2>1, WithTrampolineFacts
  <2>3. table' = [table EXCEPT ![New(p)] = U]
    BY <1>1, <2>2
  <2>4. table' \in [Tables -> PageTable] /\ table'[New(p)] = U
        /\ \A u \in Tables : u # New(p) => table'[u] = table[u]
    BY <2>1, <2>3
  <2> QED BY <2>2, <2>4
<1>7. Real' = Real /\ load'.image = load.image
  BY <1>1 DEF Real
<1>8. FullTypeOK'
  <2>1. /\ pc' \in [Slots -> {"user", "argv", "root", "page", "map", "done"}]
        /\ job' \in [Slots -> Job]
    BY <1>0, <1>4 DEF FullTypeOK
  <2> QED BY <1>0, <1>1, <1>6, <1>7, <2>1 DEF FullTypeOK
<1>9. EntriesOK'
  <2>1. ASSUME NEW t \in Tables, NEW a \in VirtualPages
        PROVE  /\ table'[t].pte[a].page = NoPage => table'[t].pte[a] = NoPte
               /\ a \in UserVPs => table'[t].pte[a].page # Kernel
    <3>1. a \in UserVPs \/ a = TRAMPOLINE \/ a = TRAPFRAME
      BY MemoryAssumption DEF UserVPs, VirtualPages, TRAMPOLINE, TRAPFRAME
    <3>2. TRAMPOLINE \notin UserVPs /\ TRAPFRAME \notin UserVPs
      BY VirtualPagesAre
    <3> QED BY <1>0, <1>6, <3>1, <3>2 DEF EntriesOK
  <2> QED BY <2>1 DEF EntriesOK
<1>10. \A r \in Slots : /\ table'[Own(r)] = table[Own(r)]
                        /\ r # p => table'[New(r)] = table[New(r)]
  BY <1>6, TableNames
<1>11. SlotsOK'
  BY <1>0, <1>1, <1>10 DEF SlotsOK
<1>12. CallsOK' /\ ExtentsOK'
  <2>1. \A a \in UserVPs : Mapped(table'[New(p)], a) <=> a < 0
    <3>1. \A a \in UserVPs : ~Mapped(table'[New(p)], a)
      BY <1>3, <1>6, VirtualPagesAre DEF Mapped
    <3> QED BY <3>1 DEF UserVPs
  <2>2. Below(table[Own(p)], PagesIn(sz[p]))'
    BY <1>1, <1>3, <1>10 DEF PagesIn
  <2>3. /\ CallOK(p, job[p].kind)'
        /\ ExtentOK(p, job[p].kind, job[p].va, PagesIn(job[p].sz), PagesIn(job[p].new))'
    BY <1>1, <1>3, <1>4, <1>5, <1>7, <2>1, <2>2, LoadCall
  <2>4. \A r \in Slots \ {p} : Same(r)
    BY <1>1, <1>5, <1>10 DEF Same, Rests
  <2> QED BY <1>0, <1>3, <1>7, <2>3, <2>4, Confined
<1>13. PagesAreOwned'
  <2>1. UNCHANGED <<free, trapframe, mem, argv>>
    BY <1>1
  <2> QED BY <1>6, <1>7, <2>1, OwnedStays
<1> QED BY <1>8, <1>9, <1>11, <1>12, <1>13 DEF IInv

LEMMA ExecLoadedStep ==
    ASSUME IInv, NEW p \in Slots, ExecLoaded(p)
    PROVE  IInv'
<1>0. FullTypeOK /\ EntriesOK /\ SlotsOK /\ CallsOK /\ ExtentsOK
  BY DEF IInv
<1>1. PICK i : i = job[p].seg
  OBVIOUS
<1>2. PICK seg : seg = load.image[i]
  OBVIOUS
<1>3. /\ pc[p] = "done" /\ job[p].kind = "segment"
      /\ panic' = (panic \/ \E a \in seg.first..(seg.first + seg.file - 1) :
                               ~Mapped(table[New(p)], a))
      /\ data' \in [Pages -> Values \cup {Junk}]
      /\ LoadNext(p, i + 1, job[p].new)
      /\ UNCHANGED <<load, free, state, sz, trapframe, table, np, mem, argv>>
  <2>1. data' = [pg \in Pages |->
                   IF \E a \in seg.first..(seg.first + seg.file - 1) :
                         table[New(p)].pte[a].page = pg THEN Text ELSE data[pg]]
    BY <1>1, <1>2 DEF ExecLoaded, New
  <2>2. data' \in [Pages -> Values \cup {Junk}]
    BY <1>0, <2>1, MemoryAssumption DEF FullTypeOK
  <2> QED BY <1>1, <1>2, <2>2 DEF ExecLoaded, procs, New
<1>4. /\ CallOK(p, "segment")
      /\ ExtentOK(p, "segment", job[p].va, PagesIn(job[p].sz), PagesIn(job[p].new))
      /\ job[p].new \in Nat
  BY <1>0, <1>3 DEF CallsOK, ExtentsOK, FullTypeOK, Job
<1>5. PICK v \in Nat, size \in Nat :
         /\ v = job[p].va /\ size = job[p].new /\ v = PagesIn(size)
         /\ state[p] = "RUNNABLE" /\ mem[p] = NoPage /\ np[p] = NoSlot
         /\ \A a \in UserVPs : Mapped(table[New(p)], a) <=> a < v
         /\ Below(table[Own(p)], PagesIn(sz[p]))
         /\ i \in DOMAIN load.image /\ size = seg.end
  BY <1>1, <1>2, <1>3, <1>4, Rounding DEF CallOK, ExtentOK, Loops
<1>6. /\ i \in Nat /\ seg \in Segments /\ seg.end \in Nat /\ seg.first \in Nat /\ seg.file \in Nat
      /\ (seg.first + seg.file - 1) * PageSize < seg.end
      /\ PagesIn(seg.end) + 2 <= UserPages
      /\ i + 1 \in DOMAIN load.image => seg.end <= load.image[i + 1].end
  <2>1. load.image \in Seq(Segments) /\ Fits(load.image)
    BY <1>0, LoadFacts
  <2>2. i \in Nat /\ i >= 1 /\ seg \in Segments
    BY <1>2, <1>5, <2>1
  <2>3. i + 1 \in DOMAIN load.image => i \in 1..(i + 1)
    BY <2>2
  <2> QED BY <1>2, <1>5, <2>1, <2>2, <2>3 DEF Fits, Segments
<1>7. panic' = FALSE
  <2>1. ASSUME NEW a \in seg.first..(seg.first + seg.file - 1) PROVE Mapped(table[New(p)], a)
    <3>1. a \in Nat /\ seg.first + seg.file - 1 \in Int /\ a <= seg.first + seg.file - 1
      BY <1>6
    <3>2. seg.first + seg.file - 1 < PagesIn(seg.end)
      BY <1>6, <3>1, PageBelow
    <3>3. a < v /\ a < UserPages
      BY <1>5, <1>6, <3>1, <3>2, VirtualPagesAre
    <3>4. a \in UserVPs
      BY <3>1, <3>3, VirtualPagesAre DEF UserVPs
    <3> QED BY <1>5, <3>3, <3>4
  <2> QED BY <1>0, <1>3, <2>1 DEF FullTypeOK
<1>8. PICK j \in Job, c \in {"page", "done"} :
              /\ job' = [job EXCEPT ![p] = j] /\ pc' = [pc EXCEPT ![p] = c]
              /\ j.kind \in {"segment", "stack"} /\ j.on = New(p) /\ j.va = v
              /\ PagesIn(j.sz) = v /\ j.new <= MaxSize
              /\ v <= PagesIn(j.new)
              /\ c = "done" <=> v = PagesIn(j.new)
              /\ j.kind = "segment" => /\ j.seg \in DOMAIN load.image
                                       /\ j.new = load.image[j.seg].end
              /\ j.kind = "stack" => PagesIn(j.new) = v + 2
  BY <1>0, <1>3, <1>5, <1>6, LoadNextFacts
<1>9. /\ job'[p] = j /\ pc'[p] = c
      /\ \A r \in Slots : r # p => job'[r] = job[r] /\ pc'[r] = pc[r]
  BY <1>0, <1>8 DEF FullTypeOK
<1>10. Real' = Real /\ load'.image = load.image
  BY <1>3 DEF Real
<1>11. FullTypeOK'
  <2>1. /\ pc' \in [Slots -> {"user", "argv", "root", "page", "map", "done"}]
        /\ job' \in [Slots -> Job]
    BY <1>0, <1>8 DEF FullTypeOK
  <2> QED BY <1>0, <1>3, <1>7, <1>10, <2>1 DEF FullTypeOK
<1>12. EntriesOK' /\ SlotsOK'
  BY <1>0, <1>3 DEF EntriesOK, SlotsOK
<1>13. CallsOK' /\ ExtentsOK'
  <2>1. Below(table[Own(p)], PagesIn(sz[p]))'
    BY <1>3, <1>5 DEF PagesIn
  <2>2. \A a \in UserVPs : Mapped(table'[New(p)], a) <=> a < v
    BY <1>3, <1>5
  <2>3. /\ CallOK(p, job[p].kind)'
        /\ ExtentOK(p, job[p].kind, job[p].va, PagesIn(job[p].sz), PagesIn(job[p].new))'
    BY <1>3, <1>5, <1>8, <1>9, <1>10, <2>1, <2>2, LoadCall
  <2>4. \A r \in Slots \ {p} : Same(r)
    BY <1>3, <1>9 DEF Same, Rests
  <2> QED BY <1>0, <1>5, <1>10, <2>3, <2>4, Confined
<1>14. PagesAreOwned'
  BY <1>3, <1>10, OwnedStays
<1> QED BY <1>11, <1>12, <1>13, <1>14 DEF IInv

-----------------------------------------------------------------------------
(* Steps that free pages.                                                  *)

\* The tags of a page table.
TagsOf(t) ==
    {RootTag(t)} \cup {NodeTag(t, n) : n \in Nodes} \cup {UserTag(t, a) : a \in UserVPs}
RangeTags(t, from, to) == {UserTag(t, a) : a \in {b \in UserVPs : from <= b /\ b < to}}
SlotTags == {FrameTag(p) : p \in Slots} \cup {HandTag(p) : p \in Slots}
            \cup {ArgvTag(p) : p \in Slots}

\* The pages of a table with nothing mapped from n on.
LEMMA WholeTable ==
    ASSUME NEW own, Accounts(own), FullTypeOK, EntriesOK, NEW t \in Tables,
           NEW n \in Nat, n <= UserPages, Below(table[t], n)
    PROVE  /\ TablePages(table[t]) \cup PagesOf(table[t], 0, n) \subseteq Real
           /\ \A r \in Real : r \in TablePages(table[t]) \cup PagesOf(table[t], 0, n)
                                 <=> own[r] \in TagsOf(t)
<1>1. /\ TablePages(table[t]) \subseteq Real
      /\ \A r \in Real : r \in TablePages(table[t])
            <=> own[r] = RootTag(t) \/ \E m \in Nodes : own[r] = NodeTag(t, m)
  BY PagesHeld
<1>2. /\ PagesOf(table[t], 0, n) \subseteq Real
      /\ \A r \in Real : r \in PagesOf(table[t], 0, n)
            <=> \E a \in UserVPs : 0 <= a /\ a < n /\ own[r] = UserTag(t, a)
  BY UserPagesHeld
<1>3. ASSUME NEW r \in Real, NEW a \in UserVPs, own[r] = UserTag(t, a) PROVE 0 <= a /\ a < n
  <2>1. table[t].pte[a].page = r /\ r # NoPage
    BY <1>3, LoadFacts DEF Accounts, PagesOfTable
  <2>2. Mapped(table[t], a)
    BY <2>1, MappedIs, VirtualPagesAre
  <2> QED BY <2>2 DEF Below, UserVPs
<1>4. ASSUME NEW r \in Real
      PROVE  r \in PagesOf(table[t], 0, n) <=> \E a \in UserVPs : own[r] = UserTag(t, a)
  BY <1>2, <1>3
<1> QED BY <1>1, <1>2, <1>4 DEF TagsOf

\* The pages of two ranges, one after the other.
LEMMA TwoRanges ==
    ASSUME NEW T, NEW m \in Nat, NEW n \in Nat, m <= n
    PROVE  PagesOf(T, 0, n) = PagesOf(T, 0, m) \cup PagesOf(T, m, n)
<1>1. \A a : a \in 0..(n - 1) <=> a \in 0..(m - 1) \/ a \in m..(n - 1)
  OBVIOUS
<1> QED BY <1>1 DEF PagesOf

\* S holds the pages with the tags of O and of E.
Takes(own, O, E, S) == \A r \in Real : r \in S <=> own[r] \in O \/ own[r] \in E

\* The places of the processes that the tags of E name are emptied, the others kept.
Empties(E) ==
    \A p \in Slots :
       /\ trapframe'[p] = IF FrameTag(p) \in E THEN NoPage ELSE trapframe[p]
       /\ mem'[p] = IF HandTag(p) \in E THEN NoPage ELSE mem[p]
       /\ argv'[p] = IF ArgvTag(p) \in E THEN {} ELSE argv[p]

\* A page table is freed with its pages, and the pages with the tags of E.
LEMMA TableIsFreed ==
    ASSUME NEW own \in [Real -> Tags], Accounts(own), Real' = Real, NoPage \notin Real,
           NEW t \in Tables, NEW E \in SUBSET SlotTags, NEW S \in SUBSET Real,
           Takes(own, TagsOf(t), E, S),
           free' = free \cup S, table \in [Tables -> PageTable],
           table' = [table EXCEPT ![t] = NoTable],
           Empties(E)
    PROVE  PagesAreOwned'
<1> USE DEF Takes, Empties
<1> DEFINE D == TagsOf(t) \cup E
<1>1. /\ \A o \in TagsOf(t) : o[1] \in {"root", "node", "user"} /\ o[2] = t
      /\ \A o \in E : o[1] \in {"trapframe", "hand", "argv"}
  <2>1. \A o \in E : o \in SlotTags
    OBVIOUS
  <2> QED BY <2>1, TagFacts DEF TagsOf, SlotTags
<1>2. ListTag \notin D
  BY <1>1, TagFacts
<1>3. \A p \in Slots : /\ FrameTag(p) \in D <=> FrameTag(p) \in E
                       /\ HandTag(p) \in D <=> HandTag(p) \in E
                       /\ ArgvTag(p) \in D <=> ArgvTag(p) \in E
  BY <1>1, TagFacts
<1>4. \A u \in Tables : /\ RootTag(u) \in D <=> u = t
                        /\ \A n \in Nodes : NodeTag(u, n) \in D <=> u = t
                        /\ \A a \in UserVPs : UserTag(u, a) \in D <=> u = t
  <2>1. RootTag(t) \in D /\ (\A n \in Nodes : NodeTag(t, n) \in D)
        /\ (\A a \in UserVPs : UserTag(t, a) \in D)
    BY DEF TagsOf
  <2>2. \A u \in Tables : /\ RootTag(u) \in D => u = t
                          /\ \A n \in Nodes : NodeTag(u, n) \in D => u = t
                          /\ \A a \in UserVPs : UserTag(u, a) \in D => u = t
    BY <1>1, TagFacts
  <2> QED BY <2>1, <2>2
<1>5. free' = free \cup PagesWith(own, D)
  <2>1. S = PagesWith(own, D)
    BY DEF PagesWith
  <2> QED BY <2>1
<1> HIDE DEF D
<1>6. \A u \in Tables : table'[u] = IF u = t THEN NoTable ELSE table[u]
  OBVIOUS
<1>7. \A u \in Tables :
         /\ table'[u].root = IF RootTag(u) \in D THEN NoPage ELSE table[u].root
         /\ \A n \in Nodes : table'[u].node[n] =
               IF NodeTag(u, n) \in D THEN NoPage ELSE table[u].node[n]
         /\ \A a \in UserVPs : table'[u].pte[a].page =
               IF UserTag(u, a) \in D THEN NoPage ELSE table[u].pte[a].page
  BY <1>4, <1>6, NoTableFacts, VirtualPagesAre
<1>8. \A p \in Slots :
         /\ trapframe'[p] = IF FrameTag(p) \in D THEN NoPage ELSE trapframe[p]
         /\ mem'[p] = IF HandTag(p) \in D THEN NoPage ELSE mem[p]
         /\ argv'[p] = IF ArgvTag(p) \in D THEN {} ELSE argv[p]
  BY <1>3
<1>9. Freed(own, D) \in [Real -> Tags] /\ Accounts(Freed(own, D))'
  BY <1>2, <1>5, <1>7, <1>8, FreedAccounts
<1> QED BY <1>9 DEF PagesAreOwned

\* A range of user pages is freed, and what is in the hand of p, when E has its tag.
LEMMA RangeIsFreed ==
    ASSUME NEW own \in [Real -> Tags], Accounts(own), Real' = Real, NoPage \notin Real,
           NEW t \in Tables, NEW from \in Nat, NEW to \in Nat, NEW E \in SUBSET SlotTags,
           NEW S \in SUBSET Real,
           Takes(own, RangeTags(t, from, to), E, S),
           free' = free \cup S, table \in [Tables -> PageTable],
           table'[t] = Unmap(table[t], from, to), \A u \in Tables : u # t => table'[u] = table[u],
           Empties(E)
    PROVE  PagesAreOwned'
<1> USE DEF Takes, Empties
<1> DEFINE D == RangeTags(t, from, to) \cup E
<1>1. /\ \A o \in RangeTags(t, from, to) :
            o[1] = "user" /\ o[2] = t /\ from <= o[3] /\ o[3] < to
      /\ \A o \in E : o[1] \in {"trapframe", "hand", "argv"}
  <2>1. \A o \in E : o \in SlotTags
    OBVIOUS
  <2>2. \A o \in RangeTags(t, from, to) :
           \E a \in UserVPs : o = UserTag(t, a) /\ from <= a /\ a < to
    BY DEF RangeTags
  <2> QED BY <2>1, <2>2, TagFacts DEF SlotTags
<1>2. ListTag \notin D
  BY <1>1, TagFacts
<1>3. \A p \in Slots : /\ FrameTag(p) \in D <=> FrameTag(p) \in E
                       /\ HandTag(p) \in D <=> HandTag(p) \in E
                       /\ ArgvTag(p) \in D <=> ArgvTag(p) \in E
  BY <1>1, TagFacts
<1>4. \A u \in Tables : /\ RootTag(u) \notin D
                        /\ \A n \in Nodes : NodeTag(u, n) \notin D
                        /\ \A a \in UserVPs :
                              UserTag(u, a) \in D <=> u = t /\ from <= a /\ a < to
  <2>1. \A a \in UserVPs : from <= a /\ a < to => UserTag(t, a) \in D
    BY DEF RangeTags
  <2>2. \A u \in Tables : /\ RootTag(u) \notin D
                          /\ \A n \in Nodes : NodeTag(u, n) \notin D
                          /\ \A a \in UserVPs :
                                UserTag(u, a) \in D => u = t /\ from <= a /\ a < to
    BY <1>1, TagFacts
  <2> QED BY <2>1, <2>2
<1>5. free' = free \cup PagesWith(own, D)
  <2>1. S = PagesWith(own, D)
    BY DEF PagesWith
  <2> QED BY <2>1
<1> HIDE DEF D
<1>6. /\ \A u \in Tables : u # t => table'[u] = table[u]
      /\ table'[t].root = table[t].root /\ table'[t].node = table[t].node
      /\ \A a \in UserVPs : table'[t].pte[a] = IF from <= a /\ a < to THEN NoPte ELSE table[t].pte[a]
  <2>1. table'[t] = Unmap(table[t], from, to) /\ \A u \in Tables : u # t => table'[u] = table[u]
    OBVIOUS
  <2>2. table[t] \in PageTable
    OBVIOUS
  <2>3. /\ Unmap(table[t], from, to).root = table[t].root
        /\ Unmap(table[t], from, to).node = table[t].node
        /\ Unmap(table[t], from, to).pte =
              [a \in VirtualPages |-> IF a \in from..(to - 1) THEN NoPte ELSE table[t].pte[a]]
    BY <2>2 DEF Unmap, PageTable
  <2>4. \A a \in UserVPs : a \in VirtualPages /\ (a \in from..(to - 1) <=> from <= a /\ a < to)
    BY VirtualPagesAre DEF UserVPs
  <2> QED BY <2>1, <2>3, <2>4
<1>7. \A u \in Tables :
         /\ table'[u].root = IF RootTag(u) \in D THEN NoPage ELSE table[u].root
         /\ \A n \in Nodes : table'[u].node[n] =
               IF NodeTag(u, n) \in D THEN NoPage ELSE table[u].node[n]
         /\ \A a \in UserVPs : table'[u].pte[a].page =
               IF UserTag(u, a) \in D THEN NoPage ELSE table[u].pte[a].page
  BY <1>4, <1>6, NoTableFacts
<1>8. \A p \in Slots :
         /\ trapframe'[p] = IF FrameTag(p) \in D THEN NoPage ELSE trapframe[p]
         /\ mem'[p] = IF HandTag(p) \in D THEN NoPage ELSE mem[p]
         /\ argv'[p] = IF ArgvTag(p) \in D THEN {} ELSE argv[p]
  BY <1>3
<1>9. Freed(own, D) \in [Real -> Tags] /\ Accounts(Freed(own, D))'
  BY <1>2, <1>5, <1>7, <1>8, FreedAccounts
<1> QED BY <1>9 DEF PagesAreOwned

\* Only pages with the tags of E are freed.
LEMMA SlotPagesAreFreed ==
    ASSUME NEW own \in [Real -> Tags], Accounts(own), Real' = Real, NoPage \notin Real,
           NEW E \in SUBSET SlotTags, NEW S \in SUBSET Real,
           \A r \in Real : r \in S <=> own[r] \in E,
           free' = free \cup S, table' = table,
           Empties(E)
    PROVE  PagesAreOwned'
<1> USE DEF Empties
<1>1. \A o \in E : o[1] \in {"trapframe", "hand", "argv"}
  <2>1. \A o \in E : o \in SlotTags
    OBVIOUS
  <2> QED BY <2>1, TagFacts DEF SlotTags
<1>2. ListTag \notin E
  BY <1>1, TagFacts
<1>3. \A u \in Tables :
         /\ table'[u].root = IF RootTag(u) \in E THEN NoPage ELSE table[u].root
         /\ \A n \in Nodes : table'[u].node[n] =
               IF NodeTag(u, n) \in E THEN NoPage ELSE table[u].node[n]
         /\ \A a \in UserVPs : table'[u].pte[a].page =
               IF UserTag(u, a) \in E THEN NoPage ELSE table[u].pte[a].page
  <2>1. \A u \in Tables : /\ RootTag(u) \notin E /\ \A n \in Nodes : NodeTag(u, n) \notin E
                          /\ \A a \in UserVPs : UserTag(u, a) \notin E
    BY <1>1, TagFacts
  <2> QED BY <2>1
<1>4. free' = free \cup PagesWith(own, E)
  <2>1. S = PagesWith(own, E)
    BY DEF PagesWith
  <2> QED BY <2>1
<1>5. Freed(own, E) \in [Real -> Tags] /\ Accounts(Freed(own, E))'
  BY <1>2, <1>3, <1>4, FreedAccounts
<1> QED BY <1>5 DEF PagesAreOwned

LEMMA KfreeFacts ==
    ASSUME FullTypeOK, NEW S \in SUBSET Real, Kfree(S)
    PROVE  free' = free \cup S /\ free' \subseteq Real /\ data' \in [Pages -> Values \cup {Junk}]
  BY DEF FullTypeOK, Kfree

LEMMA ReturnFacts ==
    ASSUME FullTypeOK, NEW p \in Slots, Return(p)
    PROVE  /\ pc'[p] = "user" /\ job'[p] = NoJob /\ mem'[p] = NoPage
           /\ \A r \in Slots : r # p => pc'[r] = pc[r] /\ job'[r] = job[r] /\ mem'[r] = mem[r]
           /\ pc' \in [Slots -> {"user", "argv", "root", "page", "map", "done"}]
           /\ job' \in [Slots -> Job] /\ mem' \in [Slots -> Pages \cup {NoPage}]
  BY JobsAre DEF FullTypeOK, Return

\* The tags of one process, and of one that it has in hand.
LEMMA SlotTagFacts ==
    ASSUME NEW p \in Slots
    PROVE  /\ FrameTag(p) \in SlotTags /\ HandTag(p) \in SlotTags /\ ArgvTag(p) \in SlotTags
           /\ \A r \in Slots : /\ FrameTag(r) = FrameTag(p) <=> r = p
                               /\ HandTag(r) = HandTag(p) <=> r = p
                               /\ ArgvTag(r) = ArgvTag(p) <=> r = p
                               /\ FrameTag(r) # HandTag(p) /\ FrameTag(r) # ArgvTag(p)
                               /\ HandTag(r) # FrameTag(p) /\ HandTag(r) # ArgvTag(p)
                               /\ ArgvTag(r) # FrameTag(p) /\ ArgvTag(r) # HandTag(p)
  BY TagFacts DEF SlotTags

LEMMA FaultFailsStep ==
    ASSUME IInv, NEW p \in Slots, FaultFails(p)
    PROVE  IInv'
<1>0. FullTypeOK /\ EntriesOK /\ SlotsOK /\ CallsOK /\ ExtentsOK
  BY DEF IInv
<1>1. PICK S : /\ S = InHand(p) /\ Kfree(S) /\ Return(p)
               /\ pc[p] \in {"page", "map"} /\ job[p].kind = "fault"
               /\ UNCHANGED <<load, state, sz, trapframe, table, np, argv, panic>>
  BY DEF FaultFails, OutOfMemory, procs
<1>2. CallOK(p, "fault") /\ ExtentOK(p, "fault", job[p].va, PagesIn(job[p].sz), PagesIn(job[p].new))
  BY <1>0, <1>1 DEF CallsOK, ExtentsOK
<1>3. /\ state[p] = "RUNNABLE" /\ np[p] = NoSlot /\ argv[p] = {}
      /\ table[New(p)] = NoTable /\ Below(table[Own(p)], PagesIn(sz[p]))
  BY <1>1, <1>2 DEF CallOK, ExtentOK
<1>4. PICK own \in [Real -> Tags] : Accounts(own)
  BY DEF IInv, PagesAreOwned
<1>5. S \in SUBSET Real /\ \A r \in Real : r \in S <=> own[r] = HandTag(p)
  BY <1>0, <1>1, <1>4, PagesHeld
<1>6. free' = free \cup S /\ free' \subseteq Real /\ data' \in [Pages -> Values \cup {Junk}]
  BY <1>0, <1>1, <1>5, KfreeFacts
<1>7. Real' = Real /\ load'.image = load.image
  BY <1>1 DEF Real
<1>8. /\ pc'[p] = "user" /\ job'[p] = NoJob /\ mem'[p] = NoPage
      /\ \A r \in Slots : r # p => pc'[r] = pc[r] /\ job'[r] = job[r] /\ mem'[r] = mem[r]
      /\ pc' \in [Slots -> {"user", "argv", "root", "page", "map", "done"}]
      /\ job' \in [Slots -> Job] /\ mem' \in [Slots -> Pages \cup {NoPage}]
  BY <1>0, <1>1, ReturnFacts
<1>9. FullTypeOK'
  BY <1>0, <1>1, <1>6, <1>7, <1>8 DEF FullTypeOK
<1>10. EntriesOK' /\ SlotsOK'
  BY <1>0, <1>1 DEF EntriesOK, SlotsOK
<1>11. CallsOK' /\ ExtentsOK'
  <2>1. Below(table[Own(p)], PagesIn(sz[p]))'
    BY <1>1, <1>3 DEF PagesIn
  <2>2. /\ CallOK(p, job[p].kind)'
        /\ ExtentOK(p, job[p].kind, job[p].va, PagesIn(job[p].sz), PagesIn(job[p].new))'
    BY <1>1, <1>3, <1>8, <2>1, ReturnedCall
  <2>3. \A r \in Slots \ {p} : Same(r)
    BY <1>1, <1>8 DEF Same, Rests
  <2> QED BY <1>0, <1>3, <1>7, <2>2, <2>3, Confined
<1>12. PagesAreOwned'
  <2> DEFINE E == {HandTag(p)}
  <2>1. E \in SUBSET SlotTags /\ \A r \in Real : r \in S <=> own[r] \in E
    BY <1>5, SlotTagFacts
  <2>2. \A r \in Slots :
           /\ trapframe'[r] = IF FrameTag(r) \in E THEN NoPage ELSE trapframe[r]
           /\ mem'[r] = IF HandTag(r) \in E THEN NoPage ELSE mem[r]
           /\ argv'[r] = IF ArgvTag(r) \in E THEN {} ELSE argv[r]
    BY <1>1, <1>8, SlotTagFacts
  <2> HIDE DEF E
  <2>3. table' = table /\ NoPage \notin Real
    BY <1>0, <1>1, LoadFacts
  <2>4. Empties(E)
    BY <2>2 DEF Empties
  <2> QED BY <1>4, <1>5, <1>6, <1>7, <2>1, <2>3, <2>4, SlotPagesAreFreed
<1> QED BY <1>9, <1>10, <1>11, <1>12 DEF IInv

LEMMA ExecRefusedStep ==
    ASSUME IInv, NEW p \in Slots, ExecRefused(p)
    PROVE  IInv'
<1>0. FullTypeOK /\ EntriesOK /\ SlotsOK /\ CallsOK /\ ExtentsOK
  BY DEF IInv
<1>1. PICK S : /\ S = argv[p] /\ Kfree(S) /\ Return(p)
               /\ pc[p] \in {"argv", "root"} /\ np[p] = NoSlot
               /\ argv' = [argv EXCEPT ![p] = {}]
               /\ UNCHANGED <<load, state, sz, trapframe, table, np, panic>>
  BY DEF ExecRefused, procs
<1>2. CallOK(p, job[p].kind) /\ ExtentOK(p, job[p].kind, job[p].va, PagesIn(job[p].sz), PagesIn(job[p].new))
  BY <1>0 DEF CallsOK, ExtentsOK
<1>3. /\ state[p] = "RUNNABLE" /\ mem[p] = NoPage
      /\ table[New(p)] = NoTable /\ Below(table[Own(p)], PagesIn(sz[p]))
  BY <1>1, <1>2 DEF CallOK, ExtentOK
<1>4. PICK own \in [Real -> Tags] : Accounts(own)
  BY DEF IInv, PagesAreOwned
<1>5. S \in SUBSET Real /\ \A r \in Real : r \in S <=> own[r] = ArgvTag(p)
  BY <1>0, <1>1, <1>4, PagesHeld
<1>6. free' = free \cup S /\ free' \subseteq Real /\ data' \in [Pages -> Values \cup {Junk}]
  BY <1>0, <1>1, <1>5, KfreeFacts
<1>7. Real' = Real /\ load'.image = load.image
  BY <1>1 DEF Real
<1>8. /\ pc'[p] = "user" /\ job'[p] = NoJob /\ mem'[p] = NoPage
      /\ \A r \in Slots : r # p => pc'[r] = pc[r] /\ job'[r] = job[r] /\ mem'[r] = mem[r]
      /\ pc' \in [Slots -> {"user", "argv", "root", "page", "map", "done"}]
      /\ job' \in [Slots -> Job] /\ mem' \in [Slots -> Pages \cup {NoPage}]
  BY <1>0, <1>1, ReturnFacts
<1>9. /\ argv'[p] = {} /\ \A r \in Slots : r # p => argv'[r] = argv[r]
      /\ argv' \in [Slots -> SUBSET Pages]
  BY <1>0, <1>1 DEF FullTypeOK
<1>10. FullTypeOK'
  BY <1>0, <1>1, <1>6, <1>7, <1>8, <1>9 DEF FullTypeOK
<1>11. EntriesOK' /\ SlotsOK'
  BY <1>0, <1>1 DEF EntriesOK, SlotsOK
<1>12. CallsOK' /\ ExtentsOK'
  <2>1. Below(table[Own(p)], PagesIn(sz[p]))'
    BY <1>1, <1>3 DEF PagesIn
  <2>2. /\ CallOK(p, job[p].kind)'
        /\ ExtentOK(p, job[p].kind, job[p].va, PagesIn(job[p].sz), PagesIn(job[p].new))'
    BY <1>1, <1>3, <1>8, <1>9, <2>1, ReturnedCall
  <2>3. \A r \in Slots \ {p} : Same(r)
    BY <1>1, <1>8, <1>9 DEF Same, Rests
  <2> QED BY <1>0, <1>3, <1>7, <2>2, <2>3, Confined
<1>13. PagesAreOwned'
  <2> DEFINE E == {ArgvTag(p)}
  <2>1. E \in SUBSET SlotTags /\ \A r \in Real : r \in S <=> own[r] \in E
    BY <1>5, SlotTagFacts
  <2>2. \A r \in Slots :
           /\ trapframe'[r] = IF FrameTag(r) \in E THEN NoPage ELSE trapframe[r]
           /\ mem'[r] = IF HandTag(r) \in E THEN NoPage ELSE mem[r]
           /\ argv'[r] = IF ArgvTag(r) \in E THEN {} ELSE argv[r]
    BY <1>1, <1>3, <1>8, <1>9, SlotTagFacts
  <2> HIDE DEF E
  <2>3. table' = table /\ NoPage \notin Real
    BY <1>0, <1>1, LoadFacts
  <2>4. Empties(E)
    BY <2>2 DEF Empties
  <2> QED BY <1>4, <1>5, <1>6, <1>7, <2>1, <2>3, <2>4, SlotPagesAreFreed
<1> QED BY <1>10, <1>11, <1>12, <1>13 DEF IInv

LEMMA UnmapFacts ==
    ASSUME NEW T \in PageTable, NEW from \in Nat, NEW to \in Nat
    PROVE  /\ Unmap(T, from, to) \in PageTable
           /\ \A a \in VirtualPages :
                 /\ Unmap(T, from, to).pte[a] \in {NoPte, T.pte[a]}
                 /\ Mapped(Unmap(T, from, to), a) <=> Mapped(T, a) /\ ~(from <= a /\ a < to)
<1> DEFINE U == Unmap(T, from, to)
           P == [a \in VirtualPages |-> IF a \in from..(to - 1) THEN NoPte ELSE T.pte[a]]
<1>1. P \in [VirtualPages -> PTE]
  BY NoTableFacts DEF PageTable
<1>2. U = [T EXCEPT !.pte = P]
  BY DEF Unmap
<1>3. \A a \in VirtualPages :
         /\ P[a] = IF from <= a /\ a < to THEN NoPte ELSE T.pte[a]
         /\ P[a] \in {NoPte, T.pte[a]}
  <2>1. \A a \in VirtualPages : P[a] = IF a \in from..(to - 1) THEN NoPte ELSE T.pte[a]
    OBVIOUS
  <2>2. \A a \in VirtualPages : a \in from..(to - 1) <=> from <= a /\ a < to
    BY VirtualPagesAre
  <2> HIDE DEF P
  <2> QED BY <2>1, <2>2
<1> HIDE DEF P, U
<1>4. U \in PageTable /\ U.pte = P
  BY <1>1, <1>2 DEF PageTable
<1>5. \A a \in VirtualPages : Mapped(U, a) <=> Mapped(T, a) /\ ~(from <= a /\ a < to)
  BY <1>3, <1>4 DEF Mapped
<1> QED BY <1>3, <1>4, <1>5 DEF U

LEMMA GrowFailsStep ==
    ASSUME IInv, NEW p \in Slots, GrowFails(p)
    PROVE  IInv'
<1>0. FullTypeOK /\ EntriesOK /\ SlotsOK /\ CallsOK /\ ExtentsOK
  BY DEF IInv
<1>t. PICK t \in Tables : t = Own(p)
  BY TableNames
<1>1. PICK S, from, to :
        /\ from = PagesIn(sz[p]) /\ to = job[p].va
        /\ S = InHand(p) \cup PagesOf(table[t], from, to)
        /\ Kfree(S) /\ Return(p)
        /\ table' = [table EXCEPT ![t] = Unmap(@, from, to)]
        /\ pc[p] \in {"page", "map"} /\ job[p].kind = "grow"
        /\ UNCHANGED <<load, state, sz, trapframe, np, argv, panic>>
  BY <1>t DEF GrowFails, OutOfMemory, Own
<1>2. /\ CallOK(p, "grow")
      /\ ExtentOK(p, "grow", job[p].va, PagesIn(job[p].sz), PagesIn(job[p].new))
  BY <1>0, <1>1 DEF CallsOK, ExtentsOK
<1>3. /\ state[p] = "RUNNABLE" /\ np[p] = NoSlot /\ argv[p] = {}
      /\ table[New(p)] = NoTable /\ Below(table[t], to)
      /\ from \in Nat /\ to \in Nat /\ from <= to /\ to <= UserPages
  <2>1. /\ state[p] = "RUNNABLE" /\ np[p] = NoSlot /\ argv[p] = {}
        /\ table[New(p)] = NoTable /\ Below(table[t], to) /\ from <= to
    BY <1>t, <1>1, <1>2 DEF CallOK, ExtentOK, Loops
  <2>2. from \in Nat /\ to \in UserVPs
    <3>1. sz[p] \in 0..MaxSize /\ job[p].kind # "create"
      BY <1>0, <1>1 DEF FullTypeOK
    <3>2. job[p].va \in UserVPs
      BY <1>0, <1>1, <3>1, LoopFacts
    <3> QED BY <1>1, <3>1, <3>2, SizesAre
  <2> QED BY <2>1, <2>2, VirtualPagesAre DEF UserVPs
<1>4. PICK own \in [Real -> Tags] : Accounts(own)
  BY DEF IInv, PagesAreOwned
<1>5. /\ S \in SUBSET Real
      /\ \A r \in Real : r \in S <=> own[r] \in RangeTags(t, from, to) \/ own[r] = HandTag(p)
  <2>1. InHand(p) \subseteq Real /\ \A r \in Real : r \in InHand(p) <=> own[r] = HandTag(p)
    BY <1>0, <1>4, PagesHeld
  <2>2. /\ PagesOf(table[t], from, to) \subseteq Real
        /\ \A r \in Real : r \in PagesOf(table[t], from, to)
              <=> \E a \in UserVPs : from <= a /\ a < to /\ own[r] = UserTag(t, a)
    BY <1>0, <1>3, <1>4, UserPagesHeld
  <2> QED BY <1>1, <2>1, <2>2 DEF RangeTags
<1>6. free' = free \cup S /\ free' \subseteq Real /\ data' \in [Pages -> Values \cup {Junk}]
  BY <1>0, <1>1, <1>5, KfreeFacts
<1>7. Real' = Real /\ load'.image = load.image
  BY <1>1 DEF Real
<1>8. /\ pc'[p] = "user" /\ job'[p] = NoJob /\ mem'[p] = NoPage
      /\ \A r \in Slots : r # p => pc'[r] = pc[r] /\ job'[r] = job[r] /\ mem'[r] = mem[r]
      /\ pc' \in [Slots -> {"user", "argv", "root", "page", "map", "done"}]
      /\ job' \in [Slots -> Job] /\ mem' \in [Slots -> Pages \cup {NoPage}]
  BY <1>0, <1>1, ReturnFacts
<1>9. /\ table' \in [Tables -> PageTable]
      /\ table'[t] = Unmap(table[t], from, to) /\ \A u \in Tables : u # t => table'[u] = table[u]
      /\ \A a \in VirtualPages :
            /\ table'[t].pte[a] \in {NoPte, table[t].pte[a]}
            /\ Mapped(table'[t], a) <=> Mapped(table[t], a) /\ ~(from <= a /\ a < to)
  <2>1. PICK U \in PageTable :
           /\ U = Unmap(table[t], from, to)
           /\ \A a \in VirtualPages :
                /\ U.pte[a] \in {NoPte, table[t].pte[a]}
                /\ Mapped(U, a) <=> Mapped(table[t], a) /\ ~(from <= a /\ a < to)
    BY <1>0, <1>3, UnmapFacts DEF FullTypeOK
  <2>2. table' = [table EXCEPT ![t] = U]
    BY <1>1, <2>1
  <2>3. table' \in [Tables -> PageTable] /\ table'[t] = U
        /\ \A u \in Tables : u # t => table'[u] = table[u]
    BY <1>0, <2>2 DEF FullTypeOK
  <2> QED BY <2>1, <2>3
<1>10. FullTypeOK'
  BY <1>0, <1>1, <1>6, <1>7, <1>8, <1>9 DEF FullTypeOK
<1>11. EntriesOK'
  BY <1>0, <1>9, NoTableFacts DEF EntriesOK, NoPage, Kernel
<1>12. /\ \A r \in Slots : table'[New(r)] = table[New(r)]
       /\ \A r \in Slots : r # p => table'[Own(r)] = table[Own(r)]
  BY <1>t, <1>9, TableNames
<1>13. SlotsOK'
  BY <1>0, <1>1, <1>3, <1>12 DEF SlotsOK
<1>14. CallsOK' /\ ExtentsOK'
  <2>1. Below(table[Own(p)], PagesIn(sz[p]))'
    <3>1. \A a \in UserVPs : Mapped(table'[t], a) => a < from
      <4>1. \A a \in UserVPs : a \in VirtualPages /\ a \in Nat
        BY VirtualPagesAre
      <4>2. \A a \in UserVPs : Mapped(table[t], a) => a < to
        BY <1>3 DEF Below
      <4> QED BY <1>3, <1>9, <4>1, <4>2
    <3>2. PagesIn(sz[p])' = from
      BY <1>1 DEF PagesIn
    <3> QED BY <1>t, <3>1, <3>2 DEF Below
  <2>2. /\ CallOK(p, job[p].kind)'
        /\ ExtentOK(p, job[p].kind, job[p].va, PagesIn(job[p].sz), PagesIn(job[p].new))'
    BY <1>1, <1>3, <1>8, <1>12, <2>1, ReturnedCall
  <2>3. \A r \in Slots \ {p} : Same(r)
    BY <1>1, <1>8, <1>12 DEF Same, Rests
  <2> QED BY <1>0, <1>3, <1>7, <2>2, <2>3, Confined
<1>15. PagesAreOwned'
  <2> DEFINE E == {HandTag(p)}
  <2>1. /\ E \in SUBSET SlotTags
        /\ \A r \in Real : r \in S <=> own[r] \in RangeTags(t, from, to) \/ own[r] \in E
    BY <1>5, SlotTagFacts
  <2>2. \A r \in Slots :
           /\ trapframe'[r] = IF FrameTag(r) \in E THEN NoPage ELSE trapframe[r]
           /\ mem'[r] = IF HandTag(r) \in E THEN NoPage ELSE mem[r]
           /\ argv'[r] = IF ArgvTag(r) \in E THEN {} ELSE argv[r]
    BY <1>1, <1>8, SlotTagFacts
  <2> HIDE DEF E
  <2>3. /\ table \in [Tables -> PageTable] /\ NoPage \notin Real
        /\ table'[t] = Unmap(table[t], from, to) /\ \A u \in Tables : u # t => table'[u] = table[u]
    BY <1>0, <1>9, LoadFacts DEF FullTypeOK
  <2>4. Real' = Real /\ NoPage \notin Real /\ free' = free \cup S
    BY <1>6, <1>7, <2>3
  <2>5. S \in SUBSET Real
    BY <1>5
  <2>6. from \in Nat /\ to \in Nat /\ table \in [Tables -> PageTable]
    BY <1>3, <2>3
  <2>7. \A u \in Tables : u # t => table'[u] = table[u]
    BY <2>3
  <2>8. table'[t] = Unmap(table[t], from, to)
    BY <2>3
  <2>9. E \in SUBSET SlotTags /\ S \in SUBSET Real /\ Takes(own, RangeTags(t, from, to), E, S) /\ Empties(E)
    BY <2>1, <2>2, <2>5 DEF Takes, Empties
  <2> QED BY <1>4, <2>4, <2>5, <2>6, <2>7, <2>8, <2>9, RangeIsFreed
<1> QED BY <1>10, <1>11, <1>13, <1>14, <1>15 DEF IInv

LEMMA ShrinkStep ==
    ASSUME IInv, NEW p \in Slots, NEW n \in load.shrink, Shrink(p, n)
    PROVE  IInv'
<1>0. FullTypeOK /\ EntriesOK /\ SlotsOK /\ CallsOK /\ ExtentsOK
  BY DEF IInv
<1>t. PICK t \in Tables : t = Own(p)
  BY TableNames
<1>1. PICK new, S, from, to :
        /\ new = IF n > sz[p] THEN sz[p] ELSE sz[p] - n
        /\ from = PagesIn(new) /\ to = PagesIn(sz[p])
        /\ S = PagesOf(table[t], from, to)
        /\ Kfree(S) /\ Running(p) /\ Counted
        /\ table' = [table EXCEPT ![t] = Unmap(@, from, to)]
        /\ sz' = [sz EXCEPT ![p] = new]
        /\ UNCHANGED <<state, trapframe, pc, job, np, mem, argv, panic>>
  BY <1>t DEF Shrink, Own, calls
<1>2. /\ state[p] = "RUNNABLE" /\ pc[p] = "user" /\ Below(table[t], to)
      /\ sz[p] \in 0..MaxSize /\ to \in Nat /\ to <= UserPages
  BY <1>0, <1>t, <1>1, RunningFacts
<1>3. new \in 0..MaxSize /\ from \in Nat /\ from <= to
  <2>1. n \in Nat /\ MaxSize \in Nat
    BY <1>0, LoadFacts, SizesAre
  <2>2. new \in 0..MaxSize /\ new <= sz[p]
    BY <1>1, <1>2, <2>1
  <2> QED BY <1>1, <1>2, <2>1, <2>2, PagesMonotone, Rounding
<1>4. PICK own \in [Real -> Tags] : Accounts(own)
  BY DEF IInv, PagesAreOwned
<1>5. S \in SUBSET Real /\ \A r \in Real : r \in S <=> own[r] \in RangeTags(t, from, to)
  <2>1. /\ PagesOf(table[t], from, to) \subseteq Real
        /\ \A r \in Real : r \in PagesOf(table[t], from, to)
              <=> \E a \in UserVPs : from <= a /\ a < to /\ own[r] = UserTag(t, a)
    BY <1>0, <1>2, <1>3, <1>4, UserPagesHeld
  <2> QED BY <1>1, <2>1 DEF RangeTags
<1>6. free' = free \cup S /\ free' \subseteq Real /\ data' \in [Pages -> Values \cup {Junk}]
  BY <1>0, <1>1, <1>5, KfreeFacts
<1>7. /\ load'.image = load.image /\ Real' = Real
      /\ load'.calls \in Nat /\ \E w \in Workloads : load' = [w EXCEPT !.calls = load'.calls]
  BY <1>0, <1>1, LoadStep
<1>8. /\ sz'[p] = new /\ \A r \in Slots : r # p => sz'[r] = sz[r]
      /\ sz' \in [Slots -> 0..MaxSize]
  BY <1>0, <1>1, <1>3 DEF FullTypeOK
<1>9. /\ table' \in [Tables -> PageTable]
      /\ table'[t] = Unmap(table[t], from, to) /\ \A u \in Tables : u # t => table'[u] = table[u]
      /\ \A a \in VirtualPages :
            /\ table'[t].pte[a] \in {NoPte, table[t].pte[a]}
            /\ Mapped(table'[t], a) <=> Mapped(table[t], a) /\ ~(from <= a /\ a < to)
  <2>1. PICK U \in PageTable :
           /\ U = Unmap(table[t], from, to)
           /\ \A a \in VirtualPages :
                /\ U.pte[a] \in {NoPte, table[t].pte[a]}
                /\ Mapped(U, a) <=> Mapped(table[t], a) /\ ~(from <= a /\ a < to)
    BY <1>0, <1>2, <1>3, UnmapFacts DEF FullTypeOK
  <2>2. table' = [table EXCEPT ![t] = U]
    BY <1>1, <2>1
  <2>3. table' \in [Tables -> PageTable] /\ table'[t] = U
        /\ \A u \in Tables : u # t => table'[u] = table[u]
    BY <1>0, <2>2 DEF FullTypeOK
  <2> QED BY <2>1, <2>3
<1>10. FullTypeOK'
  BY <1>0, <1>1, <1>6, <1>7, <1>8, <1>9 DEF FullTypeOK
<1>11. EntriesOK'
  BY <1>0, <1>9, NoTableFacts DEF EntriesOK, NoPage, Kernel
<1>12. /\ \A r \in Slots : table'[New(r)] = table[New(r)]
       /\ \A r \in Slots : r # p => table'[Own(r)] = table[Own(r)]
  BY <1>t, <1>9, TableNames
<1>13. SlotsOK'
  BY <1>0, <1>1, <1>2, <1>8, <1>12 DEF SlotsOK
<1>14. CallsOK' /\ ExtentsOK'
  <2>1. Below(table[Own(p)], PagesIn(sz[p]))'
    <3>1. \A a \in UserVPs : Mapped(table'[t], a) => a < from
      <4>1. \A a \in UserVPs : a \in VirtualPages /\ a \in Nat
        BY VirtualPagesAre
      <4>2. \A a \in UserVPs : Mapped(table[t], a) => a < to
        BY <1>2 DEF Below
      <4> QED BY <1>2, <1>3, <1>9, <4>1, <4>2
    <3>2. PagesIn(sz[p])' = from
      BY <1>1, <1>8 DEF PagesIn
    <3> QED BY <1>t, <3>1, <3>2 DEF Below
  <2>2. Rests(p) /\ CallOK(p, job[p].kind)
    BY <1>0, <1>1, <1>12 DEF Rests, CallsOK
  <2>3. /\ CallOK(p, job[p].kind)'
        /\ ExtentOK(p, job[p].kind, job[p].va, PagesIn(job[p].sz), PagesIn(job[p].new))'
    BY <1>2, <2>1, <2>2, IdleCall
  <2>4. \A r \in Slots \ {p} : Same(r)
    BY <1>1, <1>8, <1>12 DEF Same, Rests
  <2> QED BY <1>0, <1>2, <1>7, <2>3, <2>4, Confined
<1>15. PagesAreOwned'
  <2> DEFINE E == {}
  <2>1. /\ E \in SUBSET SlotTags
        /\ \A r \in Real : r \in S <=> own[r] \in RangeTags(t, from, to) \/ own[r] \in E
    BY <1>5
  <2>2. \A r \in Slots :
           /\ trapframe'[r] = IF FrameTag(r) \in E THEN NoPage ELSE trapframe[r]
           /\ mem'[r] = IF HandTag(r) \in E THEN NoPage ELSE mem[r]
           /\ argv'[r] = IF ArgvTag(r) \in E THEN {} ELSE argv[r]
    BY <1>1
  <2> HIDE DEF E
  <2>3. /\ table \in [Tables -> PageTable] /\ NoPage \notin Real
        /\ table'[t] = Unmap(table[t], from, to) /\ \A u \in Tables : u # t => table'[u] = table[u]
    BY <1>0, <1>9, LoadFacts DEF FullTypeOK
  <2>4. Real' = Real /\ NoPage \notin Real /\ free' = free \cup S
    BY <1>6, <1>7, <2>3
  <2>5. S \in SUBSET Real
    BY <1>5
  <2>6. from \in Nat /\ to \in Nat /\ table \in [Tables -> PageTable]
    BY <1>2, <1>3, <2>3
  <2>7. \A u \in Tables : u # t => table'[u] = table[u]
    BY <2>3
  <2>8. table'[t] = Unmap(table[t], from, to)
    BY <2>3
  <2>9. E \in SUBSET SlotTags /\ S \in SUBSET Real /\ Takes(own, RangeTags(t, from, to), E, S) /\ Empties(E)
    BY <2>1, <2>2, <2>5 DEF Takes, Empties
  <2> QED BY <1>4, <2>4, <2>5, <2>6, <2>7, <2>8, <2>9, RangeIsFreed
<1> QED BY <1>10, <1>11, <1>13, <1>14, <1>15 DEF IInv

LEMMA ForkCreateFailsStep ==
    ASSUME IInv, NEW p \in Slots, ForkCreateFails(p)
    PROVE  IInv'
<1>0. FullTypeOK /\ EntriesOK /\ SlotsOK /\ CallsOK /\ ExtentsOK
  BY DEF IInv
<1>t. PICK t \in Tables : t = New(p)
  BY TableNames
<1>q. PICK q : q = np[p]
  OBVIOUS
<1>1. PICK S :
        /\ S = TablePages(table[t]) \cup {trapframe[q]}
        /\ Kfree(S) /\ Return(p) /\ Freeproc(q) /\ q # NoSlot
        /\ table' = [table EXCEPT ![t] = NoTable]
        /\ np' = [np EXCEPT ![p] = NoSlot]
        /\ pc[p] \in {"root", "map"} /\ job[p].kind = "create"
        /\ UNCHANGED <<load, argv, panic>>
  BY <1>t, <1>q DEF ForkCreateFails, CreateFails, Creating, Dropped, New
<1>2. /\ CallOK(p, "create")
      /\ ExtentOK(p, "create", job[p].va, PagesIn(job[p].sz), PagesIn(job[p].new))
  BY <1>0, <1>1 DEF CallsOK, ExtentsOK
<1>3. /\ state[p] = "RUNNABLE" /\ argv[p] = {} /\ mem[p] = NoPage
      /\ table[Own(q)] = NoTable /\ Below(table[Own(p)], PagesIn(sz[p]))
      /\ \A a \in VirtualPages : ~Mapped(table[t], a)
  BY <1>t, <1>q, <1>1, <1>2 DEF CallOK, ExtentOK
<1>4. q \in Slots /\ q # p /\ state[q] = "USED" /\ pc[q] = "user" /\ trapframe[q] # NoPage
  BY <1>0, <1>q, <1>1, <1>3, ChildFacts
<1>5. PICK own \in [Real -> Tags] : Accounts(own)
  BY DEF IInv, PagesAreOwned
<1>6. /\ S \in SUBSET Real
      /\ \A r \in Real : r \in S <=> own[r] \in TagsOf(t) \/ own[r] = FrameTag(q)
  <2>1. /\ trapframe[q] \in Real
        /\ \A r \in Real : r = trapframe[q] <=> own[r] = FrameTag(q)
    BY <1>0, <1>4, <1>5, PagesHeld DEF Accounts, SlotPages
  <2>2. PagesOf(table[t], 0, 0) = {}
    BY DEF PagesOf
  <2>3. UserPages \in Nat /\ Below(table[t], 0)
    BY <1>3, VirtualPagesAre DEF Below
  <2>4. /\ TablePages(table[t]) \cup PagesOf(table[t], 0, 0) \subseteq Real
        /\ \A r \in Real : r \in TablePages(table[t]) \cup PagesOf(table[t], 0, 0)
                              <=> own[r] \in TagsOf(t)
    BY <1>0, <1>5, <2>3, WholeTable
  <2> QED BY <1>1, <2>1, <2>2, <2>4
<1>7. free' = free \cup S /\ free' \subseteq Real /\ data' \in [Pages -> Values \cup {Junk}]
  BY <1>0, <1>1, <1>6, KfreeFacts
<1>8. Real' = Real /\ load'.image = load.image
  BY <1>1 DEF Real
<1>9. /\ pc'[p] = "user" /\ job'[p] = NoJob /\ mem'[p] = NoPage
      /\ \A r \in Slots : r # p => pc'[r] = pc[r] /\ job'[r] = job[r] /\ mem'[r] = mem[r]
      /\ pc' \in [Slots -> {"user", "argv", "root", "page", "map", "done"}]
      /\ job' \in [Slots -> Job] /\ mem' \in [Slots -> Pages \cup {NoPage}]
  BY <1>0, <1>1, ReturnFacts
<1>10. /\ trapframe'[q] = NoPage /\ sz'[q] = 0 /\ state'[q] = "UNUSED" /\ np'[p] = NoSlot
       /\ \A r \in Slots : r # q => /\ trapframe'[r] = trapframe[r] /\ sz'[r] = sz[r]
                                    /\ state'[r] = state[r]
       /\ \A r \in Slots : r # p => np'[r] = np[r]
       /\ trapframe' \in [Slots -> Pages \cup {NoPage}] /\ np' \in [Slots -> Slots \cup {NoSlot}]
       /\ state' \in [Slots -> {"UNUSED", "USED", "RUNNABLE", "ZOMBIE"}]
       /\ sz' \in [Slots -> 0..MaxSize]
  <2>1. 0 \in 0..MaxSize
    BY SizesAre
  <2> QED BY <1>0, <1>1, <1>4, <2>1 DEF FullTypeOK, Freeproc
<1>11. /\ table' \in [Tables -> PageTable] /\ table'[t] = NoTable
       /\ \A u \in Tables : u # t => table'[u] = table[u]
  BY <1>0, <1>1, NoTableFacts DEF FullTypeOK
<1>12. FullTypeOK'
  BY <1>0, <1>1, <1>7, <1>8, <1>9, <1>10, <1>11 DEF FullTypeOK
<1>13. EntriesOK'
  BY <1>0, <1>11, NoTableFacts DEF EntriesOK, NoPage, Kernel
<1>14. /\ table'[New(p)] = NoTable /\ \A r \in Slots : table'[Own(r)] = table[Own(r)]
       /\ \A r \in Slots : r # p => table'[New(r)] = table[New(r)]
  BY <1>t, <1>11, TableNames
<1>15. SlotsOK'
  BY <1>0, <1>q, <1>3, <1>4, <1>10, <1>14 DEF SlotsOK, FullTypeOK
<1>16. CallsOK' /\ ExtentsOK'
  <2>1. Below(table[Own(p)], PagesIn(sz[p]))' /\ Below(table[Own(q)], PagesIn(sz[q]))'
    BY <1>3, <1>4, <1>10, <1>14, NoTableFacts DEF PagesIn
  <2>2. /\ CallOK(p, job[p].kind)'
        /\ ExtentOK(p, job[p].kind, job[p].va, PagesIn(job[p].sz), PagesIn(job[p].new))'
    BY <1>1, <1>3, <1>9, <1>10, <1>14, <2>1, ReturnedCall
  <2>3. \A r \in Slots : r \notin {p, q} => Same(r)
    BY <1>1, <1>9, <1>10, <1>14 DEF Same, Rests
  <2>4. Rests(q)
    BY <1>1, <1>4, <1>9, <1>10, <1>14 DEF Rests
  <2>5. state[q] # "RUNNABLE"
    BY <1>4
  <2> QED BY <1>0, <1>q, <1>3, <1>4, <1>8, <2>1, <2>2, <2>3, <2>4, <2>5, CallStep
<1>17. PagesAreOwned'
  <2> DEFINE E == {FrameTag(q)}
  <2>1. /\ E \in SUBSET SlotTags
        /\ \A r \in Real : r \in S <=> own[r] \in TagsOf(t) \/ own[r] \in E
    BY <1>4, <1>6, SlotTagFacts
  <2>2. \A r \in Slots :
           /\ trapframe'[r] = IF FrameTag(r) \in E THEN NoPage ELSE trapframe[r]
           /\ mem'[r] = IF HandTag(r) \in E THEN NoPage ELSE mem[r]
           /\ argv'[r] = IF ArgvTag(r) \in E THEN {} ELSE argv[r]
    <3>1. \A r \in Slots : mem'[r] = mem[r] /\ argv'[r] = argv[r]
      BY <1>1, <1>3, <1>9
    <3> QED BY <1>4, <1>10, <3>1, SlotTagFacts
  <2> HIDE DEF E
  <2>3. Real' = Real /\ NoPage \notin Real /\ free' = free \cup S
    BY <1>0, <1>7, <1>8, LoadFacts
  <2>4. S \in SUBSET Real
    BY <1>6
  <2>5. table \in [Tables -> PageTable]
    BY <1>0 DEF FullTypeOK
  <2>6. table' = [table EXCEPT ![t] = NoTable]
    BY <1>1
  <2>9. E \in SUBSET SlotTags /\ S \in SUBSET Real /\ Takes(own, TagsOf(t), E, S) /\ Empties(E)
    BY <2>1, <2>2, <2>4 DEF Takes, Empties
  <2> QED BY <1>5, <2>3, <2>4, <2>5, <2>6, <2>9, TableIsFreed
<1> QED BY <1>12, <1>13, <1>15, <1>16, <1>17 DEF IInv

LEMMA ForkCopyFailsStep ==
    ASSUME IInv, NEW p \in Slots, ForkCopyFails(p)
    PROVE  IInv'
<1>0. FullTypeOK /\ EntriesOK /\ SlotsOK /\ CallsOK /\ ExtentsOK
  BY DEF IInv
<1>q. PICK q : q = np[p]
  OBVIOUS
<1>a. /\ pc[p] \in {"page", "map"} /\ job[p].kind = "copy"
      /\ CallOK(p, "copy")
      /\ ExtentOK(p, "copy", job[p].va, PagesIn(job[p].sz), PagesIn(job[p].new))
  <2>1. pc[p] \in {"page", "map"} /\ job[p].kind = "copy"
    BY DEF ForkCopyFails, OutOfMemory
  <2> QED BY <1>0, <2>1 DEF CallsOK, ExtentsOK
<1>b. /\ state[p] = "RUNNABLE" /\ argv[p] = {} /\ table[New(p)] = NoTable /\ q # NoSlot
      /\ Below(table[Own(p)], PagesIn(sz[p])) /\ Below(table[Own(q)], job[p].va)
  BY <1>q, <1>a DEF CallOK, ExtentOK
<1>4. q \in Slots /\ q # p /\ state[q] = "USED" /\ pc[q] = "user" /\ trapframe[q] # NoPage
  BY <1>0, <1>q, <1>b, ChildFacts
<1>t. PICK t \in Tables : t = Own(q)
  BY <1>4, TableNames
<1>i. PICK i \in Nat : i = job[p].va /\ i <= UserPages /\ Below(table[t], i)
  <2>1. job[p].va \in UserVPs
    BY <1>0, <1>a, LoopFacts
  <2> QED BY <1>t, <1>b, <2>1, VirtualPagesAre DEF UserVPs
<1>1. PICK S :
        /\ S = InHand(p) \cup PagesOf(table[t], 0, i) \cup TablePages(table[t]) \cup {trapframe[q]}
        /\ Kfree(S) /\ Return(p) /\ Freeproc(q)
        /\ panic' = (panic \/ LeafRemains(Unmap(table[t], 0, i), 0))
        /\ table' = [table EXCEPT ![t] = NoTable]
        /\ np' = [np EXCEPT ![p] = NoSlot]
        /\ UNCHANGED <<load, argv>>
  BY <1>t, <1>i, <1>q DEF ForkCopyFails, Own
<1>2. panic' = FALSE
  <2>1. \A a \in VirtualPages :
           Mapped(Unmap(table[t], 0, i), a) <=> Mapped(table[t], a) /\ ~(0 <= a /\ a < i)
    BY <1>0, UnmapFacts DEF FullTypeOK
  <2>2. \A a \in UserVPs : a \in VirtualPages /\ a \in Nat
    BY VirtualPagesAre
  <2>3. ~LeafRemains(Unmap(table[t], 0, i), 0)
    BY <1>i, <2>1, <2>2 DEF LeafRemains, Below, UserVPs
  <2> QED BY <1>0, <1>1, <2>3 DEF FullTypeOK
<1>5. PICK own \in [Real -> Tags] : Accounts(own)
  BY DEF IInv, PagesAreOwned
<1>6. /\ S \in SUBSET Real
      /\ \A r \in Real : r \in S <=> own[r] \in TagsOf(t) \/ own[r] \in {HandTag(p), FrameTag(q)}
  <2>1. /\ trapframe[q] \in Real
        /\ \A r \in Real : r = trapframe[q] <=> own[r] = FrameTag(q)
    BY <1>0, <1>4, <1>5, PagesHeld DEF Accounts, SlotPages
  <2>2. InHand(p) \subseteq Real /\ \A r \in Real : r \in InHand(p) <=> own[r] = HandTag(p)
    BY <1>0, <1>5, PagesHeld
  <2>4. /\ TablePages(table[t]) \cup PagesOf(table[t], 0, i) \subseteq Real
        /\ \A r \in Real : r \in TablePages(table[t]) \cup PagesOf(table[t], 0, i)
                              <=> own[r] \in TagsOf(t)
    BY <1>0, <1>i, <1>5, WholeTable
  <2> QED BY <1>1, <2>1, <2>2, <2>4
<1>7. free' = free \cup S /\ free' \subseteq Real /\ data' \in [Pages -> Values \cup {Junk}]
  BY <1>0, <1>1, <1>6, KfreeFacts
<1>8. Real' = Real /\ load'.image = load.image
  BY <1>1 DEF Real
<1>9. /\ pc'[p] = "user" /\ job'[p] = NoJob /\ mem'[p] = NoPage
      /\ \A r \in Slots : r # p => pc'[r] = pc[r] /\ job'[r] = job[r] /\ mem'[r] = mem[r]
      /\ pc' \in [Slots -> {"user", "argv", "root", "page", "map", "done"}]
      /\ job' \in [Slots -> Job] /\ mem' \in [Slots -> Pages \cup {NoPage}]
  BY <1>0, <1>1, ReturnFacts
<1>10. /\ trapframe'[q] = NoPage /\ sz'[q] = 0 /\ state'[q] = "UNUSED" /\ np'[p] = NoSlot
       /\ \A r \in Slots : r # q => /\ trapframe'[r] = trapframe[r] /\ sz'[r] = sz[r]
                                    /\ state'[r] = state[r]
       /\ \A r \in Slots : r # p => np'[r] = np[r]
       /\ trapframe' \in [Slots -> Pages \cup {NoPage}] /\ np' \in [Slots -> Slots \cup {NoSlot}]
       /\ state' \in [Slots -> {"UNUSED", "USED", "RUNNABLE", "ZOMBIE"}]
       /\ sz' \in [Slots -> 0..MaxSize]
  <2>1. 0 \in 0..MaxSize
    BY SizesAre
  <2> QED BY <1>0, <1>1, <1>4, <2>1 DEF FullTypeOK, Freeproc
<1>11. /\ table' \in [Tables -> PageTable] /\ table'[t] = NoTable
       /\ \A u \in Tables : u # t => table'[u] = table[u]
  BY <1>0, <1>1, NoTableFacts DEF FullTypeOK
<1>12. FullTypeOK'
  BY <1>0, <1>1, <1>2, <1>7, <1>8, <1>9, <1>10, <1>11 DEF FullTypeOK
<1>13. EntriesOK'
  BY <1>0, <1>11, NoTableFacts DEF EntriesOK, NoPage, Kernel
<1>14. /\ table'[Own(q)] = NoTable /\ \A r \in Slots : r # q => table'[Own(r)] = table[Own(r)]
       /\ \A r \in Slots : table'[New(r)] = table[New(r)]
  BY <1>4, <1>t, <1>11, TableNames
<1>15. SlotsOK'
  BY <1>0, <1>q, <1>b, <1>4, <1>10, <1>14 DEF SlotsOK, FullTypeOK
<1>16. CallsOK' /\ ExtentsOK'
  <2>1. Below(table[Own(p)], PagesIn(sz[p]))' /\ Below(table[Own(q)], PagesIn(sz[q]))'
    BY <1>b, <1>4, <1>10, <1>14, NoTableFacts DEF PagesIn
  <2>2. /\ CallOK(p, job[p].kind)'
        /\ ExtentOK(p, job[p].kind, job[p].va, PagesIn(job[p].sz), PagesIn(job[p].new))'
    BY <1>1, <1>b, <1>9, <1>10, <1>14, <2>1, ReturnedCall
  <2>3. \A r \in Slots : r \notin {p, q} => Same(r)
    BY <1>1, <1>9, <1>10, <1>14 DEF Same, Rests
  <2>4. Rests(q)
    BY <1>1, <1>4, <1>9, <1>10, <1>14 DEF Rests
  <2>5. state[q] # "RUNNABLE"
    BY <1>4
  <2> QED BY <1>0, <1>q, <1>b, <1>4, <1>8, <2>1, <2>2, <2>3, <2>4, <2>5, CallStep
<1>17. PagesAreOwned'
  <2> DEFINE E == {HandTag(p), FrameTag(q)}
  <2>1. /\ E \in SUBSET SlotTags
        /\ \A r \in Real : r \in S <=> own[r] \in TagsOf(t) \/ own[r] \in E
    BY <1>4, <1>6, SlotTagFacts
  <2>2. \A r \in Slots :
           /\ trapframe'[r] = IF FrameTag(r) \in E THEN NoPage ELSE trapframe[r]
           /\ mem'[r] = IF HandTag(r) \in E THEN NoPage ELSE mem[r]
           /\ argv'[r] = IF ArgvTag(r) \in E THEN {} ELSE argv[r]
    BY <1>1, <1>4, <1>9, <1>10, SlotTagFacts
  <2> HIDE DEF E
  <2>3. Real' = Real /\ NoPage \notin Real /\ free' = free \cup S
    BY <1>0, <1>7, <1>8, LoadFacts
  <2>4. S \in SUBSET Real
    BY <1>6
  <2>5. table \in [Tables -> PageTable]
    BY <1>0 DEF FullTypeOK
  <2>6. table' = [table EXCEPT ![t] = NoTable]
    BY <1>1
  <2>9. E \in SUBSET SlotTags /\ S \in SUBSET Real /\ Takes(own, TagsOf(t), E, S) /\ Empties(E)
    BY <2>1, <2>2, <2>4 DEF Takes, Empties
  <2> QED BY <1>5, <2>3, <2>4, <2>5, <2>6, <2>9, TableIsFreed
<1> QED BY <1>12, <1>13, <1>15, <1>16, <1>17 DEF IInv

LEMMA WaitStep ==
    ASSUME IInv, NEW p \in Slots, NEW q \in Slots, Wait(p, q)
    PROVE  IInv'
<1>0. FullTypeOK /\ EntriesOK /\ SlotsOK /\ CallsOK /\ ExtentsOK
  BY DEF IInv
<1>t. PICK t \in Tables : t = Own(q)
  BY TableNames
<1>i. PICK i \in Nat : i = PagesIn(sz[q]) /\ i <= UserPages
  <2>1. sz[q] \in 0..MaxSize
    BY <1>0 DEF FullTypeOK
  <2> QED BY <2>1, SizesAre, VirtualPagesAre
<1>1. PICK S :
        /\ S = TablePages(table[t]) \cup PagesOf(table[t], 0, i) \cup {trapframe[q]}
        /\ Kfree(S) /\ Freeproc(q) /\ Running(p) /\ state[q] = "ZOMBIE"
        /\ panic' = (panic \/ LeafRemains(table[t], sz[q]))
        /\ table' = [table EXCEPT ![t] = NoTable]
        /\ UNCHANGED <<load, pc, job, np, mem, argv>>
  BY <1>t, <1>i DEF Wait, Own, calls, AllPages
<1>3. /\ state[p] = "RUNNABLE" /\ pc[p] = "user" /\ Below(table[Own(p)], PagesIn(sz[p]))
      /\ np[p] = NoSlot
  BY <1>0, <1>1, RunningFacts
<1>4. q # p /\ trapframe[q] # NoPage /\ Below(table[t], i) /\ pc[q] = "user"
  <2>1. q # p /\ trapframe[q] # NoPage
    BY <1>0, <1>1, <1>3 DEF SlotsOK
  <2>2. /\ CallOK(q, job[q].kind)
        /\ ExtentOK(q, job[q].kind, job[q].va, PagesIn(job[q].sz), PagesIn(job[q].new))
    BY <1>0 DEF CallsOK, ExtentsOK
  <2>3. pc[q] = "user" /\ job[q].kind = "none"
    BY <1>1, <2>2 DEF CallOK
  <2> QED BY <1>1, <1>t, <1>i, <2>1, <2>2, <2>3 DEF ExtentOK
<1>2. panic' = FALSE
  <2>1. \A a \in UserVPs : a \in Nat
    BY VirtualPagesAre
  <2>2. ~LeafRemains(table[t], sz[q])
    BY <1>i, <1>4, <2>1 DEF LeafRemains, Below, UserVPs
  <2> QED BY <1>0, <1>1, <2>2 DEF FullTypeOK
<1>5. PICK own \in [Real -> Tags] : Accounts(own)
  BY DEF IInv, PagesAreOwned
<1>6. /\ S \in SUBSET Real
      /\ \A r \in Real : r \in S <=> own[r] \in TagsOf(t) \/ own[r] = FrameTag(q)
  <2>1. /\ trapframe[q] \in Real
        /\ \A r \in Real : r = trapframe[q] <=> own[r] = FrameTag(q)
    BY <1>0, <1>4, <1>5, PagesHeld DEF Accounts, SlotPages
  <2>4. /\ TablePages(table[t]) \cup PagesOf(table[t], 0, i) \subseteq Real
        /\ \A r \in Real : r \in TablePages(table[t]) \cup PagesOf(table[t], 0, i)
                              <=> own[r] \in TagsOf(t)
    BY <1>0, <1>i, <1>4, <1>5, WholeTable
  <2> QED BY <1>1, <2>1, <2>4
<1>7. free' = free \cup S /\ free' \subseteq Real /\ data' \in [Pages -> Values \cup {Junk}]
  BY <1>0, <1>1, <1>6, KfreeFacts
<1>8. Real' = Real /\ load'.image = load.image
  BY <1>1 DEF Real
<1>10. /\ trapframe'[q] = NoPage /\ sz'[q] = 0 /\ state'[q] = "UNUSED"
       /\ \A r \in Slots : r # q => /\ trapframe'[r] = trapframe[r] /\ sz'[r] = sz[r]
                                    /\ state'[r] = state[r]
       /\ trapframe' \in [Slots -> Pages \cup {NoPage}]
       /\ state' \in [Slots -> {"UNUSED", "USED", "RUNNABLE", "ZOMBIE"}]
       /\ sz' \in [Slots -> 0..MaxSize]
  <2>1. 0 \in 0..MaxSize
    BY SizesAre
  <2> QED BY <1>0, <1>1, <2>1 DEF FullTypeOK, Freeproc
<1>11. /\ table' \in [Tables -> PageTable] /\ table'[t] = NoTable
       /\ \A u \in Tables : u # t => table'[u] = table[u]
  BY <1>0, <1>1, NoTableFacts DEF FullTypeOK
<1>12. FullTypeOK'
  BY <1>0, <1>1, <1>2, <1>7, <1>8, <1>10, <1>11 DEF FullTypeOK
<1>13. EntriesOK'
  BY <1>0, <1>11, NoTableFacts DEF EntriesOK, NoPage, Kernel
<1>14. /\ table'[Own(q)] = NoTable /\ \A r \in Slots : r # q => table'[Own(r)] = table[Own(r)]
       /\ \A r \in Slots : table'[New(r)] = table[New(r)]
  BY <1>t, <1>11, TableNames
<1>15. SlotsOK'
  BY <1>0, <1>1, <1>10, <1>14 DEF SlotsOK, FullTypeOK
<1>16. CallsOK' /\ ExtentsOK'
  <2>1. Below(table[Own(p)], PagesIn(sz[p]))' /\ Below(table[Own(q)], PagesIn(sz[q]))'
    BY <1>3, <1>4, <1>10, <1>14, NoTableFacts DEF PagesIn
  <2>2. Rests(p) /\ Rests(q) /\ CallOK(p, job[p].kind)
    BY <1>0, <1>1, <1>3, <1>4, <1>10, <1>14 DEF Rests, CallsOK
  <2>3. /\ CallOK(p, job[p].kind)'
        /\ ExtentOK(p, job[p].kind, job[p].va, PagesIn(job[p].sz), PagesIn(job[p].new))'
    BY <1>3, <2>1, <2>2, IdleCall
  <2>4. \A r \in Slots : r \notin {p, q} => Same(r)
    BY <1>1, <1>10, <1>14 DEF Same, Rests
  <2>5. state[q] # "RUNNABLE" /\ state[q] # "USED"
    BY <1>1
  <2> QED BY <1>0, <1>3, <1>4, <1>8, <2>1, <2>2, <2>3, <2>4, <2>5, CallStep
<1>17. PagesAreOwned'
  <2> DEFINE E == {FrameTag(q)}
  <2>1. /\ E \in SUBSET SlotTags
        /\ \A r \in Real : r \in S <=> own[r] \in TagsOf(t) \/ own[r] \in E
    BY <1>6, SlotTagFacts
  <2>2. \A r \in Slots :
           /\ trapframe'[r] = IF FrameTag(r) \in E THEN NoPage ELSE trapframe[r]
           /\ mem'[r] = IF HandTag(r) \in E THEN NoPage ELSE mem[r]
           /\ argv'[r] = IF ArgvTag(r) \in E THEN {} ELSE argv[r]
    BY <1>1, <1>10, SlotTagFacts
  <2> HIDE DEF E
  <2>3. Real' = Real /\ NoPage \notin Real /\ free' = free \cup S
    BY <1>0, <1>7, <1>8, LoadFacts
  <2>4. S \in SUBSET Real
    BY <1>6
  <2>5. table \in [Tables -> PageTable]
    BY <1>0 DEF FullTypeOK
  <2>6. table' = [table EXCEPT ![t] = NoTable]
    BY <1>1
  <2>9. E \in SUBSET SlotTags /\ S \in SUBSET Real /\ Takes(own, TagsOf(t), E, S) /\ Empties(E)
    BY <2>1, <2>2, <2>4 DEF Takes, Empties
  <2> QED BY <1>5, <2>3, <2>4, <2>5, <2>6, <2>9, TableIsFreed
<1> QED BY <1>12, <1>13, <1>15, <1>16, <1>17 DEF IInv

\* kexec gives up, when it has mapped the first n pages of the new memory: it frees S.
GivesUp(p, n, S) ==
    /\ S = TablePages(table[New(p)]) \cup PagesOf(table[New(p)], 0, n) \cup InHand(p) \cup argv[p]
    /\ Kfree(S) /\ Return(p) /\ panic' = FALSE
    /\ table' = [table EXCEPT ![New(p)] = NoTable] /\ argv' = [argv EXCEPT ![p] = {}]
    /\ UNCHANGED <<load, state, sz, trapframe, np>>
    /\ state[p] = "RUNNABLE" /\ np[p] = NoSlot /\ Below(table[Own(p)], PagesIn(sz[p]))
    /\ Below(table[New(p)], n)

LEMMA BadStep ==
    ASSUME IInv, NEW p \in Slots, NEW n \in Nat, n <= UserPages, NEW S, GivesUp(p, n, S)
    PROVE  IInv'
<1>0. FullTypeOK /\ EntriesOK /\ SlotsOK /\ CallsOK /\ ExtentsOK
  BY DEF IInv
<1>t. PICK t \in Tables : t = New(p)
  BY TableNames
<1>1. /\ S = TablePages(table[t]) \cup PagesOf(table[t], 0, n) \cup InHand(p) \cup argv[p]
      /\ Kfree(S) /\ Return(p) /\ panic' = FALSE
      /\ table' = [table EXCEPT ![t] = NoTable] /\ argv' = [argv EXCEPT ![p] = {}]
      /\ UNCHANGED <<load, state, sz, trapframe, np>>
  BY <1>t DEF GivesUp
<1>2. /\ state[p] = "RUNNABLE" /\ np[p] = NoSlot /\ Below(table[Own(p)], PagesIn(sz[p]))
      /\ Below(table[t], n)
  BY <1>t DEF GivesUp
<1>5. PICK own \in [Real -> Tags] : Accounts(own)
  BY DEF IInv, PagesAreOwned
<1>6. /\ S \in SUBSET Real
      /\ \A r \in Real : r \in S <=> own[r] \in TagsOf(t) \/ own[r] \in {HandTag(p), ArgvTag(p)}
  <2>1. /\ InHand(p) \subseteq Real /\ \A r \in Real : r \in InHand(p) <=> own[r] = HandTag(p)
        /\ argv[p] \subseteq Real /\ \A r \in Real : r \in argv[p] <=> own[r] = ArgvTag(p)
    BY <1>0, <1>5, PagesHeld
  <2>4. /\ TablePages(table[t]) \cup PagesOf(table[t], 0, n) \subseteq Real
        /\ \A r \in Real : r \in TablePages(table[t]) \cup PagesOf(table[t], 0, n)
                              <=> own[r] \in TagsOf(t)
    BY <1>0, <1>2, <1>5, WholeTable
  <2> QED BY <1>1, <2>1, <2>4
<1>7. free' = free \cup S /\ free' \subseteq Real /\ data' \in [Pages -> Values \cup {Junk}]
  BY <1>0, <1>1, <1>6, KfreeFacts
<1>8. Real' = Real /\ load'.image = load.image
  BY <1>1 DEF Real
<1>9. /\ pc'[p] = "user" /\ job'[p] = NoJob /\ mem'[p] = NoPage
      /\ \A r \in Slots : r # p => pc'[r] = pc[r] /\ job'[r] = job[r] /\ mem'[r] = mem[r]
      /\ pc' \in [Slots -> {"user", "argv", "root", "page", "map", "done"}]
      /\ job' \in [Slots -> Job] /\ mem' \in [Slots -> Pages \cup {NoPage}]
  BY <1>0, <1>1, ReturnFacts
<1>10. /\ argv'[p] = {} /\ \A r \in Slots : r # p => argv'[r] = argv[r]
       /\ argv' \in [Slots -> SUBSET Pages]
  BY <1>0, <1>1 DEF FullTypeOK
<1>11. /\ table' \in [Tables -> PageTable] /\ table'[t] = NoTable
       /\ \A u \in Tables : u # t => table'[u] = table[u]
  BY <1>0, <1>1, NoTableFacts DEF FullTypeOK
<1>12. FullTypeOK'
  BY <1>0, <1>1, <1>7, <1>8, <1>9, <1>10, <1>11 DEF FullTypeOK
<1>13. EntriesOK'
  BY <1>0, <1>11, NoTableFacts DEF EntriesOK, NoPage, Kernel
<1>14. /\ table'[New(p)] = NoTable /\ \A r \in Slots : table'[Own(r)] = table[Own(r)]
       /\ \A r \in Slots : r # p => table'[New(r)] = table[New(r)]
  BY <1>t, <1>11, TableNames
<1>15. SlotsOK'
  BY <1>0, <1>1, <1>14 DEF SlotsOK
<1>16. CallsOK' /\ ExtentsOK'
  <2>1. Below(table[Own(p)], PagesIn(sz[p]))'
    BY <1>1, <1>2, <1>14 DEF PagesIn
  <2>2. /\ CallOK(p, job[p].kind)'
        /\ ExtentOK(p, job[p].kind, job[p].va, PagesIn(job[p].sz), PagesIn(job[p].new))'
    BY <1>1, <1>2, <1>9, <1>10, <1>14, <2>1, ReturnedCall
  <2>3. \A r \in Slots \ {p} : Same(r)
    BY <1>1, <1>9, <1>10, <1>14 DEF Same, Rests
  <2> QED BY <1>0, <1>2, <1>8, <2>2, <2>3, Confined
<1>17. PagesAreOwned'
  <2> DEFINE E == {HandTag(p), ArgvTag(p)}
  <2>1. /\ E \in SUBSET SlotTags
        /\ \A r \in Real : r \in S <=> own[r] \in TagsOf(t) \/ own[r] \in E
    BY <1>6, SlotTagFacts
  <2>2. \A r \in Slots :
           /\ trapframe'[r] = IF FrameTag(r) \in E THEN NoPage ELSE trapframe[r]
           /\ mem'[r] = IF HandTag(r) \in E THEN NoPage ELSE mem[r]
           /\ argv'[r] = IF ArgvTag(r) \in E THEN {} ELSE argv[r]
    BY <1>1, <1>9, <1>10, SlotTagFacts
  <2> HIDE DEF E
  <2>3. Real' = Real /\ NoPage \notin Real /\ free' = free \cup S
    BY <1>0, <1>7, <1>8, LoadFacts
  <2>4. S \in SUBSET Real
    BY <1>6
  <2>5. table \in [Tables -> PageTable]
    BY <1>0 DEF FullTypeOK
  <2>6. table' = [table EXCEPT ![t] = NoTable]
    BY <1>1
  <2>9. E \in SUBSET SlotTags /\ S \in SUBSET Real /\ Takes(own, TagsOf(t), E, S) /\ Empties(E)
    BY <2>1, <2>2, <2>4 DEF Takes, Empties
  <2> QED BY <1>5, <2>3, <2>4, <2>5, <2>6, <2>9, TableIsFreed
<1> QED BY <1>12, <1>13, <1>15, <1>16, <1>17 DEF IInv

LEMMA ExecFailsStep ==
    ASSUME IInv, NEW p \in Slots, ExecFails(p)
    PROVE  IInv'
<1>0. FullTypeOK /\ EntriesOK /\ SlotsOK /\ CallsOK /\ ExtentsOK
  BY DEF IInv
<1>t. PICK t \in Tables : t = New(p)
  BY TableNames
<1>1. /\ CallOK(p, job[p].kind)
      /\ ExtentOK(p, job[p].kind, job[p].va, PagesIn(job[p].sz), PagesIn(job[p].new))
  BY <1>0 DEF CallsOK, ExtentsOK
<1>2. ASSUME pc[p] \in {"root", "map"}, job[p].kind = "create", np[p] = NoSlot,
             Kfree(TablePages(table[t]) \cup argv[p]), Bad(p, table[t], 0)
      PROVE  IInv'
  <2>1. /\ state[p] = "RUNNABLE" /\ mem[p] = NoPage /\ Below(table[Own(p)], PagesIn(sz[p]))
        /\ \A a \in VirtualPages : ~Mapped(table[t], a)
    BY <1>t, <1>1, <1>2 DEF CallOK, ExtentOK
  <2>2. PICK S : /\ S = TablePages(table[t]) \cup argv[p]
                 /\ Kfree(S)
    BY <1>2
  <2>3. PagesOf(table[t], 0, 0) = {} /\ InHand(p) = {}
    BY <2>1 DEF PagesOf, InHand
  <2>4. S = TablePages(table[New(p)]) \cup PagesOf(table[New(p)], 0, 0) \cup InHand(p) \cup argv[p]
    BY <1>t, <2>2, <2>3
  <2>5. 0 <= UserPages /\ Below(table[New(p)], 0)
    BY <1>t, <2>1, VirtualPagesAre DEF Below
  <2>6. ~LeafRemains(table[t], 0)
    BY <2>1, VirtualPagesAre DEF LeafRemains, UserVPs
  <2>7. /\ panic' = FALSE /\ table' = [table EXCEPT ![New(p)] = NoTable]
        /\ argv' = [argv EXCEPT ![p] = {}] /\ Return(p)
        /\ UNCHANGED <<load, state, sz, trapframe, np>>
    BY <1>0, <1>2, <2>6 DEF Bad, Dropped, New, FullTypeOK
  <2>8. GivesUp(p, 0, S)
    BY <1>2, <2>1, <2>2, <2>4, <2>5, <2>7 DEF GivesUp
  <2> QED BY <2>5, <2>8, BadStep
<1>3. ASSUME pc[p] \in {"page", "map"}, job[p].kind \in {"segment", "stack"},
             Kfree(InHand(p) \cup PagesOf(table[t], PagesIn(job[p].sz), job[p].va)
                   \cup AllPages(table[t], job[p].sz) \cup argv[p]),
             Bad(p, Unmap(table[t], PagesIn(job[p].sz), job[p].va), job[p].sz)
      PROVE  IInv'
  <2>1. job[p].va \in UserVPs
    BY <1>0, <1>3, LoopFacts
  <2>2. PICK n \in Nat : n = job[p].va /\ n <= UserPages
    BY <2>1, VirtualPagesAre DEF UserVPs
  <2>3. PICK m \in Nat : m = PagesIn(job[p].sz)
    <3>1. job[p].sz \in Nat
      BY <1>0 DEF FullTypeOK, Job
    <3> QED BY <3>1, Rounding
  <2>4. /\ state[p] = "RUNNABLE" /\ np[p] = NoSlot /\ Below(table[Own(p)], PagesIn(sz[p]))
        /\ m <= n /\ \A a \in UserVPs : Mapped(table[t], a) <=> a < n
    BY <1>t, <1>1, <1>3, <2>2, <2>3 DEF CallOK, ExtentOK
  <2>5. PICK S : /\ S = InHand(p) \cup PagesOf(table[t], m, n)
                           \cup TablePages(table[t]) \cup PagesOf(table[t], 0, m) \cup argv[p]
                 /\ Kfree(S)
    <3>1. Kfree(InHand(p) \cup PagesOf(table[t], m, n)
                  \cup (TablePages(table[t]) \cup PagesOf(table[t], 0, m)) \cup argv[p])
      BY <1>3, <2>2, <2>3 DEF AllPages
    <3>2. InHand(p) \cup PagesOf(table[t], m, n)
                  \cup (TablePages(table[t]) \cup PagesOf(table[t], 0, m)) \cup argv[p]
          = InHand(p) \cup PagesOf(table[t], m, n)
                  \cup TablePages(table[t]) \cup PagesOf(table[t], 0, m) \cup argv[p]
      OBVIOUS
    <3> QED BY <3>1, <3>2
  <2>6. S = TablePages(table[New(p)]) \cup PagesOf(table[New(p)], 0, n) \cup InHand(p) \cup argv[p]
    <3>1. PagesOf(table[t], 0, n) = PagesOf(table[t], 0, m) \cup PagesOf(table[t], m, n)
      BY <2>4, TwoRanges
    <3> QED BY <1>t, <2>5, <3>1
  <2>7. Below(table[New(p)], n)
    BY <1>t, <2>4 DEF Below
  <2>8. ~LeafRemains(Unmap(table[t], m, n), job[p].sz)
    <3>1. \A a \in VirtualPages :
             Mapped(Unmap(table[t], m, n), a) <=> Mapped(table[t], a) /\ ~(m <= a /\ a < n)
      BY <1>0, UnmapFacts DEF FullTypeOK
    <3>2. \A a \in UserVPs : a \in VirtualPages /\ a \in Nat
      BY VirtualPagesAre
    <3> QED BY <2>3, <2>4, <3>1, <3>2 DEF LeafRemains, UserVPs
  <2>9. /\ panic' = FALSE /\ table' = [table EXCEPT ![New(p)] = NoTable]
        /\ argv' = [argv EXCEPT ![p] = {}] /\ Return(p)
        /\ UNCHANGED <<load, state, sz, trapframe, np>>
    BY <1>0, <1>3, <2>2, <2>3, <2>8 DEF Bad, Dropped, New, FullTypeOK
  <2>10. GivesUp(p, n, S)
    BY <2>4, <2>5, <2>6, <2>7, <2>9 DEF GivesUp
  <2> QED BY <2>2, <2>10, BadStep
<1> QED BY <1>t, <1>2, <1>3 DEF ExecFails, CreateFails, Creating, OutOfMemory, New

LEMMA ExecBadStep ==
    ASSUME IInv, NEW p \in Slots, ExecBad(p)
    PROVE  IInv'
<1>0. FullTypeOK /\ EntriesOK /\ SlotsOK /\ CallsOK /\ ExtentsOK
  BY DEF IInv
<1>t. PICK t \in Tables : t = New(p)
  BY TableNames
<1>1. /\ CallOK(p, job[p].kind)
      /\ ExtentOK(p, job[p].kind, job[p].va, PagesIn(job[p].sz), PagesIn(job[p].new))
  BY <1>0 DEF CallsOK, ExtentsOK
<1>2. PICK size :
        /\ size = IF pc[p] = "done" THEN job[p].new ELSE job[p].sz
        /\ Kfree(AllPages(table[t], size) \cup argv[p])
        /\ Bad(p, table[t], size)
  BY <1>t DEF ExecBad, New
<1>3. /\ pc[p] \in {"page", "done"} /\ job[p].kind \in {"segment", "stack"}
      /\ pc[p] = "page" => job[p].va = PagesIn(job[p].sz)
  BY DEF ExecBad
<1>4. PICK n \in Nat : n = job[p].va /\ n = PagesIn(size) /\ n <= UserPages
  <2>1. job[p].va \in Nat /\ job[p].new \in Nat
    BY <1>0, VirtualPagesAre DEF FullTypeOK, Job
  <2>2. job[p].va <= PagesIn(job[p].new) /\ job[p].new <= MaxSize
    BY <1>1, <1>3 DEF ExtentOK, Loops
  <2>3. pc[p] = "done" => job[p].va = PagesIn(job[p].new)
    BY <1>1, <1>3 DEF ExtentOK, Loops
  <2>4. PagesIn(job[p].new) \in 0..UserPages
    BY <2>1, <2>2, SizesAre
  <2> QED BY <1>2, <1>3, <2>1, <2>2, <2>3, <2>4, VirtualPagesAre
<1>5. /\ state[p] = "RUNNABLE" /\ np[p] = NoSlot /\ Below(table[Own(p)], PagesIn(sz[p]))
      /\ mem[p] = NoPage /\ \A a \in UserVPs : Mapped(table[t], a) <=> a < n
  BY <1>t, <1>1, <1>3, <1>4 DEF CallOK, ExtentOK
<1>6. PICK S : S = AllPages(table[t], size) \cup argv[p] /\ Kfree(S)
  BY <1>2
<1>7. S = TablePages(table[New(p)]) \cup PagesOf(table[New(p)], 0, n) \cup InHand(p) \cup argv[p]
  <2>1. AllPages(table[t], size) = TablePages(table[t]) \cup PagesOf(table[t], 0, n)
    BY <1>4 DEF AllPages
  <2>2. InHand(p) = {}
    BY <1>5 DEF InHand
  <2> QED BY <1>t, <1>6, <2>1, <2>2
<1>8. Below(table[New(p)], n)
  BY <1>t, <1>5 DEF Below
<1>9. ~LeafRemains(table[t], size)
  <2>1. \A a \in UserVPs : a \in Nat
    BY VirtualPagesAre
  <2> QED BY <1>4, <1>5, <2>1 DEF LeafRemains, UserVPs
<1>10. /\ panic' = FALSE /\ table' = [table EXCEPT ![New(p)] = NoTable]
       /\ argv' = [argv EXCEPT ![p] = {}] /\ Return(p)
       /\ UNCHANGED <<load, state, sz, trapframe, np>>
  BY <1>0, <1>2, <1>9 DEF Bad, Dropped, New, FullTypeOK
<1>11. GivesUp(p, n, S)
  BY <1>5, <1>6, <1>7, <1>8, <1>10 DEF GivesUp
<1> QED BY <1>4, <1>11, BadStep

-----------------------------------------------------------------------------
(* Steps that give a page table to a process.                              *)

\* What was of the page table s is of d, and what was of d, or has a tag of E, is free.
Renamed(o, s, d) ==
    IF o = RootTag(s) THEN RootTag(d)
    ELSE IF o[1] = "node" /\ o[2] = s THEN NodeTag(d, o[3])
    ELSE IF o[1] = "user" /\ o[2] = s THEN UserTag(d, o[3])
    ELSE o
Given(own, D, s, d) ==
    [r \in DOMAIN own |-> IF own[r] \in D THEN ListTag ELSE Renamed(own[r], s, d)]

LEMMA RenamedFacts ==
    ASSUME NEW s \in Tables, NEW d \in Tables, s # d, NEW o \in Tags, o \notin TagsOf(d)
    PROVE  /\ Renamed(o, s, d) \in Tags
           /\ Renamed(o, s, d) = ListTag <=> o = ListTag
           /\ \A p \in Slots : /\ Renamed(o, s, d) = FrameTag(p) <=> o = FrameTag(p)
                               /\ Renamed(o, s, d) = HandTag(p) <=> o = HandTag(p)
                               /\ Renamed(o, s, d) = ArgvTag(p) <=> o = ArgvTag(p)
           /\ Renamed(o, s, d) = RootTag(d) <=> o = RootTag(s)
           /\ \A n \in Nodes : Renamed(o, s, d) = NodeTag(d, n) <=> o = NodeTag(s, n)
           /\ \A a \in UserVPs : Renamed(o, s, d) = UserTag(d, a) <=> o = UserTag(s, a)
           /\ Renamed(o, s, d) # RootTag(s)
           /\ \A n \in Nodes : Renamed(o, s, d) # NodeTag(s, n)
           /\ \A a \in UserVPs : Renamed(o, s, d) # UserTag(s, a)
           /\ \A u \in Tables \ {s, d} :
                 /\ Renamed(o, s, d) = RootTag(u) <=> o = RootTag(u)
                 /\ \A n \in Nodes : Renamed(o, s, d) = NodeTag(u, n) <=> o = NodeTag(u, n)
                 /\ \A a \in UserVPs : Renamed(o, s, d) = UserTag(u, a) <=> o = UserTag(u, a)
<1>1. /\ o # RootTag(d) /\ \A n \in Nodes : o # NodeTag(d, n)
      /\ \A a \in UserVPs : o # UserTag(d, a)
  BY DEF TagsOf
<1>2. CASE o = RootTag(s)
  <2>1. Renamed(o, s, d) = RootTag(d)
    BY <1>2 DEF Renamed
  <2> QED BY <1>2, <2>1, TagFacts
<1>3. ASSUME NEW n \in Nodes, o = NodeTag(s, n)
      PROVE  Renamed(o, s, d) = NodeTag(d, n)
  BY <1>3, TagFacts DEF Renamed
<1>4. ASSUME NEW a \in UserVPs, o = UserTag(s, a)
      PROVE  Renamed(o, s, d) = UserTag(d, a)
  BY <1>4, TagFacts DEF Renamed
<1>5. CASE \E n \in Nodes : o = NodeTag(s, n)
  BY <1>3, <1>5, TagFacts
<1>6. CASE \E a \in UserVPs : o = UserTag(s, a)
  BY <1>4, <1>6, TagFacts
<1>7. CASE /\ o # RootTag(s) /\ \A n \in Nodes : o # NodeTag(s, n)
           /\ \A a \in UserVPs : o # UserTag(s, a)
  <2>1. ~(o[1] = "node" /\ o[2] = s) /\ ~(o[1] = "user" /\ o[2] = s)
    BY <1>7, TagKinds, TagFacts
  <2>2. Renamed(o, s, d) = o
    BY <1>7, <2>1 DEF Renamed
  <2> QED BY <1>1, <1>7, <2>2
<1> QED BY <1>2, <1>5, <1>6, <1>7

LEMMA TableIsGiven ==
    ASSUME NEW own \in [Real -> Tags], Accounts(own), Real' = Real, NoPage \notin Real,
           NEW s \in Tables, NEW d \in Tables, s # d,
           NEW E \in SUBSET SlotTags, NEW S \in SUBSET Real,
           Takes(own, TagsOf(d), E, S),
           free' = free \cup S,
           table'[s] = NoTable, table'[d].root = table[s].root,
           \A n \in Nodes : table'[d].node[n] = table[s].node[n],
           \A a \in UserVPs : table'[d].pte[a].page = table[s].pte[a].page,
           \A u \in Tables \ {s, d} : table'[u] = table[u],
           Empties(E)
    PROVE  PagesAreOwned'
<1> USE DEF Takes, Empties
<1> DEFINE D == TagsOf(d) \cup E
           own2 == Given(own, D, s, d)
<1>1. /\ \A o \in TagsOf(d) : o[1] \in {"root", "node", "user"} /\ o[2] = d
      /\ \A o \in E : o[1] \in {"trapframe", "hand", "argv"}
  <2>1. \A o \in E : o \in SlotTags
    OBVIOUS
  <2> QED BY <2>1, TagFacts DEF TagsOf, SlotTags
<1>2. \A p \in Slots : /\ FrameTag(p) \in D <=> FrameTag(p) \in E
                       /\ HandTag(p) \in D <=> HandTag(p) \in E
                       /\ ArgvTag(p) \in D <=> ArgvTag(p) \in E
  BY <1>1, TagFacts
<1>3. ListTag \notin D
  BY <1>1, TagFacts
<1>4. \A u \in Tables \ {d} : /\ RootTag(u) \notin D /\ \A n \in Nodes : NodeTag(u, n) \notin D
                              /\ \A a \in UserVPs : UserTag(u, a) \notin D
  BY <1>1, TagFacts
<1>5. \A r \in Real : own[r] \in Tags /\ (own[r] \notin D => own[r] \notin TagsOf(d))
  OBVIOUS
<1>6. /\ own2 \in [Real -> Tags]
      /\ \A r \in Real : own2[r] = IF own[r] \in D THEN ListTag ELSE Renamed(own[r], s, d)
  BY <1>5, TagFacts, RenamedFacts DEF Given
<1>7. \A r \in Real : r \in S <=> own[r] \in D
  OBVIOUS
<1> HIDE DEF own2, D
<1>8. \A r \in Real : r \in free' <=> own2[r] = ListTag
  <2>1. \A r \in Real : r \in free <=> own[r] = ListTag
    BY DEF Accounts
  <2> QED BY <1>5, <1>6, <1>7, <2>1, RenamedFacts
<1>9. ASSUME NEW p \in Slots
      PROVE  /\ trapframe'[p] \in Real \cup {NoPage} /\ mem'[p] \in Real \cup {NoPage}
             /\ argv'[p] \subseteq Real
             /\ \A r \in Real : /\ trapframe'[p] = r <=> own2[r] = FrameTag(p)
                                /\ mem'[p] = r <=> own2[r] = HandTag(p)
                                /\ r \in argv'[p] <=> own2[r] = ArgvTag(p)
  <2>1. /\ trapframe[p] \in Real \cup {NoPage} /\ mem[p] \in Real \cup {NoPage}
        /\ argv[p] \subseteq Real
        /\ \A r \in Real : trapframe[p] = r <=> own[r] = FrameTag(p)
        /\ \A r \in Real : mem[p] = r <=> own[r] = HandTag(p)
        /\ \A r \in Real : r \in argv[p] <=> own[r] = ArgvTag(p)
    BY DEF Accounts, SlotPages
  <2>2. \A r \in Real :
           /\ own2[r] = FrameTag(p) <=> own[r] = FrameTag(p) /\ FrameTag(p) \notin E
           /\ own2[r] = HandTag(p) <=> own[r] = HandTag(p) /\ HandTag(p) \notin E
           /\ own2[r] = ArgvTag(p) <=> own[r] = ArgvTag(p) /\ ArgvTag(p) \notin E
    BY <1>2, <1>5, <1>6, TagFacts, RenamedFacts
  <2> QED BY <2>1, <2>2
<1>10. ASSUME NEW u \in Tables \ {s, d} PROVE PagesOfTable(own2, u, table[u])'
  <2>1. PagesOfTable(own, u, table[u]) /\ table'[u] = table[u]
    BY DEF Accounts
  <2>2. \A r \in Real :
           /\ own2[r] = RootTag(u) <=> own[r] = RootTag(u)
           /\ \A n \in Nodes : own2[r] = NodeTag(u, n) <=> own[r] = NodeTag(u, n)
           /\ \A a \in UserVPs : own2[r] = UserTag(u, a) <=> own[r] = UserTag(u, a)
    BY <1>4, <1>5, <1>6, TagFacts, RenamedFacts
  <2> QED BY <2>1, <2>2 DEF PagesOfTable
<1>11. PagesOfTable(own2, s, table[s])'
  <2>1. \A r \in Real : /\ own2[r] # RootTag(s) /\ \A n \in Nodes : own2[r] # NodeTag(s, n)
                        /\ \A a \in UserVPs : own2[r] # UserTag(s, a)
    BY <1>5, <1>6, TagFacts, RenamedFacts
  <2> QED BY <2>1, NoTableFacts, VirtualPagesAre DEF PagesOfTable
<1>12. PagesOfTable(own2, d, table[d])'
  <2>1. PagesOfTable(own, s, table[s])
    BY DEF Accounts
  <2>2. \A r \in Real :
           /\ own2[r] = RootTag(d) <=> own[r] = RootTag(s)
           /\ \A n \in Nodes : own2[r] = NodeTag(d, n) <=> own[r] = NodeTag(s, n)
           /\ \A a \in UserVPs : own2[r] = UserTag(d, a) <=> own[r] = UserTag(s, a)
    BY <1>4, <1>5, <1>6, TagFacts, RenamedFacts
  <2> QED BY <2>1, <2>2 DEF PagesOfTable
<1>13. Accounts(own2)'
  BY <1>6, <1>8, <1>9, <1>10, <1>11, <1>12 DEF Accounts, SlotPages
<1> QED BY <1>6, <1>13 DEF PagesAreOwned

LEMMA ForkCreatedStep ==
    ASSUME IInv, NEW p \in Slots, ForkCreated(p)
    PROVE  IInv'
<1>0. FullTypeOK /\ EntriesOK /\ SlotsOK /\ CallsOK /\ ExtentsOK
  BY DEF IInv
<1>q. PICK q : q = np[p]
  OBVIOUS
<1>1. /\ pc[p] = "map" /\ job[p].kind = "create" /\ q # NoSlot
      /\ table' = [Dropped(p) EXCEPT ![Own(q)] = WithTrampoline(table[New(p)], q)]
      /\ Continue(p, [kind |-> "copy", on |-> Own(q), va |-> NextMapped(p, 0), seg |-> 0,
                      sz |-> 0, new |-> sz[p]])
      /\ UNCHANGED <<load, free, data, state, sz, trapframe, np, mem, argv, panic>>
  BY <1>q DEF ForkCreated, Creating, kmem, New, Own
<1>2. /\ CallOK(p, "create")
      /\ ExtentOK(p, "create", job[p].va, PagesIn(job[p].sz), PagesIn(job[p].new))
  BY <1>0, <1>1 DEF CallsOK, ExtentsOK
<1>3. /\ state[p] = "RUNNABLE" /\ mem[p] = NoPage /\ argv[p] = {}
      /\ \A a \in VirtualPages : ~Mapped(table[New(p)], a)
      /\ Below(table[Own(p)], PagesIn(sz[p])) /\ table[Own(q)] = NoTable
  BY <1>q, <1>1, <1>2 DEF CallOK, ExtentOK
<1>4. /\ q \in Slots /\ q # p /\ state[q] = "USED" /\ pc[q] = "user" /\ trapframe[q] \in Pages
  <2>1. q \in Slots /\ q # p /\ state[q] = "USED" /\ pc[q] = "user" /\ trapframe[q] # NoPage
    BY <1>0, <1>q, <1>1, <1>3, ChildFacts
  <2> QED BY <1>0, <2>1 DEF FullTypeOK
<1>5. PICK n \in Nat, v \in Nat :
        /\ n = PagesIn(sz[p]) /\ n <= UserPages /\ v = NextMapped(p, 0) /\ v <= n
        /\ v < n => Mapped(table[Own(p)], v)
  <2>1. sz[p] \in 0..MaxSize
    BY <1>0 DEF FullTypeOK
  <2>2. PagesIn(sz[p]) \in 0..UserPages
    BY <2>1, SizesAre
  <2>3. /\ NextMapped(p, 0) \in 0..PagesIn(sz[p])
        /\ NextMapped(p, 0) < PagesIn(sz[p]) => Mapped(table[Own(p)], NextMapped(p, 0))
    BY <1>0, <2>2, NextMappedFacts
  <2> QED BY <2>2, <2>3, VirtualPagesAre
<1>6. PICK j \in Job, c \in {"page", "done"} :
        /\ j.kind = "copy" /\ j.on = Own(q) /\ j.va = v /\ j.sz = 0 /\ j.new = sz[p]
        /\ job' = [job EXCEPT ![p] = j] /\ pc' = [pc EXCEPT ![p] = c]
        /\ c = "done" <=> v = n
  <2> DEFINE k == [kind |-> "copy", on |-> Own(q), va |-> v, seg |-> 0, sz |-> 0, new |-> sz[p]]
             d == IF v < n THEN "page" ELSE "done"
  <2>1. v \in VirtualPages /\ sz[p] \in Nat
    BY <1>0, <1>5, MemoryAssumption, SizesAre DEF VirtualPages, TRAMPOLINE, FullTypeOK
  <2>2. k \in Job
    BY <1>4, <2>1, TableNames DEF Job, Loops
  <2>3. job' = [job EXCEPT ![p] = k] /\ pc' = [pc EXCEPT ![p] = d]
    BY <1>1, <1>5 DEF Continue
  <2>4. d \in {"page", "done"} /\ (d = "done" <=> v = n)
    BY <1>5
  <2> QED BY <2>2, <2>3, <2>4
<1>7. /\ job'[p] = j /\ pc'[p] = c
      /\ \A r \in Slots : r # p => job'[r] = job[r] /\ pc'[r] = pc[r]
      /\ pc' \in [Slots -> {"user", "argv", "root", "page", "map", "done"}]
      /\ job' \in [Slots -> Job]
  BY <1>0, <1>6 DEF FullTypeOK
<1>t. PICK s \in Tables, d \in Tables : s = New(p) /\ d = Own(q) /\ s # d
  BY <1>4, TableNames
<1>8. /\ table' \in [Tables -> PageTable] /\ table'[s] = NoTable
      /\ \A u \in Tables \ {s, d} : table'[u] = table[u]
      /\ table'[d].root = table[s].root /\ table'[d].node = table[s].node
      /\ \A a \in UserVPs : table'[d].pte[a] = table[s].pte[a]
      /\ table'[d].pte[TRAMPOLINE].page # NoPage
      /\ table'[d].pte[TRAPFRAME].page # NoPage
  <2>1. table \in [Tables -> PageTable] /\ table[s] \in PageTable
    BY <1>0 DEF FullTypeOK
  <2>2. PICK U \in PageTable :
           /\ U = WithTrampoline(table[s], q)
           /\ U.root = table[s].root /\ U.node = table[s].node
           /\ \A a \in UserVPs : U.pte[a] = table[s].pte[a]
           /\ U.pte[TRAMPOLINE].page # NoPage /\ U.pte[TRAPFRAME].page # NoPage
    BY <1>4, <2>1, WithTrampolineFacts
  <2>3. table' = [[table EXCEPT ![s] = NoTable] EXCEPT ![d] = U]
    BY <1>1, <1>t, <2>2 DEF Dropped, New
  <2>4. table' \in [Tables -> PageTable] /\ table'[d] = U /\ table'[s] = NoTable
        /\ \A u \in Tables \ {s, d} : table'[u] = table[u]
    BY <1>t, <2>1, <2>3, NoTableFacts
  <2> QED BY <2>2, <2>4
<1>9. Real' = Real /\ load'.image = load.image
  BY <1>1 DEF Real
<1>10. FullTypeOK'
  BY <1>0, <1>1, <1>7, <1>8, <1>9 DEF FullTypeOK
<1>11. EntriesOK'
  <2>1. ASSUME NEW t \in Tables, NEW a \in VirtualPages
        PROVE  /\ table'[t].pte[a].page = NoPage => table'[t].pte[a] = NoPte
               /\ a \in UserVPs => table'[t].pte[a].page # Kernel
    <3>1. a \in UserVPs \/ a = TRAMPOLINE \/ a = TRAPFRAME
      BY MemoryAssumption DEF UserVPs, VirtualPages, TRAMPOLINE, TRAPFRAME
    <3>2. TRAMPOLINE \notin UserVPs /\ TRAPFRAME \notin UserVPs
      BY VirtualPagesAre
    <3>3. CASE t = s
      BY <1>8, <3>3, NoTableFacts DEF NoPage, Kernel
    <3>4. CASE t # s
      BY <1>0, <1>8, <3>1, <3>2, <3>4 DEF EntriesOK
    <3> QED BY <3>3, <3>4
  <2> QED BY <2>1 DEF EntriesOK
<1>12. /\ table'[New(p)] = NoTable /\ \A r \in Slots : r # p => table'[New(r)] = table[New(r)]
       /\ \A r \in Slots : r # q => table'[Own(r)] = table[Own(r)]
  BY <1>4, <1>t, <1>8, TableNames
<1>13. SlotsOK'
  BY <1>0, <1>1, <1>4, <1>12 DEF SlotsOK
<1>14. CallsOK' /\ ExtentsOK'
  <2>1. \A a \in UserVPs : ~Mapped(table'[Own(q)], a)
    BY <1>3, <1>t, <1>8, VirtualPagesAre DEF Mapped
  <2>2. /\ np'[p] = q /\ state'[p] = "RUNNABLE" /\ sz'[p] = sz[p] /\ argv'[p] = {}
        /\ mem'[p] = NoPage /\ table'[New(p)] = NoTable /\ table'[Own(p)] = table[Own(p)]
    BY <1>q, <1>1, <1>3, <1>4, <1>12
  <2>3. CallOK(p, j.kind)'
    BY <1>1, <1>6, <1>7, <2>2 DEF CallOK, Loops
  <2>4. ExtentOK(p, "copy", v, 0, n)'
    <3>1. PagesIn(sz[p])' = n /\ sz[p] <= MaxSize
      BY <1>0, <1>1, <1>5, SizesAre DEF PagesIn, FullTypeOK
    <3>2. Below(table[Own(q)], v)' /\ Below(table[Own(p)], n)'
      BY <1>3, <1>5, <2>1, <2>2 DEF Below
    <3> QED BY <1>1, <1>5, <1>6, <1>7, <2>2, <3>1, <3>2 DEF ExtentOK
  <2>5. ExtentOK(p, j.kind, j.va, PagesIn(j.sz), PagesIn(j.new))'
    <3>1. PagesIn(j.sz) = 0 /\ PagesIn(j.new) = n
      BY <1>5, <1>6, SizesAre
    <3> QED BY <1>6, <2>4, <3>1
  <2>6. /\ CallOK(p, job[p].kind)'
        /\ ExtentOK(p, job[p].kind, job[p].va, PagesIn(job[p].sz), PagesIn(job[p].new))'
    BY <1>7, <2>3, <2>5, CallAt
  <2>7. \A r \in Slots : r \notin {p, q} => Same(r)
    BY <1>1, <1>7, <1>12 DEF Same, Rests
  <2>8. Rests(q) /\ state[q] # "RUNNABLE" /\ state'[q] = "USED"
    BY <1>1, <1>4, <1>7, <1>12 DEF Rests
  <2> QED BY <1>0, <1>q, <1>3, <1>4, <1>9, <2>6, <2>7, <2>8, CallStep
<1>15. PagesAreOwned'
  <2>1. PICK own \in [Real -> Tags] : Accounts(own)
    BY DEF IInv, PagesAreOwned
  <2>2. \A r \in Real : own[r] \notin TagsOf(d)
    <3>1. Below(table[d], 0) /\ 0 <= UserPages /\ table[d] = NoTable
      BY <1>3, <1>t, NoTableFacts, VirtualPagesAre
    <3>2. \A r \in Real : r \in TablePages(table[d]) \cup PagesOf(table[d], 0, 0)
                             <=> own[r] \in TagsOf(d)
      BY <1>0, <2>1, <3>1, WholeTable
    <3>3. TablePages(table[d]) = {} /\ PagesOf(table[d], 0, 0) = {}
      BY <3>1, NoTableFacts DEF TablePages, PagesOf
    <3> QED BY <3>2, <3>3
  <2> DEFINE E == {}
             S == {}
  <2>3. /\ E \in SUBSET SlotTags /\ S \in SUBSET Real
        /\ \A r \in Real : r \in S <=> own[r] \in TagsOf(d) \/ own[r] \in E
    BY <2>2
  <2>4. \A r \in Slots :
           /\ trapframe'[r] = IF FrameTag(r) \in E THEN NoPage ELSE trapframe[r]
           /\ mem'[r] = IF HandTag(r) \in E THEN NoPage ELSE mem[r]
           /\ argv'[r] = IF ArgvTag(r) \in E THEN {} ELSE argv[r]
    BY <1>1
  <2>5. Real' = Real /\ NoPage \notin Real /\ free' = free \cup S
    BY <1>0, <1>1, <1>9, LoadFacts
  <2> HIDE DEF E, S
  <2>6. /\ table'[s] = NoTable /\ table'[d].root = table[s].root
        /\ \A n2 \in Nodes : table'[d].node[n2] = table[s].node[n2]
        /\ \A a \in UserVPs : table'[d].pte[a].page = table[s].pte[a].page
        /\ \A u \in Tables \ {s, d} : table'[u] = table[u]
    BY <1>8
  <2>7. s # d /\ own \in [Real -> Tags]
    BY <1>t
  <2>9. E \in SUBSET SlotTags /\ S \in SUBSET Real /\ Takes(own, TagsOf(d), E, S) /\ Empties(E)
    BY <2>3, <2>4 DEF Takes, Empties
  <2> QED BY <2>1, <2>5, <2>6, <2>7, <2>9, TableIsGiven
<1> QED BY <1>10, <1>11, <1>13, <1>14, <1>15 DEF IInv

LEMMA ExecCommitStep ==
    ASSUME IInv, NEW p \in Slots, ExecCommit(p)
    PROVE  IInv'
<1>0. FullTypeOK /\ EntriesOK /\ SlotsOK /\ CallsOK /\ ExtentsOK
  BY DEF IInv
<1>t. PICK s \in Tables, d \in Tables : s = New(p) /\ d = Own(p) /\ s # d
  BY TableNames
<1>a. /\ pc[p] = "done" /\ job[p].kind = "stack"
      /\ CallOK(p, "stack")
      /\ ExtentOK(p, "stack", job[p].va, PagesIn(job[p].sz), PagesIn(job[p].new))
  <2>1. pc[p] = "done" /\ job[p].kind = "stack"
    BY DEF ExecCommit
  <2> QED BY <1>0, <2>1 DEF CallsOK, ExtentsOK
<1>b. PICK g \in UserVPs, v \in Nat :
        /\ g = PagesIn(job[p].sz) /\ v = PagesIn(job[p].new)
        /\ g < v /\ v <= UserPages /\ job[p].new \in 0..MaxSize
        /\ \A a \in UserVPs : Mapped(table[s], a) <=> a < v
  <2>1. job[p].sz \in Nat /\ job[p].new \in Nat
    BY <1>0 DEF FullTypeOK, Job
  <2>2. /\ job[p].new <= MaxSize /\ job[p].va = PagesIn(job[p].new)
        /\ PagesIn(job[p].new) = PagesIn(job[p].sz) + 2
        /\ \A a \in UserVPs : Mapped(table[s], a) <=> a < job[p].va
    BY <1>a, <1>t DEF ExtentOK, Loops
  <2>3. job[p].new \in 0..MaxSize /\ PagesIn(job[p].new) \in 0..UserPages /\ PagesIn(job[p].sz) \in Nat
    BY <2>1, <2>2, SizesAre, Rounding
  <2>4. PagesIn(job[p].sz) \in UserVPs
    BY <2>2, <2>3, VirtualPagesAre DEF UserVPs
  <2> QED BY <2>2, <2>3, <2>4, VirtualPagesAre
<1>c. PICK m \in Nat : m = PagesIn(sz[p]) /\ m <= UserPages
  <2>1. sz[p] \in 0..MaxSize
    BY <1>0 DEF FullTypeOK
  <2> QED BY <2>1, SizesAre, VirtualPagesAre
<1>d. PICK S, X :
        /\ S = TablePages(table[d]) \cup PagesOf(table[d], 0, m) \cup argv[p]
        /\ free' = free \cup S
        /\ X = table[s].pte[g + 1].page
        /\ data' = [pg \in Pages |-> IF pg \in S THEN Junk ELSE IF pg = X THEN Arg ELSE data[pg]]
        /\ panic' = (panic \/ LeafRemains(table[d], sz[p]))
        /\ table' = [Dropped(p) EXCEPT ![d] = [table[s] EXCEPT !.pte[g].user = FALSE]]
        /\ sz' = [sz EXCEPT ![p] = job[p].new]
        /\ argv' = [argv EXCEPT ![p] = {}]
        /\ Return(p)
        /\ UNCHANGED <<load, state, trapframe, np>>
  BY <1>t, <1>b, <1>c DEF ExecCommit, AllPages, New, Own
<1>3. /\ state[p] = "RUNNABLE" /\ mem[p] = NoPage /\ np[p] = NoSlot /\ Below(table[d], m)
  BY <1>a, <1>c, <1>t DEF CallOK, ExtentOK
<1>4. panic' = FALSE
  <2>1. \A a \in UserVPs : a \in Nat
    BY VirtualPagesAre
  <2>2. ~LeafRemains(table[d], sz[p])
    BY <1>c, <1>3, <2>1 DEF LeafRemains, Below, UserVPs
  <2> QED BY <1>0, <1>d, <2>2 DEF FullTypeOK
<1>5. PICK own \in [Real -> Tags] : Accounts(own)
  BY DEF IInv, PagesAreOwned
<1>6. /\ S \in SUBSET Real
      /\ \A r \in Real : r \in S <=> own[r] \in TagsOf(d) \/ own[r] = ArgvTag(p)
  <2>1. argv[p] \subseteq Real /\ \A r \in Real : r \in argv[p] <=> own[r] = ArgvTag(p)
    BY <1>0, <1>5, PagesHeld
  <2>2. /\ TablePages(table[d]) \cup PagesOf(table[d], 0, m) \subseteq Real
        /\ \A r \in Real : r \in TablePages(table[d]) \cup PagesOf(table[d], 0, m)
                              <=> own[r] \in TagsOf(d)
    BY <1>0, <1>c, <1>3, <1>5, WholeTable
  <2> QED BY <1>d, <2>1, <2>2
<1>7. free' = free \cup S /\ free' \subseteq Real /\ data' \in [Pages -> Values \cup {Junk}]
  <2>1. free' = free \cup S /\ free' \subseteq Real
    BY <1>0, <1>d, <1>6 DEF FullTypeOK
  <2>2. data \in [Pages -> Values \cup {Junk}] /\ Arg \in Values
    BY <1>0, MemoryAssumption DEF FullTypeOK
  <2> QED BY <1>d, <2>1, <2>2
<1>8. Real' = Real /\ load'.image = load.image
  BY <1>d DEF Real
<1>9. /\ pc'[p] = "user" /\ job'[p] = NoJob /\ mem'[p] = NoPage
      /\ \A r \in Slots : r # p => pc'[r] = pc[r] /\ job'[r] = job[r] /\ mem'[r] = mem[r]
      /\ pc' \in [Slots -> {"user", "argv", "root", "page", "map", "done"}]
      /\ job' \in [Slots -> Job] /\ mem' \in [Slots -> Pages \cup {NoPage}]
  BY <1>0, <1>d, ReturnFacts
<1>10. /\ argv'[p] = {} /\ \A r \in Slots : r # p => argv'[r] = argv[r]
       /\ argv' \in [Slots -> SUBSET Pages]
       /\ sz'[p] = job[p].new /\ \A r \in Slots : r # p => sz'[r] = sz[r]
       /\ sz' \in [Slots -> 0..MaxSize]
  BY <1>0, <1>b, <1>d DEF FullTypeOK
<1>11. /\ table' \in [Tables -> PageTable] /\ table'[s] = NoTable
       /\ \A u \in Tables \ {s, d} : table'[u] = table[u]
       /\ table'[d].root = table[s].root /\ table'[d].node = table[s].node
       /\ \A a \in VirtualPages :
             /\ table'[d].pte[a].page = table[s].pte[a].page
             /\ a # g => table'[d].pte[a] = table[s].pte[a]
       /\ Mapped(table[s], g)
  <2>1. table \in [Tables -> PageTable] /\ table[s] \in PageTable /\ g \in VirtualPages
    BY <1>0, VirtualPagesAre DEF FullTypeOK
  <2>2. PICK U \in PageTable :
           /\ U = [table[s] EXCEPT !.pte[g].user = FALSE]
           /\ U.root = table[s].root /\ U.node = table[s].node
           /\ \A a \in VirtualPages : /\ U.pte[a].page = table[s].pte[a].page
                                      /\ a # g => U.pte[a] = table[s].pte[a]
    <3> DEFINE T == table[s]
               e == [T.pte[g] EXCEPT !.user = FALSE]
               U == [T EXCEPT !.pte[g].user = FALSE]
    <3>1. T.pte[g] \in PTE /\ T \in PageTable
      BY <2>1 DEF PageTable
    <3>2. e \in PTE /\ e.page = T.pte[g].page
      BY <3>1 DEF PTE
    <3>3. U = WithEntry(T, g, e)
      BY DEF WithEntry
    <3> HIDE DEF T, e, U
    <3>4. /\ U \in PageTable /\ U.root = T.root /\ U.node = T.node
          /\ \A a \in VirtualPages : U.pte[a] = IF a = g THEN e ELSE T.pte[a]
      BY <2>1, <3>1, <3>2, <3>3, EntrySet
    <3>5. U \in PageTable /\ U.root = T.root /\ U.node = T.node
          /\ \A a \in VirtualPages : /\ U.pte[a].page = T.pte[a].page
                                     /\ a # g => U.pte[a] = T.pte[a]
      BY <3>2, <3>4
    <3> QED BY <3>5 DEF T, U
  <2>3. table' = [[table EXCEPT ![s] = NoTable] EXCEPT ![d] = U]
    BY <1>d, <1>t, <2>2 DEF Dropped, New
  <2>4. table' \in [Tables -> PageTable] /\ table'[d] = U /\ table'[s] = NoTable
        /\ \A u \in Tables \ {s, d} : table'[u] = table[u]
    BY <1>t, <2>1, <2>3, NoTableFacts
  <2>5. Mapped(table[s], g)
    BY <1>b
  <2> QED BY <2>2, <2>4, <2>5
<1>12. FullTypeOK'
  BY <1>0, <1>d, <1>4, <1>7, <1>8, <1>9, <1>10, <1>11 DEF FullTypeOK
<1>13. EntriesOK'
  <2>1. ASSUME NEW t \in Tables, NEW a \in VirtualPages
        PROVE  /\ table'[t].pte[a].page = NoPage => table'[t].pte[a] = NoPte
               /\ a \in UserVPs => table'[t].pte[a].page # Kernel
    <3>1. /\ table[s].pte[a].page = NoPage => table[s].pte[a] = NoPte
          /\ a \in UserVPs => table[s].pte[a].page # Kernel
          /\ table[t].pte[a].page = NoPage => table[t].pte[a] = NoPte
          /\ a \in UserVPs => table[t].pte[a].page # Kernel
      BY <1>0 DEF EntriesOK
    <3>2. CASE t = s
      BY <1>11, <3>2, NoTableFacts DEF NoPage, Kernel
    <3>3. CASE t = d /\ a # g
      BY <1>11, <3>1, <3>3
    <3>4. CASE t = d /\ a = g
      BY <1>11, <3>1, <3>4 DEF Mapped
    <3>5. CASE t # s /\ t # d
      BY <1>11, <3>1, <3>5
    <3> QED BY <3>2, <3>3, <3>4, <3>5
  <2> QED BY <2>1 DEF EntriesOK
<1>14. /\ table'[New(p)] = NoTable /\ \A r \in Slots : r # p => table'[New(r)] = table[New(r)]
       /\ \A r \in Slots : r # p => table'[Own(r)] = table[Own(r)]
  BY <1>t, <1>11, TableNames
<1>15. SlotsOK'
  BY <1>0, <1>d, <1>3, <1>10, <1>14 DEF SlotsOK
<1>16. CallsOK' /\ ExtentsOK'
  <2>1. Below(table[Own(p)], PagesIn(sz[p]))'
    <3>1. \A a \in UserVPs : Mapped(table'[d], a) => a < v
      <4>1. \A a \in UserVPs : a \in VirtualPages
        BY VirtualPagesAre
      <4> QED BY <1>b, <1>11, <4>1 DEF Mapped
    <3>2. PagesIn(sz[p])' = v
      BY <1>b, <1>10 DEF PagesIn
    <3> QED BY <1>t, <3>1, <3>2 DEF Below
  <2>2. /\ CallOK(p, job[p].kind)'
        /\ ExtentOK(p, job[p].kind, job[p].va, PagesIn(job[p].sz), PagesIn(job[p].new))'
    BY <1>d, <1>3, <1>9, <1>10, <1>14, <2>1, ReturnedCall
  <2>3. \A r \in Slots \ {p} : Same(r)
    BY <1>d, <1>9, <1>10, <1>14 DEF Same, Rests
  <2> QED BY <1>0, <1>3, <1>8, <2>2, <2>3, Confined
<1>17. PagesAreOwned'
  <2> DEFINE E == {ArgvTag(p)}
  <2>1. /\ E \in SUBSET SlotTags /\ S \in SUBSET Real
        /\ \A r \in Real : r \in S <=> own[r] \in TagsOf(d) \/ own[r] \in E
    BY <1>6, SlotTagFacts
  <2>2. \A r \in Slots :
           /\ trapframe'[r] = IF FrameTag(r) \in E THEN NoPage ELSE trapframe[r]
           /\ mem'[r] = IF HandTag(r) \in E THEN NoPage ELSE mem[r]
           /\ argv'[r] = IF ArgvTag(r) \in E THEN {} ELSE argv[r]
    BY <1>d, <1>3, <1>9, <1>10, SlotTagFacts
  <2> HIDE DEF E
  <2>3. Real' = Real /\ NoPage \notin Real /\ free' = free \cup S
    BY <1>0, <1>7, <1>8, LoadFacts
  <2>4. /\ table'[s] = NoTable /\ table'[d].root = table[s].root
        /\ \A n2 \in Nodes : table'[d].node[n2] = table[s].node[n2]
        /\ \A a \in UserVPs : table'[d].pte[a].page = table[s].pte[a].page
        /\ \A u \in Tables \ {s, d} : table'[u] = table[u]
    BY <1>11, VirtualPagesAre
  <2>5. s # d /\ own \in [Real -> Tags]
    BY <1>t
  <2>9. E \in SUBSET SlotTags /\ S \in SUBSET Real /\ Takes(own, TagsOf(d), E, S) /\ Empties(E)
    BY <2>1, <2>2, <1>5 DEF Takes, Empties
  <2> QED BY <1>5, <2>3, <2>4, <2>5, <2>9, TableIsGiven
<1> QED BY <1>12, <1>13, <1>15, <1>16, <1>17 DEF IInv

-----------------------------------------------------------------------------
(* The first state, and the theorem.                                       *)

\* The first pages: the trapframe of init, the root of its page table, and the page-table
\* pages on the path to the trampoline.
FirstOwner(r) ==
    IF r = 1 THEN FrameTag(0)
    ELSE IF r = 2 THEN RootTag(Own(0))
    ELSE IF r <= 2 + Len(Path[TRAMPOLINE]) THEN NodeTag(Own(0), Path[TRAMPOLINE][r - 2])
    ELSE ListTag

FirstNode ==
    [n \in Nodes |-> IF \E i \in DOMAIN Path[TRAMPOLINE] : Path[TRAMPOLINE][i] = n
                       THEN 2 + CHOOSE i \in DOMAIN Path[TRAMPOLINE] : Path[TRAMPOLINE][i] = n
                       ELSE NoPage]

LEMMA FirstNodes ==
    /\ Len(Path[TRAMPOLINE]) \in Nat
    /\ \A i \in Nat : 1 <= i /\ i <= Len(Path[TRAMPOLINE]) => Path[TRAMPOLINE][i] \in Nodes
    /\ \A n \in Nodes : \/ FirstNode[n] = NoPage /\ \A i \in DOMAIN Path[TRAMPOLINE] : Path[TRAMPOLINE][i] # n
                        \/ \E i \in Nat : /\ 1 <= i /\ i <= Len(Path[TRAMPOLINE])
                                          /\ FirstNode[n] = 2 + i /\ Path[TRAMPOLINE][i] = n
                                          /\ \A k \in Nat : 1 <= k /\ k <= Len(Path[TRAMPOLINE])
                                                            /\ Path[TRAMPOLINE][k] = n => k = i
<1>0. TRAMPOLINE \in VirtualPages
  BY VirtualPagesAre
<1> DEFINE P == Path[TRAMPOLINE]
<1>1. P \in Seq(Nodes) /\ \A i, j \in DOMAIN P : P[i] = P[j] => i = j
  BY <1>0, PathFacts, MemoryAssumption
<1>2. FirstNode = [n \in Nodes |-> IF \E i \in DOMAIN P : P[i] = n
                                     THEN 2 + CHOOSE i \in DOMAIN P : P[i] = n ELSE NoPage]
  BY DEF FirstNode
<1> HIDE DEF P
<1>3. Len(P) \in Nat /\ DOMAIN P = 1..Len(P) /\ \A i \in DOMAIN P : P[i] \in Nodes
  BY <1>1
<1>4. \A i : i \in DOMAIN P <=> i \in Nat /\ 1 <= i /\ i <= Len(P)
  BY <1>3
<1>5. ASSUME NEW n \in Nodes
      PROVE  \/ FirstNode[n] = NoPage /\ \A i \in DOMAIN P : P[i] # n
             \/ \E i \in Nat : /\ 1 <= i /\ i <= Len(P) /\ FirstNode[n] = 2 + i /\ P[i] = n
                               /\ \A k \in Nat : 1 <= k /\ k <= Len(P) /\ P[k] = n => k = i
  <2>1. CASE \A i \in DOMAIN P : P[i] # n
    BY <1>2, <2>1
  <2>2. CASE \E i \in DOMAIN P : P[i] = n
    <3>1. PICK i \in DOMAIN P : P[i] = n /\ i = CHOOSE k \in DOMAIN P : P[k] = n
      BY <2>2
    <3>2. FirstNode[n] = 2 + i
      BY <1>2, <2>2, <3>1
    <3> QED BY <1>1, <1>4, <3>1, <3>2
  <2> QED BY <2>1, <2>2
<1>6. \A i \in Nat : 1 <= i /\ i <= Len(P) => P[i] \in Nodes
  BY <1>3, <1>4
<1> QED BY <1>3, <1>5, <1>6 DEF P

LEMMA InitIInv ==
    ASSUME Init
    PROVE  IInv
<1> DEFINE L == Len(Path[TRAMPOLINE])
           root == [NoTable EXCEPT !.root = 2, !.node = FirstNode]
<1>1. PICK w \in Workloads :
        /\ load = w
        /\ free = (2 + L + 1)..w.pages
        /\ data = [pg \in Pages |-> IF pg \in 1..(2 + L) THEN Zero ELSE Junk]
        /\ state = [p \in Slots |-> IF p = 0 THEN "RUNNABLE" ELSE "UNUSED"]
        /\ sz = [p \in Slots |-> 0]
        /\ trapframe = [p \in Slots |-> IF p = 0 THEN 1 ELSE NoPage]
        /\ table = [t \in Tables |-> IF t = Own(0) THEN WithTrampoline(root, 0) ELSE NoTable]
        /\ pc = [p \in Slots |-> IF p = 0 THEN "root" ELSE "user"]
        /\ job = [p \in Slots |-> IF p = 0 THEN CreateJob(0) ELSE NoJob]
        /\ np = [p \in Slots |-> NoSlot]
        /\ mem = [p \in Slots |-> NoPage]
        /\ argv = [p \in Slots |-> {}]
        /\ panic = FALSE
  BY DEF Init, FirstNode, Tables, Own
<1>2. /\ w.calls \in Nat /\ load = [w EXCEPT !.calls = load.calls]
      /\ w.pages \in 1..MaxPages /\ w.pages >= 2 + L /\ MaxPages \in Nat
      /\ Zero \in Values /\ 0 \in Slots
  <2>1. /\ w \in [pages : 1..MaxPages, calls : Nat, does : SUBSET {"fork", "exec"},
                  grow : SUBSET (Nat \ {0}), shrink : SUBSET (Nat \ {0}),
                  stores : SUBSET Values, image : Seq(Segments), args : Nat]
        /\ w.pages >= 2 + L
    BY MemoryAssumption
  <2>2. load = [w EXCEPT !.calls = load.calls]
    BY <1>1, <2>1
  <2> QED BY <2>1, <2>2, MemoryAssumption DEF Slots
<1>3. /\ L \in Nat /\ NoPage \notin Real /\ Real \subseteq Pages /\ 1 \in Real /\ 2 \in Real
      /\ \A i \in Nat : 1 <= i /\ i <= L => 2 + i \in Real
      /\ \A r \in Real : r \in Nat /\ 1 <= r
  BY <1>1, <1>2, FirstNodes DEF Real, Pages, NoPage
<1>4. root \in PageTable /\ root.root = 2 /\ root.node = FirstNode
      /\ \A a \in VirtualPages : root.pte[a] = NoPte
  <2>1. FirstNode \in [Nodes -> Pages \cup {NoPage}]
    <3>1. \A n \in Nodes : FirstNode[n] \in Pages \cup {NoPage}
      BY <1>3, FirstNodes
    <3> QED BY <3>1 DEF FirstNode
  <2>2. NoTable \in PageTable /\ 2 \in Pages
    BY <1>3, NoTableFacts
  <2> QED BY <2>1, <2>2, NoTableFacts DEF PageTable
<1> HIDE DEF root, L
<1>5. PICK U \in PageTable :
        /\ table = [t \in Tables |-> IF t = Own(0) THEN U ELSE NoTable]
        /\ U.root = 2 /\ U.node = FirstNode
        /\ \A a \in UserVPs : U.pte[a] = NoPte
        /\ U.pte[TRAMPOLINE].page # NoPage /\ U.pte[TRAPFRAME].page # NoPage
  <2>1. trapframe[0] \in Pages
    BY <1>1, <1>2, <1>3
  <2>2. PICK U \in PageTable :
          /\ U = WithTrampoline(root, 0) /\ U.root = root.root /\ U.node = root.node
          /\ \A a \in UserVPs : U.pte[a] = root.pte[a]
          /\ U.pte[TRAMPOLINE].page # NoPage /\ U.pte[TRAPFRAME].page # NoPage
    BY <1>2, <1>4, <2>1, WithTrampolineFacts
  <2>3. table = [t \in Tables |-> IF t = Own(0) THEN U ELSE NoTable]
    BY <1>1, <2>2
  <2>4. \A a \in UserVPs : U.pte[a] = NoPte
    BY <1>4, <2>2, VirtualPagesAre
  <2> QED BY <1>4, <2>2, <2>3, <2>4
<1>6. /\ Own(0) \in Tables /\ table[Own(0)] = U
      /\ \A t \in Tables : t # Own(0) => table[t] = NoTable
      /\ table \in [Tables -> PageTable]
  BY <1>2, <1>5, TableNames, NoTableFacts
<1>7. FullTypeOK
  <2>1. free \subseteq Real
    BY <1>1, <1>2, <1>3 DEF Real
  <2>2. data \in [Pages -> Values \cup {Junk}] /\ sz \in [Slots -> 0..MaxSize]
        /\ trapframe \in [Slots -> Pages \cup {NoPage}] /\ mem \in [Slots -> Pages \cup {NoPage}]
        /\ argv \in [Slots -> SUBSET Pages] /\ np \in [Slots -> Slots \cup {NoSlot}]
    BY <1>1, <1>2, <1>3, SizesAre
  <2>3. job \in [Slots -> Job]
    BY <1>1, <1>2, JobsAre
  <2> QED BY <1>1, <1>2, <1>6, <2>1, <2>2, <2>3 DEF FullTypeOK
<1>8. EntriesOK
  <2>1. ASSUME NEW t \in Tables, NEW a \in VirtualPages
        PROVE  /\ table[t].pte[a].page = NoPage => table[t].pte[a] = NoPte
               /\ a \in UserVPs => table[t].pte[a].page # Kernel
    <3>1. a \in UserVPs \/ a = TRAMPOLINE \/ a = TRAPFRAME
      BY MemoryAssumption DEF UserVPs, VirtualPages, TRAMPOLINE, TRAPFRAME
    <3>2. TRAMPOLINE \notin UserVPs /\ TRAPFRAME \notin UserVPs
      BY VirtualPagesAre
    <3>3. NoPage # Kernel
      BY DEF NoPage, Kernel
    <3>4. CASE t = Own(0)
      BY <1>5, <1>6, <3>1, <3>2, <3>3, <3>4, NoTableFacts
    <3>5. CASE t # Own(0)
      BY <1>6, <3>3, <3>5, NoTableFacts
    <3> QED BY <3>4, <3>5
  <2> QED BY <2>1 DEF EntriesOK
<1>9. /\ \A p \in Slots : table[New(p)] = NoTable
      /\ \A p \in Slots : p # 0 => table[Own(p)] = NoTable
      /\ \A t \in Tables : \A a \in UserVPs : ~Mapped(table[t], a)
  <2>1. \A p \in Slots : New(p) # Own(0) /\ (p # 0 => Own(p) # Own(0)) /\ Own(p) \in Tables /\ New(p) \in Tables
    BY <1>2, TableNames
  <2>2. \A t \in Tables : \A a \in UserVPs : ~Mapped(table[t], a)
    BY <1>5, <1>6, NoTableFacts, VirtualPagesAre DEF Mapped
  <2> QED BY <1>6, <2>1, <2>2
<1>10. SlotsOK
  <2>1. \A p \in Slots : np[p] = NoSlot
    BY <1>1
  <2>2. \A p \in Slots : /\ state[p] = IF p = 0 THEN "RUNNABLE" ELSE "UNUSED"
                         /\ sz[p] = 0 /\ trapframe[p] = IF p = 0 THEN 1 ELSE NoPage
    BY <1>1
  <2> QED BY <1>9, <2>1, <2>2 DEF SlotsOK, NoPage
<1>11. CallsOK /\ ExtentsOK
  <2>1. ASSUME NEW p \in Slots
        PROVE  /\ CallOK(p, job[p].kind)
               /\ ExtentOK(p, job[p].kind, job[p].va, PagesIn(job[p].sz), PagesIn(job[p].new))
    <3>1. /\ np[p] = NoSlot /\ mem[p] = NoPage /\ argv[p] = {} /\ table[New(p)] = NoTable
          /\ state[p] = IF p = 0 THEN "RUNNABLE" ELSE "UNUSED"
          /\ pc[p] = IF p = 0 THEN "root" ELSE "user"
          /\ job[p] = IF p = 0 THEN CreateJob(0) ELSE NoJob
      BY <1>1, <1>9
    <3>2. job[p].kind = IF p = 0 THEN "create" ELSE "none"
      BY <3>1, JobsAre
    <3>3. p = 0 => job[p].on = New(p) /\ job[p].va = TRAMPOLINE
      BY <3>1, JobsAre
    <3>4. CallOK(p, job[p].kind)
      BY <3>1, <3>2, <3>3, NoTableFacts DEF CallOK, Loops
    <3>5. Below(table[Own(p)], PagesIn(sz[p]))
      BY <1>9, TableNames DEF Below
    <3>6. ExtentOK(p, job[p].kind, job[p].va, PagesIn(job[p].sz), PagesIn(job[p].new))
      BY <3>2, <3>5 DEF ExtentOK, Loops
    <3> QED BY <3>4, <3>6
  <2> QED BY <2>1 DEF CallsOK, ExtentsOK
<1>12. PagesAreOwned
  <2>1. PICK own \in [Real -> Tags] : \A r \in Real : own[r] = FirstOwner(r)
    <3>1. \A r \in Real : FirstOwner(r) \in Tags
      <4>1. ASSUME NEW r \in Real, r <= 2 + L, r # 1, r # 2
            PROVE  Path[TRAMPOLINE][r - 2] \in Nodes
        <5>1. r - 2 \in Nat /\ 1 <= r - 2 /\ r - 2 <= L
          BY <1>3, <4>1
        <5> QED BY <5>1, FirstNodes DEF L
      <4> QED BY <1>2, <1>6, <4>1, TagFacts DEF FirstOwner, L
    <3>2. [r \in Real |-> FirstOwner(r)] \in [Real -> Tags]
      BY <3>1
    <3> QED BY <3>2
  <2>2. \A r \in Real : r \in free <=> r > 2 + L
    BY <1>1, <1>2, <1>3 DEF Real
  <2>3. ASSUME NEW r \in Real
        PROVE  /\ own[r] = ListTag <=> r > 2 + L
               /\ \A p \in Slots : /\ own[r] = FrameTag(p) <=> r = 1 /\ p = 0
                                   /\ own[r] # HandTag(p) /\ own[r] # ArgvTag(p)
               /\ \A t \in Tables :
                     /\ own[r] = RootTag(t) <=> r = 2 /\ t = Own(0)
                     /\ \A a \in UserVPs : own[r] # UserTag(t, a)
                     /\ \A n \in Nodes :
                           own[r] = NodeTag(t, n) <=>
                              /\ t = Own(0) /\ 2 < r /\ r <= 2 + L
                              /\ Path[TRAMPOLINE][r - 2] = n
    <3>1. CASE r = 1
      <4>1. own[r] = FrameTag(0)
        BY <2>1, <3>1 DEF FirstOwner
      <4> QED BY <1>2, <1>3, <3>1, <4>1, TagFacts
    <3>2. CASE r = 2
      <4>1. own[r] = RootTag(Own(0))
        BY <2>1, <3>2 DEF FirstOwner
      <4> QED BY <1>3, <1>6, <3>2, <4>1, TagFacts
    <3>3. CASE 2 < r /\ r <= 2 + L
      <4>1. own[r] = NodeTag(Own(0), Path[TRAMPOLINE][r - 2])
        BY <1>3, <2>1, <3>3 DEF FirstOwner, L
      <4>2. PICK n \in Nodes : n = Path[TRAMPOLINE][r - 2]
        <5>1. r - 2 \in Nat /\ 1 <= r - 2 /\ r - 2 <= L
          BY <1>3, <3>3
        <5> QED BY <5>1, FirstNodes DEF L
      <4>3. own[r] = NodeTag(Own(0), n)
        BY <4>1, <4>2
      <4>4. r # 1 /\ r # 2 /\ ~(r > 2 + L)
        BY <1>3, <3>3
      <4> QED BY <1>6, <3>3, <4>2, <4>3, <4>4, TagFacts
    <3>4. CASE r > 2 + L
      <4>1. own[r] = ListTag
        BY <1>3, <2>1, <3>4 DEF FirstOwner, L
      <4>2. r # 1 /\ r # 2 /\ ~(r <= 2 + L)
        BY <1>3, <3>4
      <4> QED BY <3>4, <4>1, <4>2, TagFacts
    <3> QED BY <1>3, <3>1, <3>2, <3>3, <3>4
  <2>4. SlotPages(own)
    <3>1. \A p \in Slots : /\ trapframe[p] = IF p = 0 THEN 1 ELSE NoPage
                           /\ mem[p] = NoPage /\ argv[p] = {}
      BY <1>1
    <3> QED BY <1>3, <2>3, <3>1 DEF SlotPages
  <2>5. ASSUME NEW t \in Tables PROVE PagesOfTable(own, t, table[t])
    <3>1. CASE t # Own(0)
      BY <1>3, <1>6, <2>3, <3>1, NoTableFacts, VirtualPagesAre DEF PagesOfTable
    <3>2. CASE t = Own(0)
      <4>1. ASSUME NEW n \in Nodes
            PROVE  /\ FirstNode[n] \in Real \cup {NoPage}
                   /\ \A r \in Real : FirstNode[n] = r <=> own[r] = NodeTag(Own(0), n)
        <5>1. ASSUME FirstNode[n] = NoPage, \A i \in DOMAIN Path[TRAMPOLINE] : Path[TRAMPOLINE][i] # n,
                     NEW r \in Real
              PROVE  own[r] # NodeTag(Own(0), n)
          <6>1. ASSUME 2 < r, r <= 2 + L PROVE r - 2 \in DOMAIN Path[TRAMPOLINE]
            <7>1. Path[TRAMPOLINE] \in Seq(Nodes)
              BY VirtualPagesAre, PathFacts
            <7> QED BY <1>3, <6>1, <7>1 DEF L
          <6> QED BY <1>6, <2>3, <5>1, <6>1
        <5>2. ASSUME NEW i \in Nat, 1 <= i, i <= L, FirstNode[n] = 2 + i, Path[TRAMPOLINE][i] = n,
                     \A k \in Nat : 1 <= k /\ k <= L /\ Path[TRAMPOLINE][k] = n => k = i,
                     NEW r \in Real
              PROVE  2 + i = r <=> own[r] = NodeTag(Own(0), n)
          <6>1. own[r] = NodeTag(Own(0), n) <=> 2 < r /\ r <= 2 + L /\ Path[TRAMPOLINE][r - 2] = n
            BY <1>6, <2>3
          <6>2. 2 < r /\ r <= 2 + L => r - 2 \in Nat /\ 1 <= r - 2 /\ r - 2 <= L
            BY <1>3
          <6>3. 2 + i = r => r - 2 = i /\ 2 < r /\ r <= 2 + L
            BY <1>3, <5>2
          <6>4. r - 2 = i => 2 + i = r
            BY <1>3, <5>2
          <6> QED BY <5>2, <6>1, <6>2, <6>3, <6>4
        <5>3. CASE FirstNode[n] = NoPage /\ \A i \in DOMAIN Path[TRAMPOLINE] : Path[TRAMPOLINE][i] # n
          BY <1>3, <5>1, <5>3
        <5>4. ASSUME NEW i \in Nat, 1 <= i, i <= L, FirstNode[n] = 2 + i, Path[TRAMPOLINE][i] = n,
                     \A k \in Nat : 1 <= k /\ k <= L /\ Path[TRAMPOLINE][k] = n => k = i
              PROVE  /\ FirstNode[n] \in Real
                     /\ \A r \in Real : FirstNode[n] = r <=> own[r] = NodeTag(Own(0), n)
          BY <1>3, <5>2, <5>4
        <5> QED BY <5>3, <5>4, FirstNodes DEF L
      <4>2. \A r \in Real : 2 = r <=> own[r] = RootTag(Own(0))
        BY <1>6, <2>3
      <4>3. \A a \in UserVPs : U.pte[a].page = NoPage
        BY <1>5, NoTableFacts
      <4> QED BY <1>3, <1>5, <1>6, <2>3, <3>2, <4>1, <4>2, <4>3 DEF PagesOfTable
    <3> QED BY <3>1, <3>2
  <2>6. Accounts(own)
    BY <2>2, <2>3, <2>4, <2>5 DEF Accounts
  <2> QED BY <2>6 DEF PagesAreOwned
<1> QED BY <1>7, <1>8, <1>10, <1>11, <1>12 DEF IInv

LEMMA NextIInv ==
    ASSUME IInv, Next
    PROVE  IInv'
<1>1. PICK p \in Slots : Step(p)
  BY DEF Next
<1>2. /\ load.stores = load.stores
      /\ \A a \in 0..(UserPages - 1) : a \in UserVPs
  BY DEF UserVPs
<1>3. CASE GetPage(p) \/ MapNode(p) \/ MapLeaf(p)
  BY <1>3, GetPageStep, MapNodeStep, MapLeafStep
<1>4. CASE \E a \in 0..(UserPages - 1) : Fault(p, a) \/ \E v \in load.stores : Write(p, a, v)
  BY <1>2, <1>4, FaultStep, WriteStep
<1>5. CASE FaultDone(p) \/ FaultFails(p) \/ GrowDone(p) \/ GrowFails(p)
  BY <1>5, FaultDoneStep, FaultFailsStep, GrowDoneStep, GrowFailsStep
<1>6. CASE \E n \in load.grow : Grow(p, n) \/ SbrkLazy(p, n)
  BY <1>6, GrowStep, SbrkLazyStep
<1>7. CASE \E n \in load.shrink : Shrink(p, n)
  BY <1>7, ShrinkStep
<1>8. CASE CreateRoot(p)
  BY <1>8, CreateRootStep
<1>9. CASE \E q \in Slots : Fork(p, q) \/ Wait(p, q)
  BY <1>9, ForkStep, WaitStep
<1>10. CASE ForkCreated(p) \/ ForkCreateFails(p) \/ ForkCopyFails(p) \/ ForkDone(p)
  BY <1>10, ForkCreatedStep, ForkCreateFailsStep, ForkCopyFailsStep, ForkDoneStep
<1>11. CASE Exec(p) \/ ExecArg(p) \/ ExecRefused(p) \/ ExecCreated(p) \/ ExecLoaded(p)
  BY <1>11, ExecStep, ExecArgStep, ExecRefusedStep, ExecCreatedStep, ExecLoadedStep
<1>12. CASE ExecFails(p) \/ ExecBad(p) \/ ExecCommit(p) \/ Exit(p)
  BY <1>12, ExecFailsStep, ExecBadStep, ExecCommitStep, ExitStep
<1> QED
  BY <1>1, <1>3, <1>4, <1>5, <1>6, <1>7, <1>8, <1>9, <1>10, <1>11, <1>12 DEF Step

LEMMA StutterIInv ==
    ASSUME IInv, UNCHANGED vars
    PROVE  IInv'
<1>1. UNCHANGED <<load, free, data, state, sz, trapframe, table, pc, job, np, mem, argv, panic>>
  BY DEF vars, kmem, procs, calls
<1>2. FullTypeOK' /\ EntriesOK' /\ SlotsOK'
  BY <1>1 DEF IInv, FullTypeOK, EntriesOK, SlotsOK, Real
<1>3. CallsOK'
  BY <1>1 DEF IInv, CallsOK, CallOK
<1>4. ExtentsOK'
  BY <1>1 DEF IInv, ExtentsOK, ExtentOK, Below, Mapped, PagesIn
<1>5. PagesAreOwned'
  <2>1. Real' = Real
    BY <1>1 DEF Real
  <2> QED BY <1>1, <2>1, OwnedStays
<1> QED BY <1>2, <1>3, <1>4, <1>5 DEF IInv

\* The entries for a page are the one owner that own gives it.
LEMMA OneOwner ==
    ASSUME NEW own \in [Real -> Tags], Accounts(own), FullTypeOK, NEW pg \in Real
    PROVE  Owners(pg) = IF pg \in free THEN {} ELSE {own[pg]}
<1>1. /\ own[pg] \in Tags /\ pg \in free <=> own[pg] = ListTag
      /\ DOMAIN table = Tables
  BY DEF Accounts, FullTypeOK
<1>2. \A p \in Slots : /\ trapframe[p] = pg <=> own[pg] = FrameTag(p)
                       /\ mem[p] = pg <=> own[pg] = HandTag(p)
                       /\ pg \in argv[p] <=> own[pg] = ArgvTag(p)
  BY DEF Accounts, SlotPages
<1>3. \A t \in Tables :
         /\ table[t].root = pg <=> own[pg] = RootTag(t)
         /\ \A n \in Nodes : table[t].node[n] = pg <=> own[pg] = NodeTag(t, n)
         /\ \A a \in UserVPs : table[t].pte[a].page = pg <=> own[pg] = UserTag(t, a)
  BY DEF Accounts, PagesOfTable
<1>4. \A o : o \in Owners(pg) <=>
         \/ \E p \in Slots : \/ o = FrameTag(p) /\ trapframe[p] = pg
                             \/ o = HandTag(p) /\ mem[p] = pg
                             \/ o = ArgvTag(p) /\ pg \in argv[p]
         \/ \E t \in Tables :
               \/ o = RootTag(t) /\ table[t].root = pg
               \/ \E n \in Nodes : o = NodeTag(t, n) /\ table[t].node[n] = pg
               \/ \E a \in UserVPs : o = UserTag(t, a) /\ table[t].pte[a].page = pg
  <2> DEFINE F == {<<"trapframe", p, 0>> : p \in {q \in Slots : trapframe[q] = pg}}
             R == {<<"root", t, 0>> : t \in {u \in DOMAIN table : table[u].root = pg}}
             N == {<<"node", e[1], e[2]>> :
                     e \in {f \in (DOMAIN table) \X Nodes : table[f[1]].node[f[2]] = pg}}
             U == {<<"user", e[1], e[2]>> :
                     e \in {f \in (DOMAIN table) \X (0..(UserPages - 1)) :
                              table[f[1]].pte[f[2]].page = pg}}
             H == {<<"hand", p, 0>> : p \in {q \in Slots : mem[q] = pg}}
             A == {<<"argv", p, 0>> : p \in {q \in Slots : pg \in argv[q]}}
  <2>1. Owners(pg) = F \cup R \cup N \cup U \cup H \cup A
    BY DEF Owners
  <2>2. \A o : o \in F <=> \E p \in Slots : o = FrameTag(p) /\ trapframe[p] = pg
    BY DEF FrameTag
  <2>3. \A o : o \in H <=> \E p \in Slots : o = HandTag(p) /\ mem[p] = pg
    BY DEF HandTag
  <2>4. \A o : o \in A <=> \E p \in Slots : o = ArgvTag(p) /\ pg \in argv[p]
    BY DEF ArgvTag
  <2>5. \A o : o \in R <=> \E t \in Tables : o = RootTag(t) /\ table[t].root = pg
    BY <1>1 DEF RootTag
  <2>6. \A o : o \in N <=> \E t \in Tables : \E n \in Nodes :
                              o = NodeTag(t, n) /\ table[t].node[n] = pg
    <3>1. ASSUME NEW o \in N
          PROVE  \E t \in Tables : \E n \in Nodes : o = NodeTag(t, n) /\ table[t].node[n] = pg
      <4>1. PICK e \in Tables \X Nodes : /\ o = NodeTag(e[1], e[2])
                                          /\ table[e[1]].node[e[2]] = pg
        BY <1>1 DEF NodeTag
      <4> QED BY <4>1
    <3>2. ASSUME NEW t \in Tables, NEW n \in Nodes, table[t].node[n] = pg
          PROVE  NodeTag(t, n) \in N
      <4>1. <<t, n>> \in (DOMAIN table) \X Nodes /\ <<t, n>>[1] = t /\ <<t, n>>[2] = n
        BY <1>1
      <4> QED BY <3>2, <4>1 DEF NodeTag
    <3> QED BY <3>1, <3>2
  <2>7. \A o : o \in U <=> \E t \in Tables : \E a \in UserVPs :
                              o = UserTag(t, a) /\ table[t].pte[a].page = pg
    <3>1. ASSUME NEW o \in U
          PROVE  \E t \in Tables : \E a \in UserVPs : o = UserTag(t, a) /\ table[t].pte[a].page = pg
      <4>1. PICK e \in Tables \X UserVPs : /\ o = UserTag(e[1], e[2])
                                          /\ table[e[1]].pte[e[2]].page = pg
        BY <1>1 DEF UserTag, UserVPs
      <4> QED BY <4>1
    <3>2. ASSUME NEW t \in Tables, NEW a \in UserVPs, table[t].pte[a].page = pg
          PROVE  UserTag(t, a) \in U
      <4>1. <<t, a>> \in (DOMAIN table) \X UserVPs /\ <<t, a>>[1] = t /\ <<t, a>>[2] = a
        BY <1>1
      <4> QED BY <3>2, <4>1 DEF UserTag, UserVPs
    <3> QED BY <3>1, <3>2
  <2> HIDE DEF F, R, N, U, H, A
  <2> QED BY <2>1, <2>2, <2>3, <2>4, <2>5, <2>6, <2>7
<1>5. \A o : o \in Owners(pg) => o = own[pg]
  BY <1>2, <1>3, <1>4
<1>6. CASE own[pg] = ListTag
  <2>1. \A o : o \notin Owners(pg)
    BY <1>6, <1>2, <1>3, <1>4, TagFacts
  <2> QED BY <1>1, <1>6, <2>1
<1>7. CASE own[pg] # ListTag
  <2>1. own[pg] \in Owners(pg)
    BY <1>1, <1>7, <1>2, <1>3, <1>4, TagKinds
  <2> QED BY <1>1, <1>5, <1>7, <2>1
<1> QED BY <1>6, <1>7

LEMMA IInvMemoryConsistent ==
    ASSUME IInv
    PROVE  MemoryConsistent
<1>1. FullTypeOK /\ SlotsOK
  BY DEF IInv
<1>2. TypeOK
  <2>1. Real \subseteq Pages
    BY <1>1, LoadFacts
  <2>2. \A t \in Tables : table[t] \in PageTable
    BY <1>1 DEF FullTypeOK
  <2>3. \A t \in DOMAIN table :
          /\ table[t].root \in Pages \cup {NoPage}
          /\ table[t].node \in [Nodes -> Pages \cup {NoPage}]
          /\ \A a \in VirtualPages : table[t].pte[a].page \in Pages \cup {NoPage, Kernel}
    BY <1>1, <2>2 DEF FullTypeOK, PageTable, PTE
  <2> QED BY <1>1, <2>1, <2>3 DEF TypeOK, FullTypeOK, Tables
<1>3. ~panic
  BY <1>1 DEF FullTypeOK
<1>4. ASSUME NEW pg \in 1..load.pages
      PROVE  Cardinality(Owners(pg)) = IF pg \in free THEN 0 ELSE 1
  <2>1. PICK own \in [Real -> Tags] : Accounts(own)
    BY DEF IInv, PagesAreOwned
  <2>2. Owners(pg) = IF pg \in free THEN {} ELSE {own[pg]}
    BY <1>1, <2>1, OneOwner DEF Real
  <2> QED BY <2>2, FS_EmptySet, FS_Singleton
<1>5. \A p \in Slots : state[p] = "UNUSED" => table[<<p, "own">>] = NoTable /\ sz[p] = 0
  BY <1>1 DEF SlotsOK, Own
<1> QED BY <1>2, <1>3, <1>4, <1>5 DEF MemoryConsistent

\* No page is lost, freed twice or in two places, whatever kalloc refuses on the way and
\* however the calls of the processes interleave; a slot that is not used has no memory;
\* and neither mappages, loadseg nor freewalk panics.
THEOREM MemoryIsConsistent == Spec => []MemoryConsistent
<1>1. Init => IInv
  BY InitIInv
<1>2. IInv /\ [Next]_vars => IInv'
  BY NextIInv, StutterIInv
<1>3. IInv => MemoryConsistent
  BY IInvMemoryConsistent
<1> QED BY <1>1, <1>2, <1>3, PTL DEF Spec
=============================================================================
