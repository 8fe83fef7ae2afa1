---------------------------- MODULE InodesProofs ----------------------------
(***************************************************************************)
(* Proofs about Inodes, for any number of processes, in-memory inodes,     *)
(* inodes and names, and any workload without "..": the table of inodes    *)
(* agrees with the disk, names with links, and no assertion fails.         *)
(***************************************************************************)
EXTENDS Inodes, FiniteSetTheorems, WellFoundedInduction, TLAPS

\* No path of a call has the name "..".
Avoids(names) == \A k \in DOMAIN names : names[k] # DotDot
NoDotDot ==
    \A w \in Workloads : \A p \in Procs : \A c \in w.calls[p] : Avoids(c.path) /\ Avoids(c.new)

\* The steps at which a process points to an inode with ip and with dp, and those at which
\* it has dp or ip locked.
WithIp == {"open", "chdir", "exists", "fill", "filled", "erase", "drop", "link", "walknew",
           "linknew", "linkundo", "unlinkold"}
WithDp == {"walk", "walknew", "create", "mkdir", "unlink", "linknew", "ialloc", "iget", "fill",
           "undo", "erase", "linkundo"}
DpLocked == {"ialloc", "iget", "fill", "undo", "erase", "linkundo"}
IpLocked == {"filled", "drop"}
Named == {"create", "mkdir", "unlink", "linknew", "ialloc", "iget", "fill", "erase"}

Steps == {"user"} \cup WithIp \cup WithDp
NoCall == [op |-> "none"]
Dinodes == [type : Types, nlink : Nat, entries : [Names -> Inums \cup {NoInum}]]
Table == [Slots -> [ref : Nat, inum : Inums \cup {NoInum}, valid : BOOLEAN,
                    type : Types, nlink : Nat]]
Loads == [calls : [Procs -> SUBSET Calls], left : [Procs -> Nat], crashes : Nat, full : Nat]

Typed ==
    /\ dinode \in [Inums -> Dinodes] /\ inode \in Table
    /\ lock \in [Slots -> Procs \cup {Nobody}]
    /\ cwd \in [Procs -> Slots] /\ file \in [Procs -> Slots \cup {NoSlot}]
    /\ pc \in [Procs -> Steps] /\ call \in [Procs -> Calls \cup {NoCall}]
    /\ ip \in [Procs -> Slots \cup {NoSlot}] /\ dp \in [Procs -> Slots \cup {NoSlot}]
    /\ path \in [Procs -> Seq(Names)] /\ puts \in [Procs -> Seq(Slots)]
    /\ freeing \in [Procs -> {"no", "trunc", "unlock", "drop"}]
    /\ load \in Loads
    /\ \A p \in Procs : \A c \in load.calls[p] : Avoids(c.path) /\ Avoids(c.new)

\* The process has a pointer to the inode: the inode that it has freed is not counted.
Has(p, s) ==
    \/ cwd[p] = s \/ file[p] = s \/ ip[p] = s \/ dp[p] = s
    \/ Len(puts[p]) >= 1 /\ puts[p][1] = s /\ freeing[p] \notin {"unlock", "drop"}
    \/ Len(puts[p]) >= 2 /\ puts[p][2] = s

\* Where a process is in its call, and what it has in hand.
CallAt(p) ==
    /\ ip[p] # NoSlot <=> pc[p] \in WithIp
    /\ dp[p] # NoSlot <=> pc[p] \in WithDp
    /\ pc[p] # "user" => call[p] \in Calls /\ call[p].op # "close" /\ Avoids(call[p].new)
    /\ pc[p] \in {"walk", "walknew"} => Avoids(path[p])
    /\ pc[p] \in {"create", "mkdir", "unlink"} => call[p].op = pc[p]
    /\ pc[p] \in {"ialloc", "iget", "fill"} => call[p].op \in {"create", "mkdir"}
    /\ pc[p] = "iget" => call[p].inum \in Inums
    /\ pc[p] \in Named => Len(path[p]) = 1
    /\ pc[p] \in Named \ {"unlink"} => Name(p) # DotDot
    /\ pc[p] \in {"ialloc", "iget", "fill", "erase"} => puts[p] = <<>>
    /\ Len(puts[p]) <= 2
    /\ Len(puts[p]) = 2 => pc[p] = "user"
    /\ freeing[p] # "no" => puts[p] # <<>>
    /\ freeing[p] \in {"unlock", "drop"} => ~Has(p, puts[p][1])

CallsOK == \A p \in Procs : CallAt(p)

Counted == \A s \in Slots : inode[s].ref = References(s)

Held(s) == inode[s].ref > 0
Once ==
    /\ \A s \in Slots : Held(s) => inode[s].inum \in Inums
    /\ \A s, t \in Slots : Held(s) /\ Held(t) /\ inode[s].inum = inode[t].inum => s = t

\* Where the locks are.
Locks(p, s) ==
    \/ pc[p] \in DpLocked /\ dp[p] = s
    \/ pc[p] \in IpLocked /\ ip[p] = s
    \/ freeing[p] \in {"trunc", "unlock"} /\ puts[p][1] = s
LocksOK ==
    /\ \A p \in Procs, s \in Slots : lock[s] = p <=> Locks(p, s)
    /\ \A p \in Procs : pc[p] \in {"fill", "erase"} => ip[p] # dp[p]

\* A valid inode is what the disk has, unless a process that frees it is about to say that
\* it is not valid.
Leaves(p, s) == freeing[p] = "unlock" /\ puts[p][1] = s
Agrees ==
    \A s \in Slots :
        Held(s) /\ inode[s].valid /\ (\A p \in Procs : ~Leaves(p, s)) =>
            /\ inode[s].type = Disk(s).type /\ inode[s].nlink = Disk(s).nlink
            /\ inode[s].type # "FREE"

\* What processes have is allocated.
Live == \A p \in Procs, s \in Slots : Has(p, s) => Disk(s).type # "FREE"

\* What create has allocated and not yet given a name: nobody else has it.
Filling(p) == pc[p] \in {"iget", "fill"}
Fresh(p) == IF pc[p] = "iget" THEN call[p].inum ELSE inode[ip[p]].inum
Reserves(p) ==
    Filling(p) =>
        /\ Fresh(p) \in Inums
        /\ dinode[Fresh(p)] = [FreeInode EXCEPT !.type = NewType(p)]
        /\ \A q \in Procs, s \in Slots : Has(q, s) /\ inode[s].inum = Fresh(p) =>
              pc[p] = "fill" /\ q = p /\ s = ip[p]
        /\ \A q \in Procs : Filling(q) /\ Fresh(q) = Fresh(p) => q = p

\* What a process knows of the inodes that it has locked or is freeing, of the kinds of
\* the inodes it points to, and of the name that it erases.
KnowsValid(p) ==
    /\ pc[p] \in DpLocked => inode[dp[p]].valid
    /\ pc[p] \in IpLocked => inode[ip[p]].valid
    /\ freeing[p] \in {"trunc", "unlock"} =>
          inode[puts[p][1]].valid /\ inode[puts[p][1]].nlink = 0
    /\ freeing[p] = "trunc" => inode[puts[p][1]].ref = 1
KnowsKinds(p) ==
    /\ pc[p] \in WithDp \ {"walk", "walknew"} => Disk(dp[p]).type = "DIR"
    /\ pc[p] \in Linking => Disk(ip[p]).type = "FILE"
KnowsEntry(p) == pc[p] = "erase" => Entry(p) = inode[ip[p]].inum
Knows(p) == KnowsValid(p) /\ KnowsKinds(p) /\ KnowsEntry(p) /\ Reserves(p)
Known == \A p \in Procs : Knows(p)

\* The directories are a tree, and an inode has a link for each of its names, of the ".." of
\* its subdirectories, and of those that link and unlink have in hand.
OneName(i) ==
    dinode[i].type = "DIR" =>
        /\ \A e \in NamesOf(i) : dinode[i].entries[DotDot] = e[1] /\ e[1] # i
        /\ \A e, f \in NamesOf(i) : e = f
DiskOK ==
    /\ \A i \in Inums : dinode[i].type = "FREE" => dinode[i] = FreeInode
    /\ \A i \in Inums : OneName(i)
    /\ NamesOf(Root) = {} /\ dinode[Root].type = "DIR"
    /\ \A i \in Inums : Links(i) <= dinode[i].nlink

IInv == Typed /\ CallsOK /\ Counted /\ Once /\ LocksOK /\ Agrees /\ Live /\ Known /\ DiskOK

-----------------------------------------------------------------------------
(* Numbers, sets, and the references to an inode.                          *)

LEMMA ConstantFacts ==
    /\ NoSlot \notin Slots /\ Slots \subseteq Nat \ {0} /\ 1 \in Slots
    /\ NoInum \notin Inums /\ Root \in Inums /\ DotDot \in Names
    /\ Nobody \notin Procs
    /\ IsFiniteSet(Procs) /\ IsFiniteSet(Inums) /\ IsFiniteSet(Names) /\ IsFiniteSet(Slots)
<1>1. IsFiniteSet(1..NINODE)
  BY FS_Interval, InodesAssumption
<1> QED BY <1>1, InodesAssumption DEF Slots, NoSlot, NoInum

LEMMA LeastNumber ==
    ASSUME NEW S \in SUBSET Nat, S # {}
    PROVE  Least(S) \in S /\ \A t \in S : Least(S) <= t
<1>1. PICK x \in S : \A y \in S : ~ (<<y, x>> \in OpToRel(<, Nat))
  BY NatLessThanWellFounded, WFMin
<1>2. ASSUME NEW y \in S
      PROVE  x <= y
  <2>1. x \in Nat /\ y \in Nat
    OBVIOUS
  <2>2. ~ (<<y, x>> \in {r \in Nat \X Nat : r[1] < r[2]})
    BY <1>1 DEF OpToRel
  <2>3. QED
    BY <2>1, <2>2
<1> QED BY <1>2 DEF Least

\* Whether the process is in the set, as a number.
In(p, A) == IF p \in A THEN 1 ELSE 0
Is(x, s) == IF x = s THEN 1 ELSE 0

LEMMA Toggle ==
    ASSUME NEW S, IsFiniteSet(S), NEW A \in SUBSET S, NEW B \in SUBSET S, NEW p,
           A \ {p} = B \ {p}
    PROVE  /\ Cardinality(A) \in Nat /\ Cardinality(B) \in Nat
           /\ Cardinality(B) + In(p, A) = Cardinality(A) + In(p, B)
<1>1. IsFiniteSet(A) /\ IsFiniteSet(B)
  BY FS_Subset
<1>2. Cardinality(A) \in Nat /\ Cardinality(B) \in Nat
  BY <1>1, FS_CardinalityType
<1>3. ASSUME p \in A, p \notin B PROVE Cardinality(A) = Cardinality(B) + 1
  <2>1. A = B \cup {p}
    BY <1>3
  <2> QED BY <1>1, <1>3, <2>1, FS_AddElement
<1>4. ASSUME p \notin A, p \in B PROVE Cardinality(B) = Cardinality(A) + 1
  <2>1. B = A \cup {p}
    BY <1>4
  <2> QED BY <1>1, <1>4, <2>1, FS_AddElement
<1>5. ASSUME p \in A <=> p \in B PROVE A = B
  BY <1>5
<1> QED BY <1>2, <1>3, <1>4, <1>5 DEF In

LEMMA TwoMembers ==
    ASSUME NEW S, IsFiniteSet(S), NEW A \in SUBSET S, NEW p, NEW q
    PROVE  /\ Cardinality(A) >= In(p, A)
           /\ p # q => Cardinality(A) >= In(p, A) + In(q, A)
           /\ Cardinality(A) \in Nat
           /\ Cardinality(A) > 0 => A # {}
<1> DEFINE B == A \ {p}
           C == B \ {q}
<1>1. A \in SUBSET S /\ B \in SUBSET S /\ A \ {p} = B \ {p}
  OBVIOUS
<1>2. Cardinality(A) \in Nat /\ Cardinality(B) + In(p, A) = Cardinality(A) + In(p, B)
      /\ Cardinality(B) \in Nat
  BY <1>1, Toggle
<1>3. C \in SUBSET S /\ B \ {q} = C \ {q}
  OBVIOUS
<1>4. Cardinality(C) \in Nat /\ Cardinality(C) + In(q, B) = Cardinality(B) + In(q, C)
  BY <1>1, <1>3, Toggle
<1>5. In(p, B) = 0 /\ In(q, C) = 0 /\ (p # q => In(q, B) = In(q, A))
  BY DEF In
<1>6. A = {} => Cardinality(A) = 0
  BY FS_EmptySet
<1>7. In(p, A) \in {0, 1} /\ In(q, A) \in {0, 1} /\ In(q, B) \in {0, 1}
  BY DEF In
<1> HIDE DEF B, C
<1> QED BY <1>2, <1>4, <1>5, <1>6, <1>7

\* The references to s, and those of one process, from the pointers of the processes.
Firsts(u) == [p \in Procs |-> IF Len(u[p]) >= 1 THEN u[p][1] ELSE NoSlot]
Seconds(u) == [p \in Procs |-> IF Len(u[p]) >= 2 THEN u[p][2] ELSE NoSlot]
Where(f, s) == {p \in Procs : f[p] = s}
InPuts(u, s) == {r \in Procs \X (1..2) : r[2] \in DOMAIN u[r[1]] /\ u[r[1]][r[2]] = s}
Sum(c, f, i, d, u, s) ==
    Cardinality(Where(c, s)) + Cardinality(Where(f, s)) + Cardinality(Where(i, s))
    + Cardinality(Where(d, s)) + Cardinality(InPuts(u, s))
Share(c, f, i, d, u, p, s) ==
    Is(c[p], s) + Is(f[p], s) + Is(i[p], s) + Is(d[p], s)
    + (Is(Firsts(u)[p], s) + Is(Seconds(u)[p], s))
Own(p, s) == Share(cwd, file, ip, dp, puts, p, s)

LEMMA InPutsAre ==
    ASSUME NEW u \in [Procs -> Seq(Slots)], NEW s \in Slots
    PROVE  Cardinality(InPuts(u, s)) = Cardinality(Where(Firsts(u), s)) + Cardinality(Where(Seconds(u), s))
<1> DEFINE F == Where(Firsts(u), s)
           G == Where(Seconds(u), s)
           A == F \X {1}
           B == G \X {2}
<1>1. IsFiniteSet(F) /\ IsFiniteSet(G)
  BY ConstantFacts, FS_Subset DEF Where
<1>2. IsFiniteSet({1}) /\ Cardinality({1}) = 1 /\ IsFiniteSet({2}) /\ Cardinality({2}) = 1
  BY FS_Singleton
<1>3. Cardinality(F) \in Nat /\ Cardinality(G) \in Nat
  BY <1>1, FS_CardinalityType
<1>4. IsFiniteSet(A) /\ Cardinality(A) = Cardinality(F)
  <2>1. IsFiniteSet(A) /\ Cardinality(A) = Cardinality(F) * Cardinality({1})
    BY <1>1, <1>2, FS_Product
  <2> HIDE DEF A, F
  <2> QED BY <1>2, <1>3, <2>1
<1>5. IsFiniteSet(B) /\ Cardinality(B) = Cardinality(G)
  <2>1. IsFiniteSet(B) /\ Cardinality(B) = Cardinality(G) * Cardinality({2})
    BY <1>1, <1>2, FS_Product
  <2> HIDE DEF B, G
  <2> QED BY <1>2, <1>3, <2>1
<1>6. Cardinality(A \cap B) = 0
  <2>1. A \cap B = {}
    OBVIOUS
  <2> QED BY <2>1, FS_EmptySet
<1>7. Cardinality(A \cup B) = Cardinality(A) + Cardinality(B) - Cardinality(A \cap B)
  BY <1>4, <1>5, FS_Union
<1>8. InPuts(u, s) = A \cup B
  <2>1. \A p \in Procs : DOMAIN u[p] = 1..Len(u[p]) /\ Len(u[p]) \in Nat
    OBVIOUS
  <2>2. ASSUME NEW p \in Procs, NEW k \in {1, 2}
        PROVE  <<p, k>> \in InPuts(u, s) <=> <<p, k>> \in A \cup B
    <3>1. <<p, k>> \in InPuts(u, s) <=> k \in DOMAIN u[p] /\ u[p][k] = s
      BY DEF InPuts
    <3>2. k \in DOMAIN u[p] <=> Len(u[p]) >= k
      BY <2>1
    <3>3. p \in F <=> Len(u[p]) >= 1 /\ u[p][1] = s
      BY ConstantFacts DEF Firsts, Where
    <3>4. p \in G <=> Len(u[p]) >= 2 /\ u[p][2] = s
      BY ConstantFacts DEF Seconds, Where
    <3> HIDE DEF F, G
    <3> QED BY <3>1, <3>2, <3>3, <3>4
  <2>3. InPuts(u, s) \subseteq Procs \X {1, 2} /\ A \cup B \subseteq Procs \X {1, 2}
    <3>1. 1..2 = {1, 2}
      OBVIOUS
    <3> QED BY <3>1 DEF InPuts, Where
  <2>4. ASSUME NEW r \in Procs \X {1, 2} PROVE r \in InPuts(u, s) <=> r \in A \cup B
    <3>1. PICK p \in Procs, k \in {1, 2} : r = <<p, k>>
      OBVIOUS
    <3> HIDE DEF A, B
    <3> QED BY <2>2, <3>1
  <2> HIDE DEF A, B
  <2> QED BY <2>3, <2>4
<1> HIDE DEF A, B, F, G
<1>9. Cardinality(InPuts(u, s)) = Cardinality(F) + Cardinality(G)
  BY <1>3, <1>4, <1>5, <1>6, <1>7, <1>8
<1> QED BY <1>9 DEF F, G

\* A count changes from n to m as a share of it does, from x to y.
Change(n, m, x, y) ==
    n \in Nat /\ m \in Nat /\ x \in Nat /\ y \in Nat /\ m + x = n + y

LEMMA AddChange ==
    ASSUME NEW n, NEW m, NEW x, NEW y, NEW nn, NEW mm, NEW xx, NEW yy,
           Change(n, m, x, y), Change(nn, mm, xx, yy)
    PROVE  Change(n + nn, m + mm, x + xx, y + yy)
BY DEF Change

\* A count is at least the sum of two shares.
Covers(n, x, y) == n \in Nat /\ x \in Nat /\ y \in Nat /\ x + y <= n

LEMMA AddCovers ==
    ASSUME NEW n, NEW x, NEW y, NEW nn, NEW xx, NEW yy, Covers(n, x, y), Covers(nn, xx, yy)
    PROVE  Covers(n + nn, x + xx, y + yy)
BY DEF Covers

\* The pointers f and g differ at p alone.
Count(f, s) == Cardinality(Where(f, s))
Moves(f, g, p, s) == Change(Count(f, s), Count(g, s), Is(f[p], s), Is(g[p], s))

LEMMA WhereMoves ==
    ASSUME NEW f, NEW g, NEW p \in Procs, NEW s, \A q \in Procs \ {p} : g[q] = f[q]
    PROVE  Moves(f, g, p, s)
<1>1. Where(f, s) \ {p} = Where(g, s) \ {p}
  BY DEF Where
<1>2. Where(f, s) \in SUBSET Procs /\ Where(g, s) \in SUBSET Procs
  BY DEF Where
<1>3. In(p, Where(f, s)) = Is(f[p], s) /\ In(p, Where(g, s)) = Is(g[p], s)
  BY DEF Where, In, Is
<1>4. /\ Cardinality(Where(f, s)) \in Nat /\ Cardinality(Where(g, s)) \in Nat
      /\ Cardinality(Where(g, s)) + In(p, Where(f, s))
            = Cardinality(Where(f, s)) + In(p, Where(g, s))
  BY <1>1, <1>2, ConstantFacts, Toggle
<1>5. Is(f[p], s) \in Nat /\ Is(g[p], s) \in Nat
  BY DEF Is
<1> QED BY <1>3, <1>4, <1>5 DEF Moves, Change, Count

\* When one process moves its pointers, the count changes as its share does.
LEMMA SumMoves ==
    ASSUME NEW c, NEW f, NEW i, NEW d, NEW u \in [Procs -> Seq(Slots)],
           NEW cc, NEW ff, NEW ii, NEW dd, NEW uu \in [Procs -> Seq(Slots)],
           NEW p \in Procs, NEW s \in Slots,
           \A q \in Procs \ {p} :
              cc[q] = c[q] /\ ff[q] = f[q] /\ ii[q] = i[q] /\ dd[q] = d[q] /\ uu[q] = u[q]
    PROVE  Change(Sum(c, f, i, d, u, s), Sum(cc, ff, ii, dd, uu, s),
                  Share(c, f, i, d, u, p, s), Share(cc, ff, ii, dd, uu, p, s))
<1>1. ASSUME NEW x, NEW y, \A q \in Procs \ {p} : y[q] = x[q] PROVE Moves(x, y, p, s)
  BY <1>1, WhereMoves
<1>0. Moves(c, cc, p, s) /\ Moves(f, ff, p, s) /\ Moves(i, ii, p, s) /\ Moves(d, dd, p, s)
  BY <1>1
<1>2. PICK a, aa, b, bb : a = Firsts(u) /\ aa = Firsts(uu) /\ b = Seconds(u) /\ bb = Seconds(uu)
  OBVIOUS
<1>3. \A q \in Procs \ {p} : aa[q] = a[q] /\ bb[q] = b[q]
  BY <1>2 DEF Firsts, Seconds
<1>4. Moves(a, aa, p, s) /\ Moves(b, bb, p, s)
  BY <1>1, <1>3
<1>5. /\ Cardinality(InPuts(u, s)) = Count(a, s) + Count(b, s)
      /\ Cardinality(InPuts(uu, s)) = Count(aa, s) + Count(bb, s)
  BY <1>2, InPutsAre DEF Count
<1>6. Change(Count(c, s) + Count(f, s), Count(cc, s) + Count(ff, s),
             Is(c[p], s) + Is(f[p], s), Is(cc[p], s) + Is(ff[p], s))
  BY <1>0, AddChange DEF Moves
<1>7. Change(Count(c, s) + Count(f, s) + Count(i, s), Count(cc, s) + Count(ff, s) + Count(ii, s),
             Is(c[p], s) + Is(f[p], s) + Is(i[p], s), Is(cc[p], s) + Is(ff[p], s) + Is(ii[p], s))
  BY <1>0, <1>6, AddChange DEF Moves
<1>8. Change(Count(c, s) + Count(f, s) + Count(i, s) + Count(d, s),
             Count(cc, s) + Count(ff, s) + Count(ii, s) + Count(dd, s),
             Is(c[p], s) + Is(f[p], s) + Is(i[p], s) + Is(d[p], s),
             Is(cc[p], s) + Is(ff[p], s) + Is(ii[p], s) + Is(dd[p], s))
  BY <1>0, <1>7, AddChange DEF Moves
<1>9. Change(Count(a, s) + Count(b, s), Count(aa, s) + Count(bb, s),
             Is(a[p], s) + Is(b[p], s), Is(aa[p], s) + Is(bb[p], s))
  BY <1>4, AddChange DEF Moves
<1>10. Change(Count(c, s) + Count(f, s) + Count(i, s) + Count(d, s) + (Count(a, s) + Count(b, s)),
              Count(cc, s) + Count(ff, s) + Count(ii, s) + Count(dd, s) + (Count(aa, s) + Count(bb, s)),
              Is(c[p], s) + Is(f[p], s) + Is(i[p], s) + Is(d[p], s) + (Is(a[p], s) + Is(b[p], s)),
              Is(cc[p], s) + Is(ff[p], s) + Is(ii[p], s) + Is(dd[p], s) + (Is(aa[p], s) + Is(bb[p], s)))
  BY <1>8, <1>9, AddChange
<1> QED BY <1>2, <1>5, <1>10 DEF Sum, Share, Count

\* Two processes have two shares; somebody has what is counted.
LEMMA SumCovers ==
    ASSUME NEW c, NEW f, NEW i, NEW d, NEW u \in [Procs -> Seq(Slots)], NEW s \in Slots
    PROVE  /\ \A p, q \in Procs : p # q =>
                 Covers(Sum(c, f, i, d, u, s), Share(c, f, i, d, u, p, s), Share(c, f, i, d, u, q, s))
           /\ \A p \in Procs : Covers(Sum(c, f, i, d, u, s), Share(c, f, i, d, u, p, s), 0)
           /\ Sum(c, f, i, d, u, s) > 0 => \E p \in Procs : Share(c, f, i, d, u, p, s) > 0
<1>1. PICK a, b : a = Firsts(u) /\ b = Seconds(u)
  OBVIOUS
<1>2. Cardinality(InPuts(u, s)) = Count(a, s) + Count(b, s)
  BY <1>1, InPutsAre DEF Count
<1>3. ASSUME NEW x
      PROVE  /\ \A p \in Procs : Covers(Count(x, s), Is(x[p], s), 0)
             /\ \A p, q \in Procs : p # q => Covers(Count(x, s), Is(x[p], s), Is(x[q], s))
             /\ Count(x, s) \in Nat
             /\ Count(x, s) > 0 => \E p \in Procs : x[p] = s
  <2>1. Where(x, s) \in SUBSET Procs /\ \A p \in Procs : In(p, Where(x, s)) = Is(x[p], s)
    BY DEF Where, In, Is
  <2>2. \A p, q \in Procs :
           /\ Cardinality(Where(x, s)) >= In(p, Where(x, s))
           /\ p # q => Cardinality(Where(x, s)) >= In(p, Where(x, s)) + In(q, Where(x, s))
    BY <2>1, ConstantFacts, TwoMembers
  <2>3. Count(x, s) \in Nat /\ (Count(x, s) > 0 => Where(x, s) # {})
    BY <2>1, ConstantFacts, TwoMembers DEF Count
  <2>4. \A p \in Procs : Is(x[p], s) \in Nat /\ (p \in Where(x, s) => x[p] = s)
    BY DEF Is, Where
  <2>5. /\ \A p \in Procs : Covers(Count(x, s), Is(x[p], s), 0)
        /\ \A p, q \in Procs : p # q => Covers(Count(x, s), Is(x[p], s), Is(x[q], s))
    BY <2>1, <2>2, <2>3, <2>4 DEF Covers, Count
  <2> QED BY <2>1, <2>3, <2>4, <2>5
<1>4. /\ Sum(c, f, i, d, u, s) = Count(c, s) + Count(f, s) + Count(i, s) + Count(d, s)
                                  + (Count(a, s) + Count(b, s))
      /\ \A p : Share(c, f, i, d, u, p, s) = Is(c[p], s) + Is(f[p], s) + Is(i[p], s) + Is(d[p], s)
                                             + (Is(a[p], s) + Is(b[p], s))
  BY <1>1, <1>2 DEF Sum, Share, Count
<1> DEFINE n == Count(c, s) + Count(f, s) + Count(i, s) + Count(d, s) + (Count(a, s) + Count(b, s))
           m(p) == Is(c[p], s) + Is(f[p], s) + Is(i[p], s) + Is(d[p], s) + (Is(a[p], s) + Is(b[p], s))
<1>5. ASSUME NEW p \in Procs PROVE Covers(n, m(p), 0)
  <2>1. Covers(Count(c, s) + Count(f, s), Is(c[p], s) + Is(f[p], s), 0 + 0)
    BY <1>3, AddCovers
  <2>2. Covers(Count(c, s) + Count(f, s) + Count(i, s), Is(c[p], s) + Is(f[p], s) + Is(i[p], s), 0 + 0 + 0)
    BY <1>3, <2>1, AddCovers
  <2>3. Covers(Count(c, s) + Count(f, s) + Count(i, s) + Count(d, s),
               Is(c[p], s) + Is(f[p], s) + Is(i[p], s) + Is(d[p], s), 0 + 0 + 0 + 0)
    BY <1>3, <2>2, AddCovers
  <2>4. Covers(Count(a, s) + Count(b, s), Is(a[p], s) + Is(b[p], s), 0 + 0)
    BY <1>3, AddCovers
  <2>5. Covers(n, m(p), 0 + 0 + 0 + 0 + (0 + 0))
    BY <2>3, <2>4, AddCovers
  <2> HIDE DEF n, m
  <2> QED BY <2>5
<1>6. ASSUME NEW p \in Procs, NEW q \in Procs, p # q PROVE Covers(n, m(p), m(q))
  <2>1. Covers(Count(c, s) + Count(f, s), Is(c[p], s) + Is(f[p], s), Is(c[q], s) + Is(f[q], s))
    BY <1>3, <1>6, AddCovers
  <2>2. Covers(Count(c, s) + Count(f, s) + Count(i, s),
               Is(c[p], s) + Is(f[p], s) + Is(i[p], s), Is(c[q], s) + Is(f[q], s) + Is(i[q], s))
    BY <1>3, <1>6, <2>1, AddCovers
  <2>3. Covers(Count(c, s) + Count(f, s) + Count(i, s) + Count(d, s),
               Is(c[p], s) + Is(f[p], s) + Is(i[p], s) + Is(d[p], s),
               Is(c[q], s) + Is(f[q], s) + Is(i[q], s) + Is(d[q], s))
    BY <1>3, <1>6, <2>2, AddCovers
  <2>4. Covers(Count(a, s) + Count(b, s), Is(a[p], s) + Is(b[p], s), Is(a[q], s) + Is(b[q], s))
    BY <1>3, <1>6, AddCovers
  <2> QED BY <2>3, <2>4, AddCovers
<1>7. ASSUME n > 0 PROVE \E p \in Procs : m(p) > 0
  <2>1. \A p : Is(c[p], s) \in Nat /\ Is(f[p], s) \in Nat /\ Is(i[p], s) \in Nat
               /\ Is(d[p], s) \in Nat /\ Is(a[p], s) \in Nat /\ Is(b[p], s) \in Nat
    BY DEF Is
  <2>2. /\ Count(c, s) \in Nat /\ Count(f, s) \in Nat /\ Count(i, s) \in Nat
        /\ Count(d, s) \in Nat /\ Count(a, s) \in Nat /\ Count(b, s) \in Nat
    BY <1>3
  <2>3. \/ Count(c, s) > 0 \/ Count(f, s) > 0 \/ Count(i, s) > 0
        \/ Count(d, s) > 0 \/ Count(a, s) > 0 \/ Count(b, s) > 0
    BY <1>7, <2>2
  <2>4. PICK p \in Procs : c[p] = s \/ f[p] = s \/ i[p] = s \/ d[p] = s \/ a[p] = s \/ b[p] = s
    BY <1>3, <2>3
  <2>5. \/ Is(c[p], s) = 1 \/ Is(f[p], s) = 1 \/ Is(i[p], s) = 1
        \/ Is(d[p], s) = 1 \/ Is(a[p], s) = 1 \/ Is(b[p], s) = 1
    BY <2>4 DEF Is
  <2>6. m(p) > 0
    BY <2>1, <2>5
  <2> HIDE DEF m
  <2> QED BY <2>6
<1> HIDE DEF n, m
<1>8. Sum(c, f, i, d, u, s) = n /\ \A p : Share(c, f, i, d, u, p, s) = m(p)
  BY <1>4 DEF n, m
<1> QED BY <1>5, <1>6, <1>7, <1>8


\* The pointers of a process, as a count.
Total(c, f, i, d, a, b, s) ==
    Is(c, s) + Is(f, s) + Is(i, s) + Is(d, s) + (Is(a, s) + Is(b, s))

LEMMA TotalIs ==
    ASSUME NEW c, NEW f, NEW i, NEW d, NEW a, NEW b, NEW s
    PROVE  /\ Total(c, f, i, d, a, b, s) \in Nat
           /\ Total(c, f, i, d, a, b, s) > 0 <=> c = s \/ f = s \/ i = s \/ d = s \/ a = s \/ b = s
<1>1. \A x : Is(x, s) \in {0, 1} /\ (Is(x, s) = 1 <=> x = s)
  BY DEF Is
<1>2. PICK x1 \in {0, 1}, x2 \in {0, 1}, x3 \in {0, 1}, x4 \in {0, 1}, x5 \in {0, 1}, x6 \in {0, 1} :
         /\ x1 = Is(c, s) /\ x2 = Is(f, s) /\ x3 = Is(i, s)
         /\ x4 = Is(d, s) /\ x5 = Is(a, s) /\ x6 = Is(b, s)
  BY <1>1
<1>3. Total(c, f, i, d, a, b, s) = x1 + x2 + x3 + x4 + (x5 + x6)
  BY <1>2 DEF Total
<1>4. /\ Total(c, f, i, d, a, b, s) \in Nat
      /\ Total(c, f, i, d, a, b, s) > 0 <=> x1 = 1 \/ x2 = 1 \/ x3 = 1 \/ x4 = 1 \/ x5 = 1 \/ x6 = 1
  BY <1>3
<1> QED BY <1>1, <1>2, <1>4

Listed(n, c, f, i, d, u, s) ==
    /\ n \in Nat
    /\ n > 0 <=> \/ c = s \/ f = s \/ i = s \/ d = s
                 \/ Len(u) >= 1 /\ u[1] = s
                 \/ Len(u) >= 2 /\ u[2] = s
    /\ u = <<>> => n = Total(c, f, i, d, NoSlot, NoSlot, s)
    /\ Len(u) = 1 => n = Total(c, f, i, d, u[1], NoSlot, s)
    /\ Len(u) = 2 => n = Total(c, f, i, d, u[1], u[2], s)

LEMMA ShareIs ==
    ASSUME NEW c, NEW f, NEW i, NEW d, NEW u \in [Procs -> Seq(Slots)], NEW p \in Procs, NEW s \in Slots
    PROVE  Listed(Share(c, f, i, d, u, p, s), c[p], f[p], i[p], d[p], u[p], s)
<1> DEFINE a == Firsts(u)[p]
           b == Seconds(u)[p]
<1>1. /\ a = s <=> Len(u[p]) >= 1 /\ u[p][1] = s
      /\ b = s <=> Len(u[p]) >= 2 /\ u[p][2] = s
      /\ u[p] = <<>> => a = NoSlot /\ b = NoSlot
      /\ Len(u[p]) = 1 => a = u[p][1] /\ b = NoSlot
      /\ Len(u[p]) = 2 => a = u[p][1] /\ b = u[p][2]
  BY ConstantFacts DEF Firsts, Seconds
<1>2. Share(c, f, i, d, u, p, s) = Total(c[p], f[p], i[p], d[p], a, b, s)
  BY DEF Share, Total
<1> HIDE DEF a, b
<1> QED BY <1>1, <1>2, TotalIs DEF Listed

LEMMA OwnIs ==
    ASSUME Typed, NEW p \in Procs, NEW s \in Slots
    PROVE  Listed(Own(p, s), cwd[p], file[p], ip[p], dp[p], puts[p], s)
<1>1. PICK c, f, i, d, u :
         /\ u \in [Procs -> Seq(Slots)]
         /\ c = cwd /\ f = file /\ i = ip /\ d = dp /\ u = puts
  BY DEF Typed
<1>2. Own(p, s) = Share(c, f, i, d, u, p, s)
  BY <1>1 DEF Own
<1>3. Listed(Share(c, f, i, d, u, p, s), c[p], f[p], i[p], d[p], u[p], s)
  BY <1>1, ShareIs
<1> QED BY <1>1, <1>2, <1>3

LEMMA OwnIsAfter ==
    ASSUME Typed', NEW p \in Procs, NEW s \in Slots
    PROVE  Listed(Own(p, s)', cwd'[p], file'[p], ip'[p], dp'[p], puts'[p], s)
<1>1. PICK c, f, i, d, u :
         /\ u \in [Procs -> Seq(Slots)]
         /\ c = cwd' /\ f = file' /\ i = ip' /\ d = dp' /\ u = puts'
  BY DEF Typed
<1>2. Own(p, s)' = Share(c, f, i, d, u, p, s)
  BY <1>1 DEF Own
<1>3. Listed(Share(c, f, i, d, u, p, s), c[p], f[p], i[p], d[p], u[p], s)
  BY <1>1, ShareIs
<1> QED BY <1>1, <1>2, <1>3

\* A process has what it points to, but the inode that it has freed.
LEMMA OwnHas ==
    ASSUME Typed, CallsOK, NEW p \in Procs, NEW s \in Slots
    PROVE  /\ Own(p, s) \in Nat
           /\ Own(p, s) > 0 <=> Has(p, s) \/ (freeing[p] \in {"unlock", "drop"} /\ puts[p][1] = s)
           /\ freeing[p] # "no" => Len(puts[p]) >= 1 /\ puts[p][1] \in Slots
<1>1. puts[p] \in Seq(Slots) /\ CallAt(p) /\ freeing[p] \in {"no", "trunc", "unlock", "drop"}
  BY DEF Typed, CallsOK
<1>2. Len(puts[p]) \in Nat /\ (puts[p] # <<>> => Len(puts[p]) >= 1)
  BY <1>1
<1>3. freeing[p] # "no" => Len(puts[p]) >= 1 /\ puts[p][1] \in Slots
  BY <1>1, <1>2 DEF CallAt
<1>4. Own(p, s) > 0 <=> Has(p, s) \/ (freeing[p] \in {"unlock", "drop"} /\ puts[p][1] = s)
  <2>1. freeing[p] \in {"unlock", "drop"} => Len(puts[p]) >= 1
    BY <1>3
  <2> QED BY <2>1, OwnIs DEF Has, Listed
<1> QED BY <1>3, <1>4, OwnIs DEF Listed

\* What a process has is in the table; what two processes have has two references.
LEMMA HasHeld ==
    ASSUME Typed, CallsOK, Counted, NEW p \in Procs, NEW s \in Slots
    PROVE  /\ inode[s].ref \in Nat
           /\ Covers(inode[s].ref, Own(p, s), 0)
           /\ \A q \in Procs \ {p} : Covers(inode[s].ref, Own(p, s), Own(q, s))
           /\ Has(p, s) => Held(s)
           /\ freeing[p] # "no" /\ puts[p][1] = s => Held(s)
<1>1. PICK c, f, i, d, u :
         /\ u \in [Procs -> Seq(Slots)]
         /\ c = cwd /\ f = file /\ i = ip /\ d = dp /\ u = puts
  BY DEF Typed
<1>2. References(s) = Sum(c, f, i, d, u, s) /\ \A q : Own(q, s) = Share(c, f, i, d, u, q, s)
  BY <1>1 DEF References, Sum, Own, Where, InPuts
<1>3. Covers(References(s), Own(p, s), 0) /\ \A q \in Procs \ {p} : Covers(References(s), Own(p, s), Own(q, s))
  <2>1. /\ \A x, y \in Procs : x # y =>
              Covers(Sum(c, f, i, d, u, s), Share(c, f, i, d, u, x, s), Share(c, f, i, d, u, y, s))
        /\ \A x \in Procs : Covers(Sum(c, f, i, d, u, s), Share(c, f, i, d, u, x, s), 0)
    BY <1>1, SumCovers
  <2> QED BY <1>2, <2>1
<1>4. inode[s].ref = References(s)
  BY DEF Counted
<1>5. inode[s].ref \in Nat
  BY DEF Typed, Table
<1>6. Own(p, s) > 0 => Held(s)
  BY <1>3, <1>4, <1>5 DEF Covers, Held
<1>7. freeing[p] # "no" /\ puts[p][1] = s => Own(p, s) > 0
  <2>1. freeing[p] \in {"no", "trunc", "unlock", "drop"}
    BY DEF Typed
  <2>2. freeing[p] # "no" => Len(puts[p]) >= 1
    BY OwnHas
  <2>3. freeing[p] = "trunc" /\ puts[p][1] = s => Has(p, s)
    BY <2>2 DEF Has
  <2> QED BY <2>1, <2>3, OwnHas
<1> QED BY <1>3, <1>4, <1>5, <1>6, <1>7, OwnHas

LEMMA LocksHeld ==
    ASSUME Typed, CallsOK, Counted, NEW q \in Procs, NEW s \in Slots, Locks(q, s)
    PROVE  Held(s)
<1>1. ASSUME pc[q] \in DpLocked /\ dp[q] = s PROVE Has(q, s)
  BY <1>1 DEF Has
<1>2. ASSUME pc[q] \in IpLocked /\ ip[q] = s PROVE Has(q, s)
  BY <1>2 DEF Has
<1>3. ASSUME freeing[q] \in {"trunc", "unlock"} /\ puts[q][1] = s PROVE Held(s)
  BY <1>3, HasHeld
<1> QED BY <1>1, <1>2, <1>3, HasHeld DEF Locks

-----------------------------------------------------------------------------
(* A step of one process keeps the invariant when it moves the references, *)
(* the locks, the table and the disk as it should.                         *)

Others(p) ==
    \A q \in Procs \ {p} :
        /\ cwd'[q] = cwd[q] /\ file'[q] = file[q] /\ ip'[q] = ip[q] /\ dp'[q] = dp[q]
        /\ puts'[q] = puts[q] /\ freeing'[q] = freeing[q] /\ pc'[q] = pc[q]
        /\ call'[q] = call[q] /\ path'[q] = path[q]

RefsMove(p) == \A s \in Slots : inode'[s].ref + Own(p, s) = inode[s].ref + Own(p, s)'

LocksMove(p) ==
    /\ \A s \in Slots, q \in Procs \ {p} : lock'[s] = q <=> lock[s] = q
    /\ \A s \in Slots : lock'[s] = p <=> Locks(p, s)'
    /\ pc'[p] \in {"fill", "erase"} => ip'[p] # dp'[p]

\* Inodes stay in their slots, and a new one is in no other.
TableMove(p) ==
    \A s \in Slots :
        /\ Held(s) => inode'[s].inum = inode[s].inum
        /\ ~Held(s) /\ Held(s)' =>
              /\ inode'[s].inum \in Inums
              /\ \A t \in Slots : t # s /\ Held(t)' => inode'[t].inum # inode'[s].inum
        /\ \A q \in Procs \ {p} :
              Locks(q, s) => inode'[s].valid = inode[s].valid /\ inode'[s].nlink = inode[s].nlink

\* An inode changes on the disk that was free, or that p has and nobody else locks.
DiskMove(p) ==
    \A i \in Inums :
        /\ \/ dinode'[i].type = dinode[i].type
           \/ \A q \in Procs, s \in Slots : Has(q, s)' => inode'[s].inum # i
        /\ \/ dinode'[i] = dinode[i] \/ dinode[i].type = "FREE"
           \/ \E s \in Slots : /\ Has(p, s) /\ inode[s].inum = i
                               /\ \A q \in Procs \ {p} : ~Locks(q, s)

\* An inode to which p may get a pointer.
Found(p, i) ==
    /\ i \in Inums /\ dinode[i].type # "FREE"
    /\ \A q \in Procs \ {p} :
          /\ Filling(q) => Fresh(q) # i
          /\ freeing[q] = "trunc" => inode[puts[q][1]].inum # i

PointersMove(p) ==
    /\ \A s \in Slots : Has(p, s)' => Has(p, s) \/ Found(p, inode'[s].inum)
    /\ \A s \in Slots : Own(p, s)' > 0 => Own(p, s) > 0 \/ Found(p, inode'[s].inum)
    /\ Filling(p)' => dinode[Fresh(p)'].type = "FREE" \/ (Filling(p) /\ Fresh(p)' = Fresh(p))

LEMMA OthersStay ==
    ASSUME NEW p \in Procs, Others(p), NEW q \in Procs \ {p}
    PROVE  /\ \A s \in Slots : /\ Has(q, s)' <=> Has(q, s)
                               /\ Locks(q, s)' <=> Locks(q, s)
                               /\ Leaves(q, s)' <=> Leaves(q, s)
                               /\ Own(q, s)' = Own(q, s)
           /\ CallAt(q)' <=> CallAt(q)
           /\ Filling(q)' <=> Filling(q)
           /\ NewType(q)' = NewType(q) /\ Name(q)' = Name(q)
<1>0. /\ cwd'[q] = cwd[q] /\ file'[q] = file[q] /\ ip'[q] = ip[q] /\ dp'[q] = dp[q]
      /\ puts'[q] = puts[q] /\ freeing'[q] = freeing[q] /\ pc'[q] = pc[q]
      /\ call'[q] = call[q] /\ path'[q] = path[q]
  BY DEF Others
<1>1. \A s \in Slots : Has(q, s)' <=> Has(q, s)
  BY <1>0 DEF Has
<1>2. \A s \in Slots : Locks(q, s)' <=> Locks(q, s)
  BY <1>0 DEF Locks
<1>3. \A s \in Slots : Leaves(q, s)' <=> Leaves(q, s)
  BY <1>0 DEF Leaves
<1>4. \A s \in Slots : Own(q, s)' = Own(q, s)
  BY <1>0 DEF Own, Share, Firsts, Seconds
<1>5. CallAt(q)' <=> CallAt(q)
  <2>1. Has(q, puts[q][1])' <=> Has(q, puts[q][1])
    BY <1>0 DEF Has
  <2> QED BY <1>0, <2>1 DEF CallAt, Name
<1>6. Filling(q)' <=> Filling(q)
  BY <1>0 DEF Filling
<1>7. NewType(q)' = NewType(q) /\ Name(q)' = Name(q)
  BY <1>0 DEF NewType, Name
<1> QED BY <1>1, <1>2, <1>3, <1>4, <1>5, <1>6, <1>7

LEMMA CountMoves ==
    ASSUME Typed, Typed', NEW p \in Procs, Others(p), NEW s \in Slots
    PROVE  /\ Change(References(s), References(s)', Own(p, s), Own(p, s)')
<1>1. PICK c, f, i, d, u :
         /\ u \in [Procs -> Seq(Slots)]
         /\ c = cwd /\ f = file /\ i = ip /\ d = dp /\ u = puts
  BY DEF Typed
<1>2. PICK cc, ff, ii, dd, uu :
         /\ uu \in [Procs -> Seq(Slots)]
         /\ cc = cwd' /\ ff = file' /\ ii = ip' /\ dd = dp' /\ uu = puts'
  BY DEF Typed
<1>3. /\ References(s) = Sum(c, f, i, d, u, s) /\ Own(p, s) = Share(c, f, i, d, u, p, s)
      /\ References(s)' = Sum(cc, ff, ii, dd, uu, s) /\ Own(p, s)' = Share(cc, ff, ii, dd, uu, p, s)
  BY <1>1, <1>2 DEF References, Sum, Own, Where, InPuts
<1>4. \A q \in Procs \ {p} :
              cc[q] = c[q] /\ ff[q] = f[q] /\ ii[q] = i[q] /\ dd[q] = d[q] /\ uu[q] = u[q]
  BY <1>1, <1>2 DEF Others
<1>5. Change(Sum(c, f, i, d, u, s), Sum(cc, ff, ii, dd, uu, s),
             Share(c, f, i, d, u, p, s), Share(cc, ff, ii, dd, uu, p, s))
  BY <1>1, <1>2, <1>4, SumMoves
<1> QED BY <1>3, <1>5

\* What the others have and know, when p takes a step.
LEMMA OthersKnow ==
    ASSUME IInv, NEW p \in Procs, Others(p), TableMove(p), DiskMove(p), PointersMove(p),
           Typed', RefsMove(p), NEW q \in Procs \ {p}
    PROVE  /\ \A s \in Slots : Has(q, s) =>
                 /\ inode'[s].inum = inode[s].inum /\ inode'[s].inum \in Inums
                 /\ Disk(s)'.type = Disk(s).type
                 /\ Locks(q, s) => Disk(s)' = Disk(s)
           /\ Knows(q)'
<1>0. /\ Typed /\ CallsOK /\ Counted /\ Once /\ LocksOK /\ Agrees /\ Live
      /\ KnowsValid(q) /\ KnowsKinds(q) /\ KnowsEntry(q) /\ Reserves(q) /\ CallAt(q)
  BY DEF IInv, Known, Knows, CallsOK
<1>1. /\ cwd'[q] = cwd[q] /\ file'[q] = file[q] /\ ip'[q] = ip[q] /\ dp'[q] = dp[q]
      /\ puts'[q] = puts[q] /\ freeing'[q] = freeing[q] /\ pc'[q] = pc[q]
      /\ call'[q] = call[q] /\ path'[q] = path[q]
  BY DEF Others
<1>2. /\ \A s \in Slots : (Has(q, s)' <=> Has(q, s)) /\ Own(q, s)' = Own(q, s)
      /\ (Filling(q)' <=> Filling(q)) /\ NewType(q)' = NewType(q) /\ Name(q)' = Name(q)
  BY OthersStay
<1>3. ASSUME NEW r \in Procs, NEW s \in Slots, Has(r, s)
      PROVE  /\ Held(s) /\ inode'[s].inum = inode[s].inum /\ inode'[s].inum \in Inums
             /\ Disk(s).type # "FREE"
  <2>1. Held(s)
    BY <1>0, <1>3, HasHeld
  <2>2. inode'[s].inum = inode[s].inum /\ inode[s].inum \in Inums
    BY <1>0, <2>1 DEF TableMove, Once
  <2>3. Disk(s).type # "FREE"
    BY <1>0, <1>3 DEF Live
  <2> QED BY <2>1, <2>2, <2>3
<1>4. ASSUME NEW s \in Slots, Has(q, s)
      PROVE  Disk(s)'.type = Disk(s).type
  <2>1. /\ inode'[s].inum = inode[s].inum /\ inode'[s].inum \in Inums /\ Has(q, s)'
    BY <1>2, <1>3, <1>4
  <2>2. dinode'[inode'[s].inum].type = dinode[inode'[s].inum].type
    BY <2>1 DEF DiskMove
  <2> QED BY <2>1, <2>2 DEF Disk
<1>5. ASSUME NEW s \in Slots, Has(q, s), Locks(q, s)
      PROVE  Disk(s)' = Disk(s)
  <2>1. /\ inode'[s].inum = inode[s].inum /\ inode'[s].inum \in Inums /\ Held(s)
        /\ dinode[inode[s].inum].type # "FREE"
    BY <1>3, <1>5 DEF Disk
  <2>2. ASSUME NEW t \in Slots, Has(p, t), inode[t].inum = inode[s].inum PROVE t = s
    BY <1>0, <1>3, <2>1, <2>2 DEF Once
  <2>3. dinode'[inode[s].inum] = dinode[inode[s].inum]
    BY <1>5, <2>1, <2>2 DEF DiskMove
  <2> QED BY <2>1, <2>3 DEF Disk
<1>6. ASSUME NEW s \in Slots, freeing[q] = "trunc", puts[q][1] = s
      PROVE  inode'[s].ref = inode[s].ref
  <2>1. inode[s].ref = 1 /\ Own(q, s) > 0 /\ Own(q, s) \in Nat /\ Own(p, s) \in Nat /\ Held(s) /\ inode[s].inum \in Inums
    <3>1. Len(puts[q]) >= 1
      BY <1>0, <1>6, OwnHas
    <3>2. Has(q, s)
      BY <1>6, <3>1 DEF Has
    <3>3. Own(q, s) > 0 /\ Own(q, s) \in Nat /\ Own(p, s) \in Nat
      BY <1>0, <3>2, OwnHas
    <3> QED BY <1>0, <1>3, <1>6, <3>2, <3>3 DEF KnowsValid, Once
  <2>2. Own(p, s) = 0
    <3>1. Covers(inode[s].ref, Own(q, s), Own(p, s))
      BY <1>0, HasHeld
    <3> QED BY <2>1, <3>1 DEF Covers
  <2>3. inode'[s].inum = inode[s].inum
    BY <2>1 DEF TableMove
  <2>4. ~Found(p, inode'[s].inum)
    BY <1>6, <2>3 DEF Found
  <2>5. ~(Own(p, s)' > 0)
    BY <2>2, <2>4 DEF PointersMove
  <2>6. Own(p, s)' \in Nat
    <3>1. Change(References(s), References(s)', Own(p, s), Own(p, s)')
      BY <1>0, CountMoves
    <3> QED BY <3>1 DEF Change
  <2>7. inode'[s].ref \in Nat /\ inode[s].ref \in Nat
    BY <1>0 DEF Typed, Table
  <2> QED BY <2>2, <2>5, <2>6, <2>7 DEF RefsMove
<1>7. /\ dp[q] # NoSlot => dp[q] \in Slots /\ Has(q, dp[q])
      /\ ip[q] # NoSlot => ip[q] \in Slots /\ Has(q, ip[q])
      /\ freeing[q] # "no" => Len(puts[q]) >= 1 /\ puts[q][1] \in Slots
      /\ pc[q] \in WithDp => dp[q] # NoSlot
      /\ pc[q] \in WithIp => ip[q] # NoSlot
      /\ freeing[q] \in {"no", "trunc", "unlock", "drop"}
  <2>1. dp[q] \in Slots \cup {NoSlot} /\ ip[q] \in Slots \cup {NoSlot} /\ freeing[q] \in {"no", "trunc", "unlock", "drop"}
    BY <1>0 DEF Typed
  <2>2. freeing[q] # "no" => Len(puts[q]) >= 1 /\ puts[q][1] \in Slots
    BY <1>0, ConstantFacts, OwnHas
  <2> QED BY <1>0, <2>1, <2>2 DEF CallAt, Has
<1>8. KnowsValid(q)'
  <2>1. ASSUME NEW s \in Slots, Locks(q, s)
        PROVE  inode'[s].valid = inode[s].valid /\ inode'[s].nlink = inode[s].nlink
    BY <2>1 DEF TableMove
  <2>2. ASSUME pc[q] \in DpLocked PROVE inode'[dp[q]].valid
    <3>1. pc[q] \in WithDp /\ Locks(q, dp[q])
      BY <2>2 DEF DpLocked, WithDp, Locks
    <3> QED BY <1>0, <1>7, <2>1, <2>2, <3>1 DEF KnowsValid
  <2>3. ASSUME pc[q] \in IpLocked PROVE inode'[ip[q]].valid
    <3>1. pc[q] \in WithIp /\ Locks(q, ip[q])
      BY <2>3 DEF IpLocked, WithIp, Locks
    <3> QED BY <1>0, <1>7, <2>1, <2>3, <3>1 DEF KnowsValid
  <2>4. ASSUME freeing[q] \in {"trunc", "unlock"}
        PROVE  inode'[puts[q][1]].valid /\ inode'[puts[q][1]].nlink = 0
    <3>1. Locks(q, puts[q][1])
      BY <2>4 DEF Locks
    <3> QED BY <1>0, <1>7, <2>1, <2>4, <3>1 DEF KnowsValid
  <2>5. freeing[q] = "trunc" => inode'[puts[q][1]].ref = 1
    BY <1>0, <1>6, <1>7 DEF KnowsValid
  <2> QED BY <1>1, <2>2, <2>3, <2>4, <2>5 DEF KnowsValid
<1>9. KnowsKinds(q)'
  <2>1. pc[q] \in Linking => pc[q] \in WithIp
    BY DEF Linking, WithIp
  <2>2. ASSUME pc[q] \in WithDp \ {"walk", "walknew"} PROVE Disk(dp[q])'.type = "DIR"
    <3>1. PICK d \in Slots : d = dp[q] /\ Has(q, d) /\ Disk(d).type = "DIR"
      BY <1>0, <1>7, <2>2 DEF KnowsKinds
    <3>2. Disk(d)'.type = "DIR"
      BY <1>4, <3>1
    <3> QED BY <1>1, <3>1, <3>2 DEF Disk
  <2>3. ASSUME pc[q] \in Linking PROVE Disk(ip[q])'.type = "FILE"
    <3>1. PICK i \in Slots : i = ip[q] /\ Has(q, i) /\ Disk(i).type = "FILE"
      BY <1>0, <1>7, <2>1, <2>3 DEF KnowsKinds
    <3>2. Disk(i)'.type = "FILE"
      BY <1>4, <3>1
    <3> QED BY <1>1, <3>1, <3>2 DEF Disk
  <2> QED BY <1>1, <2>2, <2>3 DEF KnowsKinds
<1>10. KnowsEntry(q)'
  <2>1. ASSUME pc[q] = "erase"
        PROVE  Disk(dp[q])' = Disk(dp[q]) /\ inode'[ip[q]].inum = inode[ip[q]].inum
    <3>1. PICK d \in Slots, i \in Slots : d = dp[q] /\ Has(q, d) /\ i = ip[q] /\ Has(q, i)
      BY <1>7, <2>1 DEF WithIp, WithDp
    <3>2. Locks(q, d)
      BY <2>1, <3>1 DEF Locks, DpLocked
    <3>3. Disk(d)' = Disk(d) /\ inode'[i].inum = inode[i].inum
      BY <1>3, <1>5, <3>1, <3>2
    <3> QED BY <1>1, <3>1, <3>3 DEF Disk
  <2>2. ASSUME pc[q] = "erase" PROVE Entry(q)' = Entry(q)
    BY <1>1, <1>2, <2>1, <2>2 DEF Entry, Disk
  <2> QED BY <1>0, <1>1, <2>1, <2>2 DEF KnowsEntry
<1>11. Reserves(q)'
  <2>1. SUFFICES ASSUME Filling(q)
        PROVE  /\ Fresh(q)' \in Inums
               /\ dinode'[Fresh(q)'] = [FreeInode EXCEPT !.type = NewType(q)]
               /\ \A r \in Procs, s \in Slots : Has(r, s)' /\ inode'[s].inum = Fresh(q)' =>
                     pc[q] = "fill" /\ r = q /\ s = ip[q]
               /\ \A r \in Procs : Filling(r)' /\ Fresh(r)' = Fresh(q)' => r = q
    BY <1>1, <1>2 DEF Reserves
  <2>2. PICK i \in Inums :
          /\ i = Fresh(q) /\ dinode[i] = [FreeInode EXCEPT !.type = NewType(q)]
          /\ \A r \in Procs, s \in Slots : Has(r, s) /\ inode[s].inum = i =>
                 pc[q] = "fill" /\ r = q /\ s = ip[q]
          /\ \A r \in Procs : Filling(r) /\ Fresh(r) = i => r = q
    BY <1>0, <2>1 DEF Reserves
  <2>3. Fresh(q)' = i
    <3>1. ASSUME pc[q] # "iget" PROVE inode'[ip[q]].inum = inode[ip[q]].inum
      BY <1>3, <1>7, <2>1, <3>1 DEF Filling, WithIp
    <3> QED BY <1>1, <2>2, <3>1 DEF Fresh
  <2>4. dinode[i].type # "FREE"
    BY <2>2 DEF FreeInode, NewType
  <2>5. dinode'[i] = dinode[i]
    <3>1. ASSUME NEW s \in Slots, Has(p, s), inode[s].inum = i PROVE FALSE
      BY <2>2, <3>1
    <3> QED BY <2>4, <3>1 DEF DiskMove
  <2>6. ASSUME NEW r \in Procs, NEW s \in Slots, Has(r, s)', inode'[s].inum = i
        PROVE  pc[q] = "fill" /\ r = q /\ s = ip[q]
    <3>1. ASSUME Has(r, s) PROVE pc[q] = "fill" /\ r = q /\ s = ip[q]
      BY <1>3, <2>2, <2>6, <3>1
    <3>2. ASSUME r # p PROVE Has(r, s)
      BY <2>6, <3>2, OthersStay
    <3>3. ASSUME r = p, ~Has(p, s) PROVE FALSE
      <4>1. Found(p, i)
        BY <2>6, <3>3 DEF PointersMove
      <4> QED BY <2>1, <2>2, <4>1 DEF Found
    <3> QED BY <3>1, <3>2, <3>3
  <2>7. ASSUME NEW r \in Procs, Filling(r)', Fresh(r)' = i PROVE r = q
    <3>1. ASSUME r # p PROVE Filling(r) /\ Fresh(r) = i
      <4>1. Filling(r) /\ pc'[r] = pc[r] /\ call'[r] = call[r] /\ ip'[r] = ip[r]
        BY <2>7, <3>1, OthersStay DEF Others
      <4>2. ASSUME pc[r] # "iget" PROVE inode'[ip[r]].inum = inode[ip[r]].inum
        <5>1. pc[r] \in WithIp /\ CallAt(r) /\ ip[r] \in Slots \cup {NoSlot}
          BY <1>0, <4>1, <4>2 DEF Filling, WithIp, CallsOK, Typed
        <5>2. ip[r] \in Slots /\ Has(r, ip[r])
          BY <5>1 DEF CallAt, Has
        <5> QED BY <1>3, <5>2
      <4> QED BY <2>7, <4>1, <4>2 DEF Fresh
    <3>2. ASSUME r = p PROVE Filling(p) /\ Fresh(p) = i
      BY <2>4, <2>7, <3>2 DEF PointersMove
    <3> QED BY <2>2, <3>1, <3>2
  <2> QED BY <2>2, <2>3, <2>5, <2>6, <2>7
<1> QED BY <1>3, <1>4, <1>5, <1>8, <1>9, <1>10, <1>11 DEF Knows

LEMMA StepKeeps ==
    ASSUME IInv, NEW p \in Procs, Others(p), TableMove(p), DiskMove(p), PointersMove(p),
           RefsMove(p), LocksMove(p), Typed', CallAt(p)', Agrees', Knows(p)', DiskOK'
    PROVE  IInv'
<1>0. Typed /\ CallsOK /\ Counted /\ Once /\ LocksOK /\ Agrees /\ Live /\ Known /\ DiskOK
  BY DEF IInv
<1>1. CallsOK'
  <2>1. \A q \in Procs \ {p} : CallAt(q)'
    BY <1>0, OthersStay DEF CallsOK
  <2> QED BY <2>1 DEF CallsOK
<1>2. Counted'
  <2>1. ASSUME NEW s \in Slots PROVE inode'[s].ref = References(s)'
    <3>1. Change(References(s), References(s)', Own(p, s), Own(p, s)')
      BY <1>0, CountMoves
    <3>2. inode'[s].ref + Own(p, s) = inode[s].ref + Own(p, s)'
      BY DEF RefsMove
    <3>3. inode[s].ref = References(s) /\ inode[s].ref \in Nat /\ inode'[s].ref \in Nat
      BY <1>0 DEF Counted, Typed, Table
    <3> QED BY <3>1, <3>2, <3>3 DEF Change
  <2> QED BY <2>1 DEF Counted
<1>3. Once'
  <2>1. ASSUME NEW s \in Slots, Held(s)' PROVE inode'[s].inum \in Inums
    BY <1>0, <2>1 DEF TableMove, Once
  <2>2. ASSUME NEW s \in Slots, NEW t \in Slots, Held(s)', Held(t)', inode'[s].inum = inode'[t].inum
        PROVE  s = t
    BY <1>0, <2>2 DEF TableMove, Once
  <2> QED BY <2>1, <2>2 DEF Once
<1>4. LocksOK'
  <2>1. ASSUME NEW q \in Procs \ {p}, NEW s \in Slots PROVE lock'[s] = q <=> Locks(q, s)'
    BY <1>0, OthersStay DEF LocksMove, LocksOK
  <2>2. ASSUME NEW s \in Slots PROVE lock'[s] = p <=> Locks(p, s)'
    BY DEF LocksMove
  <2>3. \A q \in Procs : pc'[q] \in {"fill", "erase"} => ip'[q] # dp'[q]
    BY <1>0 DEF LocksMove, LocksOK, Others
  <2> QED BY <2>1, <2>2, <2>3 DEF LocksOK
<1>5. Live'
  <2>1. ASSUME NEW s \in Slots, NEW q \in Procs, Has(q, s)', dinode[inode'[s].inum].type # "FREE", inode'[s].inum \in Inums
        PROVE  Disk(s)'.type # "FREE"
    BY <2>1 DEF DiskMove, Disk
  <2>2. ASSUME NEW s \in Slots, NEW q \in Procs, Has(q, s)
        PROVE  dinode[inode'[s].inum].type # "FREE" /\ inode'[s].inum \in Inums
    <3>1. Held(s) /\ dinode[inode[s].inum].type # "FREE"
      BY <1>0, <2>2, HasHeld DEF Live, Disk
    <3> QED BY <1>0, <3>1 DEF TableMove, Once
  <2>3. ASSUME NEW s \in Slots, NEW q \in Procs, Has(q, s)'
        PROVE  dinode[inode'[s].inum].type # "FREE" /\ inode'[s].inum \in Inums
    <3>1. ASSUME q # p PROVE Has(q, s)
      BY <2>3, <3>1, OthersStay
    <3>2. ASSUME q = p PROVE Has(p, s) \/ Found(p, inode'[s].inum)
      BY <2>3, <3>2 DEF PointersMove
    <3> QED BY <2>2, <3>1, <3>2 DEF Found
  <2> QED BY <2>1, <2>3 DEF Live
<1>6. Known'
  <2>1. \A q \in Procs \ {p} : Knows(q)'
    BY <1>0, OthersKnow
  <2> QED BY <2>1 DEF Known
<1> QED BY <1>1, <1>2, <1>3, <1>4, <1>5, <1>6 DEF IInv

-----------------------------------------------------------------------------
(* Steps of a call, between its iputs.  T is the table that the step has   *)
(* made before its iget, and g the slot that iget gives it.                *)

SameSlots(T) ==
    T \in Table /\ \A s \in Slots : T[s].ref = inode[s].ref /\ T[s].inum = inode[s].inum
Spares(p, T) ==
    \A s \in Slots, q \in Procs \ {p} :
        Locks(q, s) => T[s].valid = inode[s].valid /\ T[s].nlink = inode[s].nlink
GetsFrom(p, T, g) ==
    \/ g = NoSlot /\ inode' = T
    \/ \E i \in Inums : /\ CanGet(i) /\ Found(p, i)
                        /\ g = SlotOf(i) /\ inode' = Iget(T, i)
Right(T) ==
    \A s \in Slots : Held(s) /\ T[s].valid /\ (\A r \in Procs : ~Leaves(r, s)) =>
        LET d == dinode'[inode[s].inum] IN
        T[s].type = d.type /\ T[s].nlink = d.nlink /\ T[s].type # "FREE"
Adds(p, g) == \A s \in Slots : Own(p, s)' = Own(p, s) + Is(g, s)

LEMMA SlotFacts ==
    ASSUME Typed, NEW i \in Inums, CanGet(i)
    PROVE  /\ SlotOf(i) \in Slots
           /\ \/ Held(SlotOf(i)) /\ inode[SlotOf(i)].inum = i /\ Cached(i) # {}
              \/ /\ inode[SlotOf(i)].ref = 0 /\ Cached(i) = {}
                 /\ \A t \in Slots : Held(t) => inode[t].inum # i
<1>1. Cached(i) \in SUBSET Nat /\ Unused \in SUBSET Nat
  BY ConstantFacts DEF Cached, Unused
<1>2. CASE Cached(i) # {}
  <2>1. SlotOf(i) \in Cached(i)
    BY <1>1, <1>2, LeastNumber DEF SlotOf
  <2> QED BY <1>2, <2>1 DEF Cached, Held
<1>3. CASE Cached(i) = {}
  <2>1. SlotOf(i) \in Unused
    BY <1>1, <1>3, LeastNumber DEF SlotOf, CanGet
  <2>2. \A t \in Slots : Held(t) => inode[t].inum # i
    BY <1>3 DEF Cached, Held
  <2> QED BY <1>3, <2>1, <2>2 DEF Unused
<1> QED BY <1>2, <1>3

LEMMA TableFacts ==
    ASSUME IInv, NEW p \in Procs, NEW T, NEW g, SameSlots(T), Spares(p, T), GetsFrom(p, T, g)
    PROVE  /\ inode' \in Table /\ TableMove(p) /\ g \in Slots \cup {NoSlot}
           /\ \A s \in Slots : /\ inode'[s].ref = inode[s].ref + Is(g, s)
                               /\ Held(s) => /\ inode'[s].inum = inode[s].inum
                                             /\ inode'[s].valid = T[s].valid
                                             /\ inode'[s].type = T[s].type
                                             /\ inode'[s].nlink = T[s].nlink
                               /\ ~Held(s) /\ s # g => ~Held(s)'
                               /\ ~Held(s) /\ s = g => ~inode'[s].valid
           /\ g \in Slots => Found(p, inode'[g].inum)
           /\ g = NoSlot => inode' = T
<1>t. Typed /\ CallsOK /\ Counted /\ Once /\ LocksOK
  BY DEF IInv
<1>0. /\ T \in Table /\ inode \in Table
      /\ \A s \in Slots : T[s].ref = inode[s].ref /\ T[s].inum = inode[s].inum /\ inode[s].ref \in Nat
  BY <1>t DEF Typed, SameSlots, Table
<1>1. ASSUME g = NoSlot, inode' = T
      PROVE  /\ inode' \in Table /\ g \notin Slots
             /\ \A s \in Slots : /\ inode'[s].ref = inode[s].ref + Is(g, s)
                                 /\ inode'[s].inum = inode[s].inum
                                 /\ inode'[s].valid = T[s].valid
                                 /\ inode'[s].type = T[s].type
                                 /\ inode'[s].nlink = T[s].nlink
  <2>1. \A s \in Slots : Is(g, s) = 0
    BY <1>1, ConstantFacts DEF Is
  <2>2. ASSUME NEW s \in Slots
        PROVE  /\ inode'[s].ref = inode[s].ref + Is(g, s)
               /\ inode'[s].inum = inode[s].inum /\ inode'[s].valid = T[s].valid
               /\ inode'[s].type = T[s].type /\ inode'[s].nlink = T[s].nlink
    <3>1. T[s].ref = inode[s].ref /\ T[s].inum = inode[s].inum /\ inode[s].ref \in Nat /\ Is(g, s) = 0
      BY <1>0, <2>1
    <3> QED BY <1>1, <3>1
  <2> QED BY <1>0, <1>1, <2>2, ConstantFacts
<1>2. ASSUME NEW i \in Inums, CanGet(i), Found(p, i), g = SlotOf(i), inode' = Iget(T, i)
      PROVE  /\ inode' \in Table /\ g \in Slots /\ inode'[g].inum = i
             /\ inode'[g].ref = inode[g].ref + 1
             /\ \A s \in Slots : s # g => inode'[s] = T[s]
             /\ \/ /\ Held(g) /\ inode[g].inum = i
                   /\ inode'[g].valid = T[g].valid
                   /\ inode'[g].type = T[g].type
                   /\ inode'[g].nlink = T[g].nlink
                \/ /\ inode[g].ref = 0 /\ ~inode'[g].valid
                   /\ \A t \in Slots : Held(t) => inode[t].inum # i
  <2>1. /\ g \in Slots
        /\ \/ Held(g) /\ inode[g].inum = i /\ Cached(i) # {}
           \/ /\ inode[g].ref = 0 /\ Cached(i) = {}
              /\ \A t \in Slots : Held(t) => inode[t].inum # i
    BY <1>t, <1>2, SlotFacts
  <2>2. CASE Held(g) /\ inode[g].inum = i /\ Cached(i) # {}
    <3>1. inode' = [T EXCEPT ![g].ref = @ + 1]
      BY <1>2, <2>2 DEF Iget
    <3> QED BY <1>0, <2>1, <2>2, <3>1 DEF Table
  <2>3. CASE inode[g].ref = 0 /\ Cached(i) = {} /\ \A t \in Slots : Held(t) => inode[t].inum # i
    <3>1. inode' = [T EXCEPT ![g] = [T[g] EXCEPT !.ref = 1, !.inum = i, !.valid = FALSE]]
      BY <1>2, <2>3 DEF Iget
    <3>2. T[g] \in [ref : Nat, inum : Inums \cup {NoInum}, valid : BOOLEAN, type : Types, nlink : Nat]
      BY <1>0, <2>1 DEF Table
    <3>3. PICK n :
             /\ n \in [ref : Nat, inum : Inums \cup {NoInum}, valid : BOOLEAN, type : Types, nlink : Nat]
             /\ n = [T[g] EXCEPT !.ref = 1, !.inum = i, !.valid = FALSE]
             /\ n.ref = 1 /\ n.inum = i /\ n.valid = FALSE
      <4> DEFINE m == [T[g] EXCEPT !.ref = 1, !.inum = i, !.valid = FALSE]
      <4>1. PICK x : x \in [ref : Nat, inum : Inums \cup {NoInum}, valid : BOOLEAN, type : Types, nlink : Nat]
                     /\ x = T[g]
        BY <3>2
      <4>2. /\ m \in [ref : Nat, inum : Inums \cup {NoInum}, valid : BOOLEAN, type : Types, nlink : Nat]
            /\ m.ref = 1 /\ m.inum = i /\ m.valid = FALSE
        <5>1. m = [x EXCEPT !.ref = 1, !.inum = i, !.valid = FALSE]
          BY <4>1
        <5> HIDE DEF m
        <5> QED BY <4>1, <5>1
      <4> QED BY <4>2
    <3>4. inode' \in Table /\ inode'[g] = n /\ \A s \in Slots : s # g => inode'[s] = T[s]
      BY <1>0, <2>1, <3>1, <3>3 DEF Table
    <3>5. inode'[g].ref = 1 /\ inode'[g].inum = i /\ ~inode'[g].valid /\ inode[g].ref + 1 = 1
      BY <2>3, <3>3, <3>4
    <3> QED BY <2>1, <2>3, <3>4, <3>5
  <2> QED BY <2>1, <2>2, <2>3
<1>3. /\ inode' \in Table /\ g \in Slots \cup {NoSlot}
      /\ \A s \in Slots : /\ inode'[s].ref = inode[s].ref + Is(g, s)
                          /\ Held(s) => /\ inode'[s].inum = inode[s].inum
                                        /\ inode'[s].valid = T[s].valid
                                        /\ inode'[s].type = T[s].type
                                        /\ inode'[s].nlink = T[s].nlink
                          /\ ~Held(s) /\ s # g => ~Held(s)'
                          /\ ~Held(s) /\ s = g => ~inode'[s].valid
      /\ g \in Slots => Found(p, inode'[g].inum)
      /\ g = NoSlot => inode' = T
  <2>1. CASE g = NoSlot /\ inode' = T
    BY <1>0, <1>1, <2>1, ConstantFacts DEF Held
  <2>2. CASE g # NoSlot
    <3>1. PICK i \in Inums : CanGet(i) /\ Found(p, i) /\ g = SlotOf(i) /\ inode' = Iget(T, i)
      BY <2>2 DEF GetsFrom
    <3>2. Is(g, g) = 1 /\ \A s \in Slots : s # g => Is(g, s) = 0
      BY DEF Is
    <3> QED BY <1>0, <1>2, <2>2, <3>1, <3>2 DEF Held
  <2>3. ASSUME g = NoSlot PROVE inode' = T
    BY <1>2, <2>3, ConstantFacts DEF GetsFrom
  <2> QED BY <2>1, <2>2, <2>3
<1>4. TableMove(p)
  <2>1. ASSUME NEW s \in Slots, ~Held(s), Held(s)'
        PROVE  /\ inode'[s].inum \in Inums
               /\ \A t \in Slots : t # s /\ Held(t)' => inode'[t].inum # inode'[s].inum
    <3>1. s = g
      BY <1>3, <2>1
    <3>2. PICK i \in Inums : CanGet(i) /\ Found(p, i) /\ g = SlotOf(i) /\ inode' = Iget(T, i)
      BY <3>1, ConstantFacts DEF GetsFrom
    <3>3. inode'[s].inum = i /\ \A t \in Slots : Held(t) => inode[t].inum # i
      BY <1>2, <2>1, <3>1, <3>2 DEF Held
    <3>4. ASSUME NEW t \in Slots, t # s, Held(t)' PROVE Held(t) /\ inode'[t].inum = inode[t].inum
      BY <1>3, <3>1, <3>4
    <3> QED BY <3>3, <3>4
  <2>2. ASSUME NEW s \in Slots, NEW q \in Procs \ {p}, Locks(q, s)
        PROVE  inode'[s].valid = inode[s].valid /\ inode'[s].nlink = inode[s].nlink
    <3>1. Held(s)
      BY <1>t, <2>2, LocksHeld
    <3> QED BY <1>3, <2>2, <3>1 DEF Spares
  <2> QED BY <1>3, <2>1, <2>2 DEF TableMove
<1> QED BY <1>3, <1>4

LEMMA CallStep ==
    ASSUME IInv, NEW p \in Procs, freeing[p] = "no", freeing' = freeing,
           NEW T, NEW g, SameSlots(T), Spares(p, T), GetsFrom(p, T, g), Right(T), Adds(p, g),
           Others(p), Typed', CallAt(p)', LocksMove(p), DiskMove(p), DiskOK', Knows(p)',
           Filling(p)' => dinode[Fresh(p)'].type = "FREE" \/ (Filling(p) /\ Fresh(p)' = Fresh(p))
    PROVE  IInv'
<1>0. Typed /\ CallsOK /\ Once
  BY DEF IInv
<1>1. /\ TableMove(p) /\ g \in Slots \cup {NoSlot}
      /\ \A s \in Slots : /\ inode'[s].ref = inode[s].ref + Is(g, s)
                          /\ Held(s) => /\ inode'[s].inum = inode[s].inum
                                        /\ inode'[s].valid = T[s].valid
                                        /\ inode'[s].type = T[s].type
                                        /\ inode'[s].nlink = T[s].nlink
                          /\ ~Held(s) /\ s # g => ~Held(s)'
                          /\ ~Held(s) /\ s = g => ~inode'[s].valid
      /\ g \in Slots => Found(p, inode'[g].inum)
  BY TableFacts
<1>2. RefsMove(p)
  <2>1. ASSUME NEW s \in Slots PROVE inode'[s].ref + Own(p, s) = inode[s].ref + Own(p, s)'
    <3>1. inode'[s].ref = inode[s].ref + Is(g, s) /\ Own(p, s)' = Own(p, s) + Is(g, s)
      BY <1>1 DEF Adds
    <3>2. inode[s].ref \in Nat /\ Own(p, s) \in Nat /\ Is(g, s) \in Nat
      BY <1>0, OwnIs DEF Typed, Table, Listed, Is
    <3> QED BY <3>1, <3>2
  <2> QED BY <2>1 DEF RefsMove
<1>3. PointersMove(p)
  <2>1. ASSUME NEW s \in Slots, Own(p, s)' > 0 PROVE Own(p, s) > 0 \/ Found(p, inode'[s].inum)
    <3>1. Own(p, s)' = Own(p, s) + Is(g, s) /\ Own(p, s) \in Nat
      BY <1>0, OwnIs DEF Adds, Listed
    <3>2. ASSUME s # g PROVE Is(g, s) = 0
      BY <3>2 DEF Is
    <3> QED BY <1>1, <2>1, <3>1, <3>2
  <2>2. ASSUME NEW s \in Slots, Has(p, s)' PROVE Own(p, s)' > 0
    BY <2>2, OwnIsAfter DEF Has, Listed
  <2>3. ASSUME NEW s \in Slots, Own(p, s) > 0 PROVE Has(p, s)
    BY <1>0, <2>3, OwnHas
  <2> QED BY <2>1, <2>2, <2>3 DEF PointersMove
<1>4. Agrees'
  <2>1. ASSUME NEW s \in Slots, Held(s)', inode'[s].valid, \A r \in Procs : ~Leaves(r, s)'
        PROVE  /\ inode'[s].type = Disk(s)'.type /\ inode'[s].nlink = Disk(s)'.nlink
               /\ inode'[s].type # "FREE"
    <3>1. Held(s)
      BY <1>1, <2>1
    <3>2. \A r \in Procs : ~Leaves(r, s)
      <4>1. \A r \in Procs \ {p} : ~Leaves(r, s)
        BY <2>1, OthersStay
      <4>2. ~Leaves(p, s)
        BY DEF Leaves
      <4> QED BY <4>1, <4>2
    <3>3. PICK d : d = dinode'[inode[s].inum]
      OBVIOUS
    <3>4. T[s].type = d.type /\ T[s].nlink = d.nlink /\ T[s].type # "FREE"
      BY <1>1, <2>1, <3>1, <3>2, <3>3 DEF Right
    <3>5. Disk(s)' = d
      BY <1>1, <3>1, <3>3 DEF Disk
    <3> QED BY <1>1, <3>1, <3>4, <3>5
  <2> QED BY <2>1 DEF Agrees
<1> QED BY <1>1, <1>2, <1>3, <1>4, StepKeeps

\* The disk stays as it is, and so does the link that p has in hand.
StillPending(p) ==
    pc'[p] \in Linking \cup {"drop"} => pc[p] \in Linking \cup {"drop"} /\ ip'[p] = ip[p]

LEMMA PendingStays ==
    ASSUME IInv, NEW p \in Procs, Others(p), TableMove(p), NEW i, NEW q \in Procs,
           pc'[q] \in Linking \cup {"drop"}, inode'[ip'[q]].inum = i, q = p => StillPending(p)
    PROVE  q \in Pending(i)
<1>1. pc[q] \in Linking \cup {"drop"} /\ ip'[q] = ip[q]
  BY DEF Others, StillPending
<1>2. pc[q] \in WithIp
  BY <1>1 DEF Linking, WithIp
<1>3. ip[q] \in Slots /\ Has(q, ip[q])
  BY <1>2 DEF IInv, Typed, CallsOK, CallAt, Has
<1>4. PICK s \in Slots : s = ip[q] /\ Has(q, s)
  BY <1>3
<1>5. inode'[s].inum = inode[s].inum
  <2>1. Held(s)
    BY <1>4, HasHeld DEF IInv
  <2> QED BY <2>1 DEF TableMove
<1> QED BY <1>1, <1>4, <1>5 DEF Pending

LEMMA LinksLess ==
    ASSUME NEW i \in Inums, NamesOf(i)' \subseteq NamesOf(i), Parents(i)' \subseteq Parents(i),
           Pending(i)' \subseteq Pending(i)
    PROVE  Links(i) \in Nat /\ Links(i)' \in Nat /\ Links(i)' <= Links(i)
<1>1. IsFiniteSet(Inums \X (Names \ {DotDot}))
  BY ConstantFacts, FS_Product, FS_Subset
<1>2. /\ NamesOf(i) \subseteq Inums \X (Names \ {DotDot}) /\ Parents(i) \subseteq Inums
      /\ Pending(i) \subseteq Procs
  BY DEF NamesOf, Parents, Pending
<1>3. IsFiniteSet(NamesOf(i)) /\ IsFiniteSet(Parents(i)) /\ IsFiniteSet(Pending(i))
  BY <1>1, <1>2, ConstantFacts, FS_Subset
<1>4. ASSUME NEW A, NEW B, IsFiniteSet(B), A \subseteq B
      PROVE  Cardinality(A) \in Nat /\ Cardinality(B) \in Nat /\ Cardinality(A) <= Cardinality(B)
  BY <1>4, FS_Subset, FS_CardinalityType
<1>5. PICK a, aa, b, bb, c, cc :
        /\ a = Cardinality(NamesOf(i)) /\ aa = Cardinality(NamesOf(i)')
        /\ b = Cardinality(Parents(i)) /\ bb = Cardinality(Parents(i)')
        /\ c = Cardinality(Pending(i)) /\ cc = Cardinality(Pending(i)')
  OBVIOUS
<1>6. /\ a \in Nat /\ aa \in Nat /\ aa <= a
      /\ b \in Nat /\ bb \in Nat /\ bb <= b
      /\ c \in Nat /\ cc \in Nat /\ cc <= c
  BY <1>3, <1>4, <1>5
<1>7. Links(i) = a + b + Rooted(i) + c /\ Links(i)' = aa + bb + Rooted(i) + cc /\ Rooted(i) \in {0, 1}
  BY <1>5 DEF Links, Rooted
<1> QED BY <1>6, <1>7

LEMMA DiskStays ==
    ASSUME IInv, NEW p \in Procs, Others(p), TableMove(p), StillPending(p), dinode' = dinode
    PROVE  DiskMove(p) /\ DiskOK'
<1>1. DiskMove(p)
  BY DEF DiskMove
<1>2. /\ \A i : NamesOf(i)' = NamesOf(i)
      /\ \A i : Parents(i)' = Parents(i)
  <2>1. \A i : NamesOf(i)' = NamesOf(i)
    BY DEF NamesOf
  <2> QED BY <2>1 DEF Parents
<1>3. \A i \in Inums : OneName(i)' <=> OneName(i)
  BY <1>2 DEF OneName
<1>4. ASSUME NEW i \in Inums PROVE Links(i)' <= dinode'[i].nlink
  <2>1. Pending(i)' \subseteq Pending(i)
    <3>1. ASSUME NEW q \in Pending(i)' PROVE q \in Pending(i)
      <4>1. q \in Procs /\ pc'[q] \in Linking \cup {"drop"} /\ inode'[ip'[q]].inum = i
        BY <3>1 DEF Pending
      <4> QED BY <4>1, PendingStays
    <3> QED BY <3>1
  <2>2. Links(i) \in Nat /\ Links(i)' \in Nat /\ Links(i)' <= Links(i)
    BY <1>2, <2>1, LinksLess
  <2>3. Links(i) <= dinode[i].nlink /\ dinode[i].nlink \in Nat
    BY DEF IInv, DiskOK, Typed, Dinodes
  <2> QED BY <2>2, <2>3
<1>5. DiskOK'
  <2>1. DiskOK
    BY DEF IInv
  <2> QED BY <1>2, <1>3, <1>4, <2>1 DEF DiskOK
<1> QED BY <1>1, <1>5

LEMMA ReadFacts ==
    ASSUME IInv, NEW d \in Slots, Held(d), MayLock(d)
    PROVE  /\ SameSlots(Read(d)) /\ inode[d].inum \in Inums
           /\ \A s \in Slots : s # d => Read(d)[s] = inode[s]
           /\ Read(d)[d].valid /\ Read(d)[d].type = Disk(d).type /\ Read(d)[d].nlink = Disk(d).nlink
           /\ Filled(d).type = Disk(d).type /\ Filled(d).nlink = Disk(d).nlink
           /\ Disk(d).type # "FREE" /\ Disk(d) \in Dinodes
           /\ \A r \in Procs : ~Locks(r, d) /\ ~Leaves(r, d)
<1>0. Typed /\ CallsOK /\ Counted /\ Once /\ LocksOK /\ Agrees
  BY DEF IInv
<1>1. \A r \in Procs : ~Locks(r, d) /\ ~Leaves(r, d)
  <2>1. \A r \in Procs : ~Locks(r, d)
    BY <1>0, ConstantFacts DEF MayLock, LocksOK
  <2> QED BY <2>1 DEF Locks, Leaves
<1>2. inode[d].inum \in Inums /\ Disk(d) \in Dinodes
  BY <1>0 DEF Once, Typed, Disk
<1>3. inode[d].valid =>
         inode[d].type = Disk(d).type /\ inode[d].nlink = Disk(d).nlink /\ inode[d].type # "FREE"
  BY <1>0, <1>1 DEF Agrees
<1>4. ~inode[d].valid => Disk(d).type # "FREE"
  BY DEF MayLock, NoType
<1> DEFINE R == [ref : Nat, inum : Inums \cup {NoInum}, valid : BOOLEAN, type : Types, nlink : Nat]
<1>5. PICK x \in R : x = inode[d]
  BY <1>0 DEF Typed, Table
<1>6. PICK y \in R :
         /\ y = Filled(d) /\ y.ref = x.ref /\ y.inum = x.inum /\ y.valid
         /\ y.type = Disk(d).type /\ y.nlink = Disk(d).nlink
  <2>1. CASE inode[d].valid
    BY <1>3, <1>5, <2>1 DEF Filled
  <2>2. CASE ~inode[d].valid
    <3> DEFINE z == [x EXCEPT !.valid = TRUE, !.type = Disk(d).type, !.nlink = Disk(d).nlink]
    <3>1. Disk(d).type \in Types /\ Disk(d).nlink \in Nat
      BY <1>2 DEF Dinodes
    <3>2. /\ z \in R /\ z.ref = x.ref /\ z.inum = x.inum /\ z.valid = TRUE
          /\ z.type = Disk(d).type /\ z.nlink = Disk(d).nlink
      BY <1>5, <3>1
    <3>3. z = Filled(d)
      BY <1>5, <2>2 DEF Filled
    <3> HIDE DEF z
    <3> QED BY <3>2, <3>3
  <2> QED BY <2>1, <2>2
<1>7. Read(d) = [inode EXCEPT ![d] = y]
  BY <1>6 DEF Read
<1>8. Read(d) \in Table /\ Read(d)[d] = y /\ \A s \in Slots : s # d => Read(d)[s] = inode[s]
  BY <1>0, <1>7 DEF Typed, Table
<1>9. SameSlots(Read(d))
  BY <1>5, <1>6, <1>8 DEF SameSlots
<1> QED BY <1>1, <1>2, <1>3, <1>4, <1>6, <1>8, <1>9

\* What a step that leaves the disk alone may make of the table before its iget.
Viewed(T) == T = inode \/ \E d \in Slots : Held(d) /\ MayLock(d) /\ T = Read(d)

LEMMA ViewedFacts ==
    ASSUME IInv, NEW T, Viewed(T), NEW p \in Procs
    PROVE  SameSlots(T) /\ Spares(p, T) /\ (dinode' = dinode => Right(T))
<1>1. CASE T = inode
  <2>1. SameSlots(T) /\ Spares(p, T)
    BY <1>1 DEF SameSlots, Spares, IInv, Typed
  <2>2. ASSUME dinode' = dinode PROVE Right(T)
    BY <1>1, <2>2 DEF Right, IInv, Agrees, Disk
  <2> QED BY <2>1, <2>2
<1>2. ASSUME NEW d \in Slots, Held(d), MayLock(d), T = Read(d)
      PROVE  SameSlots(T) /\ Spares(p, T) /\ (dinode' = dinode => Right(T))
  <2>1. /\ SameSlots(T) /\ \A s \in Slots : s # d => T[s] = inode[s]
        /\ T[d].type = Disk(d).type /\ T[d].nlink = Disk(d).nlink /\ Disk(d).type # "FREE"
        /\ \A r \in Procs : ~Locks(r, d)
    BY <1>2, ReadFacts
  <2>2. Spares(p, T)
    BY <2>1 DEF Spares
  <2>3. ASSUME dinode' = dinode PROVE Right(T)
    <3>1. ASSUME NEW s \in Slots, Held(s), T[s].valid, \A r \in Procs : ~Leaves(r, s)
          PROVE  T[s].type = Disk(s).type /\ T[s].nlink = Disk(s).nlink /\ T[s].type # "FREE"
      <4>1. CASE s = d
        BY <2>1, <4>1
      <4>2. CASE s # d
        BY <2>1, <3>1, <4>2 DEF IInv, Agrees
      <4> QED BY <4>1, <4>2
    <3> QED BY <2>3, <3>1 DEF Right, Disk
  <2> QED BY <2>1, <2>2, <2>3
<1> QED BY <1>1, <1>2 DEF Viewed

LEMMA QuietStep ==
    ASSUME IInv, NEW p \in Procs, freeing[p] = "no", freeing' = freeing, dinode' = dinode,
           NEW T, NEW g, Viewed(T), GetsFrom(p, T, g), Adds(p, g),
           Others(p), Typed', CallAt(p)', LocksMove(p), StillPending(p), Knows(p)',
           Filling(p)' => Filling(p) /\ Fresh(p)' = Fresh(p)
    PROVE  IInv'
<1>1. SameSlots(T) /\ Spares(p, T) /\ Right(T)
  BY ViewedFacts
<1>2. TableMove(p)
  BY <1>1, TableFacts
<1>3. DiskMove(p) /\ DiskOK'
  BY <1>2, DiskStays
<1> QED BY <1>1, <1>3, CallStep

\* Locks: none before and after the step, one taken, or one left.
LEMMA LocksStay ==
    ASSUME IInv, NEW p \in Procs, lock' = lock, \A s \in Slots : Locks(p, s)' <=> Locks(p, s),
           pc'[p] \in {"fill", "erase"} => ip'[p] # dp'[p]
    PROVE  LocksMove(p)
BY DEF LocksMove, IInv, LocksOK

LEMMA LockTaken ==
    ASSUME IInv, NEW p \in Procs, NEW d \in Slots, lock[d] = Nobody, lock' = [lock EXCEPT ![d] = p],
           \A s \in Slots : ~Locks(p, s), \A s \in Slots : Locks(p, s)' <=> s = d,
           pc'[p] \in {"fill", "erase"} => ip'[p] # dp'[p]
    PROVE  LocksMove(p)
<1>1. \A s \in Slots, q \in Procs : lock[s] = q <=> Locks(q, s)
  BY DEF IInv, LocksOK
<1>2. \A s \in Slots : lock'[s] = IF s = d THEN p ELSE lock[s]
  BY DEF IInv, Typed
<1> QED BY <1>1, <1>2, ConstantFacts DEF LocksMove

LEMMA LockLeft ==
    ASSUME IInv, NEW p \in Procs, NEW d \in Slots, lock' = [lock EXCEPT ![d] = Nobody],
           \A s \in Slots : Locks(p, s) <=> s = d, \A s \in Slots : ~Locks(p, s)',
           pc'[p] \notin {"fill", "erase"}
    PROVE  LocksMove(p)
<1>1. \A s \in Slots, q \in Procs : lock[s] = q <=> Locks(q, s)
  BY DEF IInv, LocksOK
<1>2. \A s \in Slots : lock'[s] = IF s = d THEN Nobody ELSE lock[s]
  BY DEF IInv, Typed
<1>3. lock[d] = p
  BY <1>1
<1> QED BY <1>1, <1>2, <1>3, ConstantFacts DEF LocksMove

-----------------------------------------------------------------------------
(* What a process finds.                                                   *)

\* The numbers that an inode's links are.
LEMMA LinkCounts ==
    ASSUME NEW i \in Inums
    PROVE  /\ IsFiniteSet(NamesOf(i)) /\ IsFiniteSet(Parents(i)) /\ IsFiniteSet(Pending(i))
           /\ Cardinality(NamesOf(i)) \in Nat /\ Cardinality(Parents(i)) \in Nat
           /\ Cardinality(Pending(i)) \in Nat /\ Rooted(i) \in {0, 1} /\ Links(i) \in Nat
           /\ Links(i) = 0 => NamesOf(i) = {} /\ Parents(i) = {} /\ Pending(i) = {} /\ i # Root
<1>1. IsFiniteSet(Inums \X (Names \ {DotDot}))
  BY ConstantFacts, FS_Product, FS_Subset
<1>2. /\ NamesOf(i) \subseteq Inums \X (Names \ {DotDot}) /\ Parents(i) \subseteq Inums
      /\ Pending(i) \subseteq Procs
  BY DEF NamesOf, Parents, Pending
<1>3. IsFiniteSet(NamesOf(i)) /\ IsFiniteSet(Parents(i)) /\ IsFiniteSet(Pending(i))
  BY <1>1, <1>2, ConstantFacts, FS_Subset
<1>4. PICK a, b, c :
         a = Cardinality(NamesOf(i)) /\ b = Cardinality(Parents(i)) /\ c = Cardinality(Pending(i))
  OBVIOUS
<1>5. /\ a \in Nat /\ b \in Nat /\ c \in Nat
      /\ a = 0 => NamesOf(i) = {}
      /\ b = 0 => Parents(i) = {}
      /\ c = 0 => Pending(i) = {}
  BY <1>3, <1>4, FS_CardinalityType, FS_EmptySet
<1>6. Links(i) = a + b + Rooted(i) + c /\ Rooted(i) \in {0, 1} /\ (Rooted(i) = 0 => i # Root)
  BY <1>4 DEF Links, Rooted
<1>7. Links(i) \in Nat /\ (Links(i) = 0 => a = 0 /\ b = 0 /\ Rooted(i) = 0 /\ c = 0)
  BY <1>5, <1>6
<1> QED BY <1>3, <1>4, <1>5, <1>6, <1>7

\* An inode with a link is found.
LEMMA LinkFound ==
    ASSUME IInv, NEW p \in Procs, NEW i \in Inums,
           NamesOf(i) # {} \/ i = Root \/ dinode[i].nlink >= 1
    PROVE  Found(p, i) /\ dinode[i].nlink >= 1
<1>0. Typed /\ CallsOK /\ Counted /\ Once /\ LocksOK /\ Agrees /\ Known /\ DiskOK
  BY DEF IInv
<1>1. dinode[i].nlink >= 1 /\ dinode[i].nlink \in Nat
  <2>1. Links(i) <= dinode[i].nlink /\ dinode[i].nlink \in Nat
    BY <1>0 DEF DiskOK, Typed, Dinodes
  <2>2. NamesOf(i) # {} \/ i = Root => Links(i) >= 1 /\ Links(i) \in Nat
    BY LinkCounts
  <2> QED BY <2>1, <2>2
<1>2. dinode[i].type # "FREE"
  BY <1>0, <1>1 DEF DiskOK, FreeInode
<1>3. ASSUME NEW q \in Procs \ {p}, Filling(q) PROVE Fresh(q) # i
  <2>1. dinode[Fresh(q)] = [FreeInode EXCEPT !.type = NewType(q)]
    BY <1>0, <1>3 DEF Known, Knows, Reserves
  <2> QED BY <1>1, <2>1 DEF FreeInode
<1>4. ASSUME NEW q \in Procs \ {p}, freeing[q] = "trunc" PROVE inode[puts[q][1]].inum # i
  <2>1. PICK s \in Slots : s = puts[q][1]
    BY <1>0, <1>4, ConstantFacts, OwnHas
  <2>2. inode[s].valid /\ inode[s].nlink = 0
    BY <1>0, <1>4, <2>1 DEF Known, Knows, KnowsValid
  <2>3. Held(s)
    BY <1>0, <1>4, <2>1, HasHeld
  <2>4. \A r \in Procs : ~Leaves(r, s)
    <3>1. ASSUME NEW r \in Procs, Leaves(r, s) PROVE FALSE
      <4>1. Locks(q, s) /\ Locks(r, s)
        BY <1>4, <2>1, <3>1 DEF Locks, Leaves
      <4>2. r = q
        BY <1>0, <4>1 DEF LocksOK
      <4> QED BY <1>4, <3>1, <4>2 DEF Leaves
    <3> QED BY <3>1
  <2>5. Disk(s).nlink = 0
    BY <1>0, <2>2, <2>3, <2>4 DEF Agrees
  <2> QED BY <1>1, <2>1, <2>5 DEF Disk
<1> QED BY <1>1, <1>2, <1>3, <1>4 DEF Found

LEMMA NameFound ==
    ASSUME IInv, NEW p \in Procs, NEW d \in Inums, NEW n \in Names \ {DotDot},
           dinode[d].type = "DIR", dinode[d].entries[n] # NoInum
    PROVE  Found(p, dinode[d].entries[n]) /\ <<d, n>> \in NamesOf(dinode[d].entries[n])
<1>1. PICK i \in Inums : i = dinode[d].entries[n]
  BY DEF IInv, Typed, Dinodes
<1>2. <<d, n>> \in NamesOf(i)
  BY <1>1 DEF NamesOf
<1> QED BY <1>1, <1>2, LinkFound

\* What a process has, it may get again.
LEMMA HadFound ==
    ASSUME IInv, NEW p \in Procs, NEW s \in Slots, Has(p, s)
    PROVE  Found(p, inode[s].inum)
<1>0. Typed /\ CallsOK /\ Counted /\ Once /\ Live /\ Known
  BY DEF IInv
<1>1. Held(s) /\ inode[s].inum \in Inums /\ dinode[inode[s].inum].type # "FREE"
  BY <1>0, HasHeld DEF Once, Live, Disk
<1>2. ASSUME NEW q \in Procs \ {p}, Filling(q) PROVE Fresh(q) # inode[s].inum
  BY <1>0, <1>2 DEF Known, Knows, Reserves
<1>3. ASSUME NEW q \in Procs \ {p}, freeing[q] = "trunc", inode[puts[q][1]].inum = inode[s].inum PROVE FALSE
  <2>1. PICK t \in Slots : t = puts[q][1] /\ Has(q, t)
    <3>1. Len(puts[q]) >= 1 /\ puts[q][1] \in Slots
      BY <1>0, <1>3, ConstantFacts, OwnHas
    <3> QED BY <1>3, <3>1 DEF Has
  <2>2. t = s
    BY <1>0, <1>1, <1>3, <2>1, HasHeld DEF Once
  <2>3. inode[s].ref = 1
    BY <1>0, <1>3, <2>1, <2>2 DEF Known, Knows, KnowsValid
  <2>4. Own(p, s) > 0 /\ Own(q, s) > 0
    BY <1>0, <2>1, <2>2, OwnHas
  <2>5. Covers(inode[s].ref, Own(p, s), Own(q, s))
    BY <1>0, HasHeld
  <2> QED BY <2>3, <2>4, <2>5 DEF Covers
<1> QED BY <1>1, <1>2, <1>3 DEF Found

\* namex starts at an inode that is found.
LEMMA FromFound ==
    ASSUME IInv, NEW p \in Procs, NEW c
    PROVE  Found(p, From(c, p))
<1>1. Found(p, Root)
  BY LinkFound, ConstantFacts
<1>2. cwd[p] \in Slots /\ Has(p, cwd[p])
  BY DEF IInv, Typed, Has
<1>3. Found(p, inode[cwd[p]].inum)
  BY <1>2, HadFound
<1> QED BY <1>1, <1>3 DEF From

-----------------------------------------------------------------------------
(* What steps start from and end with.                                     *)

LEMMA ReadyFacts ==
    ASSUME IInv, NEW p \in Procs, puts[p] = <<>>
    PROVE  /\ freeing[p] = "no" /\ pc[p] \in Steps
           /\ ip[p] \in Slots \cup {NoSlot} /\ dp[p] \in Slots \cup {NoSlot}
           /\ pc[p] \in WithIp => ip[p] \in Slots /\ Held(ip[p]) /\ Has(p, ip[p]) /\ ip[p] # NoSlot
           /\ pc[p] \in WithDp => dp[p] \in Slots /\ Held(dp[p]) /\ Has(p, dp[p]) /\ dp[p] # NoSlot
           /\ pc[p] \notin WithIp => ip[p] = NoSlot
           /\ pc[p] \notin WithDp => dp[p] = NoSlot
           /\ pc[p] # "user" => call[p] \in Calls /\ call[p].op # "close" /\ Avoids(call[p].new)
           /\ \A s \in Slots : Locks(p, s) <=> (pc[p] \in DpLocked /\ dp[p] = s)
                                               \/ (pc[p] \in IpLocked /\ ip[p] = s)
           /\ cwd[p] \in Slots /\ file[p] \in Slots \cup {NoSlot}
<1>0. Typed /\ CallsOK /\ Counted /\ CallAt(p)
  BY DEF IInv, CallsOK
<1>1. /\ freeing[p] = "no" /\ ip[p] \in Slots \cup {NoSlot} /\ dp[p] \in Slots \cup {NoSlot}
      /\ pc[p] \in Steps
      /\ pc[p] \in WithIp <=> ip[p] # NoSlot
      /\ pc[p] \in WithDp <=> dp[p] # NoSlot
      /\ pc[p] # "user" => call[p] \in Calls /\ call[p].op # "close" /\ Avoids(call[p].new)
      /\ cwd[p] \in Slots /\ file[p] \in Slots \cup {NoSlot}
  BY <1>0 DEF Typed, CallAt
<1>2. /\ pc[p] \in WithIp => Has(p, ip[p]) /\ ip[p] \in Slots
      /\ pc[p] \in WithDp => Has(p, dp[p]) /\ dp[p] \in Slots
  BY <1>1 DEF Has
<1>3. /\ pc[p] \in WithIp => Held(ip[p])
      /\ pc[p] \in WithDp => Held(dp[p])
  BY <1>0, <1>2, HasHeld
<1> QED BY <1>1, <1>2, <1>3 DEF Locks

\* The pointers after a step, and the one that it adds.
LEMMA AddsIs ==
    ASSUME Typed, Typed', NEW p \in Procs, puts[p] = <<>>, NEW a, NEW b, NEW g,
           \/ puts'[p] = <<>> /\ a = NoSlot /\ b = NoSlot
           \/ puts'[p] = <<a>> /\ b = NoSlot
           \/ puts'[p] = <<a, b>>,
           \A s \in Slots : Total(cwd'[p], file'[p], ip'[p], dp'[p], a, b, s) =
                            Total(cwd[p], file[p], ip[p], dp[p], NoSlot, NoSlot, s) + Is(g, s)
    PROVE  Adds(p, g)
<1>1. ASSUME NEW s \in Slots PROVE Own(p, s)' = Own(p, s) + Is(g, s)
  <2>1. Own(p, s) = Total(cwd[p], file[p], ip[p], dp[p], NoSlot, NoSlot, s)
    BY OwnIs DEF Listed
  <2>2. Listed(Own(p, s)', cwd'[p], file'[p], ip'[p], dp'[p], puts'[p], s)
    BY OwnIsAfter
  <2>3. Own(p, s)' = Total(cwd'[p], file'[p], ip'[p], dp'[p], a, b, s)
    <3>1. CASE puts'[p] = <<>> /\ a = NoSlot /\ b = NoSlot
      BY <2>2, <3>1 DEF Listed
    <3>2. CASE puts'[p] = <<a>> /\ b = NoSlot
      <4>1. Len(puts'[p]) = 1 /\ puts'[p][1] = a
        BY <3>2
      <4> QED BY <2>2, <3>2, <4>1 DEF Listed
    <3>3. CASE puts'[p] = <<a, b>>
      <4>1. Len(puts'[p]) = 2 /\ puts'[p][1] = a /\ puts'[p][2] = b
        BY <3>3
      <4> QED BY <2>2, <4>1 DEF Listed
    <3> QED BY <3>1, <3>2, <3>3
  <2> QED BY <2>1, <2>3
<1> QED BY <1>1 DEF Adds

Resting == {"user", "walk", "open", "chdir", "exists", "link"}

LEMMA RestFacts ==
    ASSUME NEW p \in Procs, freeing'[p] = "no",
           pc'[p] \in Resting \/ (pc'[p] \in {"walknew", "unlinkold"} /\ Disk(ip[p])'.type = "FILE")
    PROVE  /\ Knows(p)' /\ ~Filling(p)' /\ \A s \in Slots : ~Locks(p, s)'
           /\ pc'[p] \notin {"fill", "erase"}
           /\ pc'[p] \in Resting => StillPending(p)
<1>1. KnowsValid(p)'
  BY DEF KnowsValid, Resting, DpLocked, IpLocked
<1>2. KnowsKinds(p)'
  BY DEF KnowsKinds, Resting, WithDp, Linking
<1>3. KnowsEntry(p)' /\ ~Filling(p)' /\ Reserves(p)'
  BY DEF KnowsEntry, Filling, Reserves, Resting
<1>4. \A s \in Slots : ~Locks(p, s)'
  BY DEF Locks, Resting, DpLocked, IpLocked
<1>5. pc'[p] \in Resting => StillPending(p)
  BY DEF StillPending, Resting, Linking
<1> QED BY <1>1, <1>2, <1>3, <1>4, <1>5 DEF Knows, Resting

\* The pointers that a process has after a step, and how they come from those before.
Now(p, c, f, i, d, u) ==
    cwd'[p] = c /\ file'[p] = f /\ ip'[p] = i /\ dp'[p] = d /\ puts'[p] = u
Passes(p, g) ==
    LET c == cwd[p]
        f == file[p]
        i == ip[p]
        d == dp[p]
        none == NoSlot
    IN
    \/ g = none /\ Now(p, c, f, i, d, <<>>)
    \/ g = none /\ Now(p, c, f, i, none, <<d>>)
    \/ g = none /\ Now(p, c, f, none, d, <<i>>)
    \/ g = none /\ Now(p, c, f, none, none, <<d, i>>)
    \/ g = none /\ i = none /\ Now(p, c, f, d, none, <<>>)
    \/ g = none /\ f = none /\ Now(p, c, i, none, d, <<>>)
    \/ g = none /\ Now(p, c, none, i, d, <<f>>)
    \/ g = none /\ Now(p, i, f, none, d, <<c>>)
    \/ d = none /\ Now(p, c, f, i, g, <<>>)
    \/ Now(p, c, f, i, g, <<d>>)
    \/ i = none /\ Now(p, c, f, g, d, <<>>)
    \/ i = none /\ Now(p, c, f, g, none, <<d>>)
    \/ Now(p, c, f, i, d, <<g>>)

LEMMA PassesFew ==
    ASSUME NEW p \in Procs, NEW g, Passes(p, g)
    PROVE  /\ Len(puts'[p]) <= 2
           /\ Len(puts'[p]) = 2 => ip'[p] = NoSlot /\ dp'[p] = NoSlot
<1>1. \A u : Len(<<>>) = 0 /\ Len(<<u>>) = 1
  OBVIOUS
<1>2. \A u, v : Len(<<u, v>>) = 2
  OBVIOUS
<1>3. \/ puts'[p] = <<>> \/ puts'[p] = <<cwd[p]>> \/ puts'[p] = <<file[p]>>
      \/ puts'[p] = <<ip[p]>> \/ puts'[p] = <<dp[p]>> \/ puts'[p] = <<g>>
      \/ puts'[p] = <<dp[p], ip[p]>> /\ ip'[p] = NoSlot /\ dp'[p] = NoSlot
  BY DEF Passes, Now
<1>4. \/ Len(puts'[p]) = 0 \/ Len(puts'[p]) = 1
      \/ Len(puts'[p]) = 2 /\ ip'[p] = NoSlot /\ dp'[p] = NoSlot
  BY <1>1, <1>2, <1>3
<1>5. Len(puts'[p]) \in {0, 1, 2}
  BY <1>4
<1>6. \A n \in {0, 1, 2} : n <= 2
  OBVIOUS
<1>7. Len(puts'[p]) <= 2
  BY <1>5, <1>6
<1>8. Len(puts'[p]) = 2 => ip'[p] = NoSlot /\ dp'[p] = NoSlot
  BY <1>4
<1> QED BY <1>7, <1>8

LEMMA Passed ==
    ASSUME Typed, Typed', NEW p \in Procs, puts[p] = <<>>, NEW g, Passes(p, g)
    PROVE  Adds(p, g)
<1>1. PICK c, f, i, d : c = cwd[p] /\ f = file[p] /\ i = ip[p] /\ d = dp[p]
  OBVIOUS
<1> DEFINE x == NoSlot
           Gains(cc, ff, ii, dd, a, b) ==
              \A s \in Slots : Total(cc, ff, ii, dd, a, b, s) = Total(c, f, i, d, x, x, s) + Is(g, s)
<1>2. ASSUME NEW cc, NEW ff, NEW ii, NEW dd, NEW a, NEW b, Gains(cc, ff, ii, dd, a, b),
             \/ puts'[p] = <<>> /\ a = x /\ b = x
             \/ puts'[p] = <<a>> /\ b = x
             \/ puts'[p] = <<a, b>>,
             cwd'[p] = cc /\ file'[p] = ff /\ ip'[p] = ii /\ dp'[p] = dd
      PROVE  Adds(p, g)
  <2>1. \/ puts'[p] = <<>> /\ a = NoSlot /\ b = NoSlot
        \/ puts'[p] = <<a>> /\ b = NoSlot
        \/ puts'[p] = <<a, b>>
    BY <1>2
  <2>2. \A s \in Slots : Total(cwd'[p], file'[p], ip'[p], dp'[p], a, b, s) =
                         Total(cwd[p], file[p], ip[p], dp[p], NoSlot, NoSlot, s) + Is(g, s)
    BY <1>1, <1>2
  <2> QED BY <2>1, <2>2, AddsIs
<1> HIDE DEF Gains
<1>3. \A cc, ff, ii, dd : Now(p, cc, ff, ii, dd, <<>>) /\ Gains(cc, ff, ii, dd, x, x) => Adds(p, g)
  BY <1>2 DEF Now
<1>4. \A cc, ff, ii, dd, a : Now(p, cc, ff, ii, dd, <<a>>) /\ Gains(cc, ff, ii, dd, a, x) => Adds(p, g)
  BY <1>2 DEF Now
<1>5. \A cc, ff, ii, dd, a, b : Now(p, cc, ff, ii, dd, <<a, b>>) /\ Gains(cc, ff, ii, dd, a, b) => Adds(p, g)
  BY <1>2 DEF Now
<1>6. /\ g = x => Gains(c, f, i, d, x, x) /\ Gains(c, f, i, x, d, x) /\ Gains(c, f, x, d, i, x)
                  /\ Gains(c, f, x, x, d, i) /\ Gains(c, x, i, d, f, x) /\ Gains(i, f, x, d, c, x)
      /\ g = x /\ i = x => Gains(c, f, d, x, x, x)
      /\ g = x /\ f = x => Gains(c, i, x, d, x, x)
      /\ d = x => Gains(c, f, i, g, x, x)
      /\ Gains(c, f, i, g, d, x) /\ Gains(c, f, i, d, g, x)
      /\ i = x => Gains(c, f, g, d, x, x) /\ Gains(c, f, g, x, d, x)
  <2> SUFFICES ASSUME NEW s \in Slots
               PROVE  LET t == Total(c, f, i, d, x, x, s) + Is(g, s) IN
                      /\ g = x => /\ Total(c, f, i, d, x, x, s) = t /\ Total(c, f, i, x, d, x, s) = t
                                  /\ Total(c, f, x, d, i, x, s) = t /\ Total(c, f, x, x, d, i, s) = t
                                  /\ Total(c, x, i, d, f, x, s) = t /\ Total(i, f, x, d, c, x, s) = t
                      /\ g = x /\ i = x => Total(c, f, d, x, x, x, s) = t
                      /\ g = x /\ f = x => Total(c, i, x, d, x, x, s) = t
                      /\ d = x => Total(c, f, i, g, x, x, s) = t
                      /\ Total(c, f, i, g, d, x, s) = t /\ Total(c, f, i, d, g, x, s) = t
                      /\ i = x => Total(c, f, g, d, x, x, s) = t /\ Total(c, f, g, x, d, x, s) = t
    BY DEF Gains
  <2>1. \A y : Is(y, s) \in {0, 1}
    BY DEF Is
  <2>2. PICK x1 \in {0, 1}, x2 \in {0, 1}, x3 \in {0, 1}, x4 \in {0, 1}, x5 \in {0, 1} :
          /\ x1 = Is(c, s) /\ x2 = Is(f, s) /\ x3 = Is(i, s) /\ x4 = Is(d, s) /\ x5 = Is(g, s)
    BY <2>1
  <2>3. Is(x, s) = 0
    BY ConstantFacts DEF Is
  <2> QED BY <2>2, <2>3 DEF Total
<1> QED BY <1>1, <1>3, <1>4, <1>5, <1>6 DEF Passes

\* All but the table has its type.
Rest ==
    /\ dinode \in [Inums -> Dinodes]
    /\ lock \in [Slots -> Procs \cup {Nobody}]
    /\ cwd \in [Procs -> Slots] /\ file \in [Procs -> Slots \cup {NoSlot}]
    /\ pc \in [Procs -> Steps] /\ call \in [Procs -> Calls \cup {NoCall}]
    /\ ip \in [Procs -> Slots \cup {NoSlot}] /\ dp \in [Procs -> Slots \cup {NoSlot}]
    /\ path \in [Procs -> Seq(Names)] /\ puts \in [Procs -> Seq(Slots)]
    /\ freeing \in [Procs -> {"no", "trunc", "unlock", "drop"}]
    /\ load \in Loads
    /\ \A p \in Procs : \A c \in load.calls[p] : Avoids(c.path) /\ Avoids(c.new)

\* The other processes stay where they are, and the types are right.
Frame(p) == Others(p) /\ Rest'

\* A step that leaves the disk alone.
LEMMA QuietCall ==
    ASSUME IInv, NEW p \in Procs, puts[p] = <<>>, freeing' = freeing, dinode' = dinode,
           NEW T, NEW g, Viewed(T), GetsFrom(p, T, g), Passes(p, g),
           Frame(p), CallAt(p)', LocksMove(p), StillPending(p), Knows(p)',
           Filling(p)' => Filling(p) /\ Fresh(p)' = Fresh(p)
    PROVE  IInv'
<1>1. SameSlots(T) /\ Spares(p, T)
  BY ViewedFacts
<1>2. Typed'
  <2>1. inode' \in Table
    BY <1>1, TableFacts
  <2> QED BY <2>1 DEF Typed, Rest, Frame
<1>3. Adds(p, g) /\ Others(p)
  BY <1>2, Passed DEF IInv, Frame
<1> QED BY <1>2, <1>3, ReadyFacts, QuietStep

\* The locks that a process leaves when its call returns.
Unlocks(p) ==
    \/ pc[p] \notin DpLocked \cup IpLocked /\ lock' = lock
    \/ pc[p] \in DpLocked /\ lock' = [lock EXCEPT ![dp[p]] = Nobody]
    \/ pc[p] \in IpLocked /\ lock' = [lock EXCEPT ![ip[p]] = Nobody]

LEMMA Unlocked ==
    ASSUME IInv, NEW p \in Procs, puts[p] = <<>>, Unlocks(p), \A s \in Slots : ~Locks(p, s)',
           pc'[p] \notin {"fill", "erase"}
    PROVE  LocksMove(p)
<1>1. CASE pc[p] \notin DpLocked \cup IpLocked
  <2>1. lock' = lock
    BY <1>1 DEF Unlocks
  <2>2. \A s \in Slots : ~Locks(p, s)
    BY <1>1, ReadyFacts
  <2> QED BY <2>1, <2>2, LocksStay
<1>2. CASE pc[p] \in DpLocked
  <2>1. PICK d \in Slots : d = dp[p]
    BY <1>2, ReadyFacts DEF DpLocked, WithDp
  <2>2. lock' = [lock EXCEPT ![d] = Nobody]
    BY <1>2, <2>1 DEF Unlocks, DpLocked, IpLocked
  <2>3. \A s \in Slots : Locks(p, s) <=> s = d
    BY <1>2, <2>1, ReadyFacts DEF DpLocked, IpLocked
  <2> QED BY <2>2, <2>3, LockLeft
<1>3. CASE pc[p] \in IpLocked
  <2>1. PICK i \in Slots : i = ip[p]
    BY <1>3, ReadyFacts DEF IpLocked, WithIp
  <2>2. lock' = [lock EXCEPT ![i] = Nobody]
    BY <1>3, <2>1 DEF Unlocks, DpLocked, IpLocked
  <2>3. \A s \in Slots : Locks(p, s) <=> s = i
    BY <1>3, <2>1, ReadyFacts DEF DpLocked, IpLocked
  <2> QED BY <2>2, <2>3, LockLeft
<1> QED BY <1>1, <1>2, <1>3

LEMMA Returned ==
    ASSUME IInv, NEW p \in Procs, puts[p] = <<>>, freeing' = freeing, Rest', pc'[p] = "user",
           ip'[p] = NoSlot, dp'[p] = NoSlot, Len(puts'[p]) <= 2, Unlocks(p)
    PROVE  CallAt(p)' /\ LocksMove(p) /\ StillPending(p) /\ Knows(p)' /\ ~Filling(p)'
<1>1. freeing'[p] = "no"
  BY ReadyFacts
<1>2. CallAt(p)'
  BY <1>1 DEF CallAt, WithIp, WithDp, Named
<1>3. /\ Knows(p)' /\ ~Filling(p)' /\ StillPending(p) /\ pc'[p] \notin {"fill", "erase"}
      /\ \A s \in Slots : ~Locks(p, s)'
  BY <1>1, RestFacts DEF Resting
<1> QED BY <1>2, <1>3, Unlocked

LEMMA ReturnStep ==
    ASSUME IInv, NEW p \in Procs, puts[p] = <<>>, freeing' = freeing, dinode' = dinode,
           Viewed(inode'), Passes(p, NoSlot), Frame(p), pc'[p] = "user",
           ip'[p] = NoSlot, dp'[p] = NoSlot, Unlocks(p)
    PROVE  IInv'
<1>1. PICK T : T = inode'
  OBVIOUS
<1>2. Viewed(T) /\ GetsFrom(p, T, NoSlot)
  BY <1>1 DEF GetsFrom
<1>3. Others(p) /\ Rest' /\ Len(puts'[p]) <= 2
  BY PassesFew DEF Frame
<1> QED BY <1>2, <1>3, Returned, QuietCall

-----------------------------------------------------------------------------
(* The steps that leave the disk alone.                                    *)

\* Everything that a call keeps is as it was, for the other processes.
Keeps(p) ==
    /\ cwd' \in [Procs -> Slots] /\ file' \in [Procs -> Slots \cup {NoSlot}]
    /\ dinode' \in [Inums -> Dinodes] /\ lock' \in [Slots -> Procs \cup {Nobody}]
    /\ load' \in Loads /\ load'.calls = load.calls /\ freeing' = freeing
    /\ \A q \in Procs \ {p} : cwd'[q] = cwd[q] /\ file'[q] = file[q]

Returns(p) ==
    /\ Goto(p, "user") /\ Points(p, NoSlot, NoSlot)
    /\ path' = [path EXCEPT ![p] = <<>>] /\ call' = call
    /\ puts' \in [Procs -> Seq(Slots)] /\ \A q \in Procs \ {p} : puts'[q] = puts[q]

LEMMA ReturnFrame ==
    ASSUME Typed, NEW p \in Procs, Keeps(p), Returns(p)
    PROVE  Frame(p) /\ pc'[p] = "user" /\ ip'[p] = NoSlot /\ dp'[p] = NoSlot /\ path'[p] = <<>>
<1>2. /\ pc' = [pc EXCEPT ![p] = "user"] /\ ip' = [ip EXCEPT ![p] = NoSlot]
      /\ dp' = [dp EXCEPT ![p] = NoSlot] /\ puts' \in [Procs -> Seq(Slots)]
      /\ path' = [path EXCEPT ![p] = <<>>] /\ call' = call
      /\ \A q \in Procs \ {p} : puts'[q] = puts[q]
  BY DEF Returns, Goto, Points
<1>3. Others(p)
  BY <1>2 DEF Others, Typed, Keeps
<1>4. /\ pc' \in [Procs -> Steps] /\ ip' \in [Procs -> Slots \cup {NoSlot}]
      /\ dp' \in [Procs -> Slots \cup {NoSlot}] /\ puts' \in [Procs -> Seq(Slots)]
      /\ path' \in [Procs -> Seq(Names)] /\ call' \in [Procs -> Calls \cup {NoCall}]
  BY <1>2 DEF Typed, Steps
<1>5. Rest'
  BY <1>4 DEF Rest, Keeps, Typed
<1>6. pc'[p] = "user" /\ ip'[p] = NoSlot /\ dp'[p] = NoSlot /\ path'[p] = <<>>
  BY <1>2 DEF Typed
<1> QED BY <1>3, <1>5, <1>6 DEF Frame

LEMMA OpenStep ==
    ASSUME IInv, NEW p \in Procs, Open(p)
    PROVE  IInv'
<1>0. Typed
  BY DEF IInv
<1>1. /\ puts[p] = <<>> /\ pc[p] = "open" /\ MayLock(ip[p]) /\ inode' = Read(ip[p])
      /\ dinode' = dinode /\ lock' = lock /\ cwd' = cwd /\ freeing' = freeing /\ load' = load
  BY DEF Open, Ready, disk
<1>2. ip[p] \in Slots /\ Held(ip[p]) /\ dp[p] = NoSlot
  BY <1>1, ReadyFacts DEF WithIp, WithDp
<1>3. Viewed(inode') /\ Unlocks(p)
  BY <1>1, <1>2 DEF Viewed, Unlocks, DpLocked, IpLocked
<1>4. CASE file[p] = NoSlot /\ file' = [file EXCEPT ![p] = ip[p]] /\ Return(p, <<>>)
  <2>1. Keeps(p) /\ Returns(p)
    BY <1>0, <1>1, <1>2, <1>4 DEF Keeps, Returns, Return, Put, Typed
  <2>2. Now(p, cwd[p], ip[p], NoSlot, dp[p], <<>>)
    BY <1>0, <1>1, <1>2, <1>4 DEF Return, Goto, Points, Put, Typed, Now
  <2>3. Passes(p, NoSlot)
    BY <1>4, <2>2 DEF Passes
  <2> QED BY <1>0, <1>1, <1>2, <1>3, <2>1, <2>2, <2>3, ReturnFrame, ReturnStep DEF Now
<1>5. CASE Return(p, <<ip[p]>>) /\ file' = file
  <2>1. Keeps(p) /\ Returns(p)
    BY <1>0, <1>1, <1>2, <1>5 DEF Keeps, Returns, Return, Put, Typed
  <2>2. Now(p, cwd[p], file[p], NoSlot, dp[p], <<ip[p]>>)
    BY <1>0, <1>1, <1>2, <1>5 DEF Return, Goto, Points, Put, Typed, Now
  <2>3. Passes(p, NoSlot)
    BY <1>5, <2>2 DEF Passes
  <2> QED BY <1>0, <1>1, <1>2, <1>3, <2>1, <2>2, <2>3, ReturnFrame, ReturnStep DEF Now
<1> QED BY <1>4, <1>5 DEF Open

LEMMA ChdirStep ==
    ASSUME IInv, NEW p \in Procs, Chdir(p)
    PROVE  IInv'
<1>0. Typed
  BY DEF IInv
<1>1. /\ puts[p] = <<>> /\ pc[p] = "chdir" /\ MayLock(ip[p]) /\ inode' = Read(ip[p])
      /\ dinode' = dinode /\ lock' = lock /\ file' = file /\ freeing' = freeing /\ load' = load
  BY DEF Chdir, Ready, disk
<1>2. ip[p] \in Slots /\ Held(ip[p]) /\ dp[p] = NoSlot
  BY <1>1, ReadyFacts DEF WithIp, WithDp
<1>3. Viewed(inode') /\ Unlocks(p)
  BY <1>1, <1>2 DEF Viewed, Unlocks, DpLocked, IpLocked
<1>4. CASE cwd' = [cwd EXCEPT ![p] = ip[p]] /\ Return(p, <<cwd[p]>>)
  <2>1. Keeps(p) /\ Returns(p)
    BY <1>0, <1>1, <1>2, <1>4 DEF Keeps, Returns, Return, Put, Typed
  <2>2. Now(p, ip[p], file[p], NoSlot, dp[p], <<cwd[p]>>)
    BY <1>0, <1>1, <1>2, <1>4 DEF Return, Goto, Points, Put, Typed, Now
  <2>3. Passes(p, NoSlot)
    BY <2>2 DEF Passes
  <2> QED BY <1>0, <1>1, <1>2, <1>3, <2>1, <2>2, <2>3, ReturnFrame, ReturnStep DEF Now
<1>5. CASE Return(p, <<ip[p]>>) /\ cwd' = cwd
  <2>1. Keeps(p) /\ Returns(p)
    BY <1>0, <1>1, <1>2, <1>5 DEF Keeps, Returns, Return, Put, Typed
  <2>2. Now(p, cwd[p], file[p], NoSlot, dp[p], <<ip[p]>>)
    BY <1>0, <1>1, <1>2, <1>5 DEF Return, Goto, Points, Put, Typed, Now
  <2>3. Passes(p, NoSlot)
    BY <2>2 DEF Passes
  <2> QED BY <1>0, <1>1, <1>2, <1>3, <2>1, <2>2, <2>3, ReturnFrame, ReturnStep DEF Now
<1> QED BY <1>4, <1>5 DEF Chdir

\* A call made and a block used are counted in the load.
LEMMA LoadCounts ==
    ASSUME Typed, NEW p \in Procs,
           \/ load.left[p] > 0 /\ load' = [load EXCEPT !.left[p] = @ - 1]
           \/ load.full > 0 /\ load' = [load EXCEPT !.full = @ - 1]
    PROVE  load' \in Loads /\ load'.calls = load.calls
<1>1. PICK x \in Loads : x = load
  BY DEF Typed
<1>2. x.left \in [Procs -> Nat] /\ x.left[p] \in Nat /\ x.full \in Nat
  BY <1>1 DEF Loads
<1>3. ASSUME x.left[p] > 0, load' = [x EXCEPT !.left[p] = @ - 1]
      PROVE  load' \in Loads /\ load'.calls = x.calls
  <2>1. x.left[p] - 1 \in Nat
    BY <1>2, <1>3
  <2>2. PICK n \in Nat : n = x.left[p] - 1
    BY <2>1
  <2>3. PICK l : l = [x.left EXCEPT ![p] = n]
    OBVIOUS
  <2>4. l \in [Procs -> Nat]
    BY <1>2, <2>2, <2>3
  <2>5. load' = [x EXCEPT !.left = l]
    BY <1>3, <2>2, <2>3
  <2> QED BY <2>4, <2>5 DEF Loads
<1>4. ASSUME x.full > 0, load' = [x EXCEPT !.full = @ - 1]
      PROVE  load' \in Loads /\ load'.calls = x.calls
  <2>1. PICK n \in Nat : n = x.full - 1
    BY <1>2, <1>4
  <2>2. load' = [x EXCEPT !.full = n]
    BY <1>4, <2>1
  <2> QED BY <2>2 DEF Loads
<1> QED BY <1>1, <1>3, <1>4

LEMMA CloseStep ==
    ASSUME IInv, NEW p \in Procs, Close(p)
    PROVE  IInv'
<1>0. Typed
  BY DEF IInv
<1>1. /\ puts[p] = <<>> /\ pc[p] = "user" /\ file[p] # NoSlot /\ load.left[p] > 0
      /\ file' = [file EXCEPT ![p] = NoSlot] /\ puts' = [puts EXCEPT ![p] = <<file[p]>>]
      /\ load' = [load EXCEPT !.left[p] = @ - 1]
      /\ dinode' = dinode /\ lock' = lock /\ inode' = inode /\ pc' = pc /\ call' = call
      /\ ip' = ip /\ dp' = dp /\ path' = path /\ cwd' = cwd /\ freeing' = freeing
  BY DEF Close, Ready, disk, memory, local, Put
<1>2. ip[p] = NoSlot /\ dp[p] = NoSlot /\ file[p] \in Slots
  BY <1>1, ReadyFacts DEF WithIp, WithDp
<1>3. Viewed(inode') /\ Unlocks(p)
  BY <1>1, <1>2 DEF Viewed, Unlocks, DpLocked, IpLocked
<1>4. load' \in Loads /\ load'.calls = load.calls
  BY <1>0, <1>1, LoadCounts
<1>5. Frame(p)
  BY <1>0, <1>1, <1>2, <1>4 DEF Frame, Others, Rest, Typed
<1>6. pc'[p] = "user" /\ Now(p, cwd[p], NoSlot, ip[p], dp[p], <<file[p]>>)
  BY <1>0, <1>1, <1>2 DEF Typed, Now
<1>7. Passes(p, NoSlot)
  BY <1>6 DEF Passes
<1> QED BY <1>0, <1>1, <1>2, <1>3, <1>5, <1>6, <1>7, ReturnStep DEF Now

LEMMA ExistsStep ==
    ASSUME IInv, NEW p \in Procs, Exists(p)
    PROVE  IInv'
<1>0. Typed
  BY DEF IInv
<1>1. /\ puts[p] = <<>> /\ pc[p] = "exists" /\ MayLock(ip[p]) /\ inode' = Read(ip[p])
      /\ dinode' = dinode /\ lock' = lock /\ cwd' = cwd /\ freeing' = freeing /\ load' = load
  BY DEF Exists, Ready, disk
<1>2. ip[p] \in Slots /\ Held(ip[p]) /\ dp[p] = NoSlot
  BY <1>1, ReadyFacts DEF WithIp, WithDp
<1>3. Viewed(inode') /\ Unlocks(p)
  BY <1>1, <1>2 DEF Viewed, Unlocks, DpLocked, IpLocked
<1>4. CASE file[p] = NoSlot /\ file' = [file EXCEPT ![p] = ip[p]] /\ Return(p, <<>>)
  <2>1. Keeps(p) /\ Returns(p)
    BY <1>0, <1>1, <1>2, <1>4 DEF Keeps, Returns, Return, Put, Typed
  <2>2. Now(p, cwd[p], ip[p], NoSlot, dp[p], <<>>)
    BY <1>0, <1>1, <1>2, <1>4 DEF Return, Goto, Points, Put, Typed, Now
  <2>3. Passes(p, NoSlot)
    BY <1>4, <2>2 DEF Passes
  <2> QED BY <1>0, <1>1, <1>2, <1>3, <2>1, <2>2, <2>3, ReturnFrame, ReturnStep DEF Now
<1>5. CASE Return(p, <<ip[p]>>) /\ file' = file
  <2>1. Keeps(p) /\ Returns(p)
    BY <1>0, <1>1, <1>2, <1>5 DEF Keeps, Returns, Return, Put, Typed
  <2>2. Now(p, cwd[p], file[p], NoSlot, dp[p], <<ip[p]>>)
    BY <1>0, <1>1, <1>2, <1>5 DEF Return, Goto, Points, Put, Typed, Now
  <2>3. Passes(p, NoSlot)
    BY <1>5, <2>2 DEF Passes
  <2> QED BY <1>0, <1>1, <1>2, <1>3, <2>1, <2>2, <2>3, ReturnFrame, ReturnStep DEF Now
<1> QED BY <1>4, <1>5 DEF Exists

LEMMA CreatedStep ==
    ASSUME IInv, NEW p \in Procs, Created(p)
    PROVE  IInv'
<1>0. Typed
  BY DEF IInv
<1>1. /\ puts[p] = <<>> /\ pc[p] = "filled" /\ lock' = [lock EXCEPT ![ip[p]] = Nobody]
      /\ inode' = inode /\ dinode' = dinode /\ cwd' = cwd /\ freeing' = freeing /\ load' = load
  BY DEF Created, Ready, disk
<1>2. ip[p] \in Slots /\ Held(ip[p]) /\ dp[p] = NoSlot
  BY <1>1, ReadyFacts DEF WithIp, WithDp
<1>3. Viewed(inode') /\ Unlocks(p)
  BY <1>1, <1>2 DEF Viewed, Unlocks, DpLocked, IpLocked
<1>4. CASE file[p] = NoSlot /\ file' = [file EXCEPT ![p] = ip[p]] /\ Return(p, <<>>)
  <2>1. Keeps(p) /\ Returns(p)
    BY <1>0, <1>1, <1>2, <1>4 DEF Keeps, Returns, Return, Put, Typed
  <2>2. Now(p, cwd[p], ip[p], NoSlot, dp[p], <<>>)
    BY <1>0, <1>1, <1>2, <1>4 DEF Return, Goto, Points, Put, Typed, Now
  <2>3. Passes(p, NoSlot)
    BY <1>4, <2>2 DEF Passes
  <2> QED BY <1>0, <1>1, <1>2, <1>3, <2>1, <2>2, <2>3, ReturnFrame, ReturnStep DEF Now
<1>5. CASE Return(p, <<ip[p]>>) /\ file' = file
  <2>1. Keeps(p) /\ Returns(p)
    BY <1>0, <1>1, <1>2, <1>5 DEF Keeps, Returns, Return, Put, Typed
  <2>2. Now(p, cwd[p], file[p], NoSlot, dp[p], <<ip[p]>>)
    BY <1>0, <1>1, <1>2, <1>5 DEF Return, Goto, Points, Put, Typed, Now
  <2>3. Passes(p, NoSlot)
    BY <1>5, <2>2 DEF Passes
  <2> QED BY <1>0, <1>1, <1>2, <1>3, <2>1, <2>2, <2>3, ReturnFrame, ReturnStep DEF Now
<1> QED BY <1>4, <1>5 DEF Created

LEMMA UndoStep ==
    ASSUME IInv, NEW p \in Procs, Undo(p)
    PROVE  IInv'
<1>0. Typed
  BY DEF IInv
<1>1. /\ puts[p] = <<>> /\ pc[p] = "undo" /\ lock' = [lock EXCEPT ![dp[p]] = Nobody]
      /\ inode' = inode /\ dinode' = dinode /\ cwd' = cwd /\ freeing' = freeing /\ load' = load
      /\ file' = file /\ Return(p, <<dp[p]>>)
  BY DEF Undo, Ready, disk
<1>2. dp[p] \in Slots /\ Held(dp[p]) /\ ip[p] = NoSlot
  BY <1>1, ReadyFacts DEF WithIp, WithDp
<1>3. Viewed(inode') /\ Unlocks(p)
  BY <1>1, <1>2 DEF Viewed, Unlocks, DpLocked, IpLocked
<1>4. Keeps(p) /\ Returns(p)
  BY <1>0, <1>1, <1>2 DEF Keeps, Returns, Return, Put, Typed
<1>5. Now(p, cwd[p], file[p], ip[p], NoSlot, <<dp[p]>>)
  BY <1>0, <1>1, <1>2 DEF Return, Goto, Points, Put, Typed, Now
<1>6. Passes(p, NoSlot)
  BY <1>5 DEF Passes
<1> QED BY <1>0, <1>1, <1>2, <1>3, <1>4, <1>5, <1>6, ReturnFrame, ReturnStep DEF Now

\* ialloc has come to the last inode of the disk.
LEMMA IallocNone ==
    ASSUME IInv, NEW p \in Procs, Ready(p, "ialloc"), lock' = [lock EXCEPT ![dp[p]] = Nobody],
           Return(p, <<dp[p]>>), UNCHANGED <<disk, inode, cwd, file, freeing, load>>
    PROVE  IInv'
<1>0. Typed
  BY DEF IInv
<1>1. /\ puts[p] = <<>> /\ pc[p] = "ialloc" /\ lock' = [lock EXCEPT ![dp[p]] = Nobody]
      /\ inode' = inode /\ dinode' = dinode /\ cwd' = cwd /\ freeing' = freeing /\ load' = load
      /\ file' = file /\ Return(p, <<dp[p]>>)
  BY DEF Ready, disk
<1>2. dp[p] \in Slots /\ Held(dp[p]) /\ ip[p] = NoSlot
  BY <1>1, ReadyFacts DEF WithIp, WithDp
<1>3. Viewed(inode') /\ Unlocks(p)
  BY <1>1, <1>2 DEF Viewed, Unlocks, DpLocked, IpLocked
<1>4. Keeps(p) /\ Returns(p)
  BY <1>0, <1>1, <1>2 DEF Keeps, Returns, Return, Put, Typed
<1>5. Now(p, cwd[p], file[p], ip[p], NoSlot, <<dp[p]>>)
  BY <1>0, <1>1, <1>2 DEF Return, Goto, Points, Put, Typed, Now
<1>6. Passes(p, NoSlot)
  BY <1>5 DEF Passes
<1> QED BY <1>0, <1>1, <1>2, <1>3, <1>4, <1>5, <1>6, ReturnFrame, ReturnStep DEF Now

\* There is nothing to unlink, or it may not be unlinked.
LEMMA UnlinkNothing ==
    ASSUME IInv, NEW p \in Procs, Ready(p, "unlink"), MayLock(dp[p]), inode' = Read(dp[p]),
           Return(p, <<dp[p]>>), UNCHANGED <<disk, lock, cwd, file, freeing, load>>
    PROVE  IInv'
<1>0. Typed
  BY DEF IInv
<1>1. /\ puts[p] = <<>> /\ pc[p] = "unlink" /\ lock' = lock
      /\ dinode' = dinode /\ cwd' = cwd /\ freeing' = freeing /\ load' = load
      /\ file' = file /\ Return(p, <<dp[p]>>)
  BY DEF Ready, disk
<1>2. dp[p] \in Slots /\ Held(dp[p]) /\ ip[p] = NoSlot
  BY <1>1, ReadyFacts DEF WithIp, WithDp
<1>3. Viewed(inode') /\ Unlocks(p)
  BY <1>1, <1>2 DEF Viewed, Unlocks, DpLocked, IpLocked
<1>4. Keeps(p) /\ Returns(p)
  BY <1>0, <1>1, <1>2 DEF Keeps, Returns, Return, Put, Typed
<1>5. Now(p, cwd[p], file[p], ip[p], NoSlot, <<dp[p]>>)
  BY <1>0, <1>1, <1>2 DEF Return, Goto, Points, Put, Typed, Now
<1>6. Passes(p, NoSlot)
  BY <1>5 DEF Passes
<1> QED BY <1>0, <1>1, <1>2, <1>3, <1>4, <1>5, <1>6, ReturnFrame, ReturnStep DEF Now

\* A directory gets no other name.
LEMMA LinkDirectory ==
    ASSUME IInv, NEW p \in Procs, Ready(p, "link"), MayLock(ip[p]), inode' = Read(ip[p]),
           Return(p, <<ip[p]>>), UNCHANGED <<disk, lock, cwd, file, freeing, load>>
    PROVE  IInv'
<1>0. Typed
  BY DEF IInv
<1>1. /\ puts[p] = <<>> /\ pc[p] = "link" /\ lock' = lock
      /\ dinode' = dinode /\ cwd' = cwd /\ freeing' = freeing /\ load' = load
      /\ file' = file /\ Return(p, <<ip[p]>>)
  BY DEF Ready, disk
<1>2. ip[p] \in Slots /\ Held(ip[p]) /\ dp[p] = NoSlot
  BY <1>1, ReadyFacts DEF WithIp, WithDp
<1>3. Viewed(inode') /\ Unlocks(p)
  BY <1>1, <1>2 DEF Viewed, Unlocks, DpLocked, IpLocked
<1>4. Keeps(p) /\ Returns(p)
  BY <1>0, <1>1, <1>2 DEF Keeps, Returns, Return, Put, Typed
<1>5. Now(p, cwd[p], file[p], NoSlot, dp[p], <<ip[p]>>)
  BY <1>0, <1>1, <1>2 DEF Return, Goto, Points, Put, Typed, Now
<1>6. Passes(p, NoSlot)
  BY <1>5 DEF Passes
<1> QED BY <1>0, <1>1, <1>2, <1>3, <1>4, <1>5, <1>6, ReturnFrame, ReturnStep DEF Now

-----------------------------------------------------------------------------
(* The steps that go on with a call and leave the disk alone.              *)

Moved(p) ==
    /\ pc' \in [Procs -> Steps] /\ ip' \in [Procs -> Slots \cup {NoSlot}]
    /\ dp' \in [Procs -> Slots \cup {NoSlot}] /\ puts' \in [Procs -> Seq(Slots)]
    /\ path' \in [Procs -> Seq(Names)] /\ call' \in [Procs -> Calls \cup {NoCall}]
    /\ \A q \in Procs \ {p} :
          /\ pc'[q] = pc[q] /\ ip'[q] = ip[q] /\ dp'[q] = dp[q] /\ puts'[q] = puts[q]
          /\ path'[q] = path[q] /\ call'[q] = call[q]

LEMMA MovedFrame ==
    ASSUME Typed, NEW p \in Procs, Keeps(p), Moved(p)
    PROVE  Frame(p)
<1>1. Others(p)
  BY DEF Others, Moved, Keeps
<1>2. Rest'
  BY DEF Rest, Moved, Keeps, Typed
<1> QED BY <1>1, <1>2 DEF Frame

LEMMA ViewedSlots ==
    ASSUME IInv, Viewed(inode'), NEW s \in Slots
    PROVE  inode'[s].inum = inode[s].inum
<1>1. PICK T : T = inode'
  OBVIOUS
<1>2. Viewed(T)
  BY <1>1
<1>4. SameSlots(T)
  <2>1. CASE T = inode
    BY <2>1 DEF SameSlots, IInv, Typed
  <2>2. ASSUME NEW d \in Slots, Held(d), MayLock(d), T = Read(d) PROVE SameSlots(T)
    BY <2>2, ReadFacts
  <2> QED BY <1>2, <2>1, <2>2 DEF Viewed
<1> QED BY <1>1, <1>4 DEF SameSlots

\* A name that leads nowhere, or that cannot be made.
LEMMA FailStep ==
    ASSUME IInv, NEW p \in Procs, puts[p] = <<>>, freeing' = freeing, dinode' = dinode,
           Viewed(inode'), Frame(p), Now(p, cwd[p], file[p], ip[p], NoSlot, <<dp[p]>>),
           pc[p] \in WithDp, call'[p] = call[p], Unlocks(p),
           \/ pc'[p] = "user" /\ ip[p] = NoSlot
           \/ pc'[p] = "unlinkold" /\ pc[p] \in Linking
    PROVE  IInv'
<1>0. Typed /\ CallAt(p) /\ Knows(p)
  BY DEF IInv, CallsOK, Known
<1>1. Passes(p, NoSlot)
  BY DEF Passes
<1>2. CASE pc'[p] = "user" /\ ip[p] = NoSlot
  BY <1>1, <1>2, ReturnStep DEF Now
<1>3. CASE pc'[p] = "unlinkold" /\ pc[p] \in Linking
  <2>1. /\ freeing'[p] = "no" /\ ip'[p] = ip[p] /\ ip'[p] # NoSlot /\ ip[p] \in Slots /\ dp'[p] = NoSlot
        /\ pc[p] # "user" /\ call'[p] \in Calls /\ call'[p].op # "close" /\ Avoids(call'[p].new)
    BY <1>3, ReadyFacts DEF Linking, WithIp, Now
  <2>2. Len(puts'[p]) <= 2 /\ (Len(puts'[p]) = 2 => ip'[p] = NoSlot)
    BY <1>1, PassesFew
  <2>3. CallAt(p)'
    BY <1>3, <2>1, <2>2 DEF CallAt, WithIp, WithDp, Named
  <2>4. Disk(ip[p])'.type = "FILE"
    <3>1. PICK i \in Slots : i = ip[p] /\ i = ip'[p]
      BY <2>1
    <3>2. Disk(i).type = "FILE" /\ inode'[i].inum = inode[i].inum
      BY <1>0, <1>3, <3>1, ViewedSlots DEF Knows, KnowsKinds
    <3> QED BY <3>1, <3>2 DEF Disk
  <2>5. /\ Knows(p)' /\ ~Filling(p)' /\ (\A s \in Slots : ~Locks(p, s)') /\ pc'[p] \notin {"fill", "erase"}
    BY <1>3, <2>1, <2>4, RestFacts
  <2>6. LocksMove(p)
    BY <2>5, Unlocked
  <2>7. StillPending(p)
    BY <1>3, <2>1 DEF StillPending
  <2>8. PICK T : T = inode'
    OBVIOUS
  <2>9. Viewed(T) /\ GetsFrom(p, T, NoSlot)
    BY <2>8 DEF GetsFrom
  <2> QED BY <1>1, <2>3, <2>5, <2>6, <2>7, <2>9, QuietCall
<1> QED BY <1>2, <1>3

LEMMA WalkEndStep ==
    ASSUME IInv, NEW p \in Procs, WalkEnd(p)
    PROVE  IInv'
<1>0. Typed
  BY DEF IInv
<1>1. /\ puts[p] = <<>> /\ path[p] = <<>> /\ pc[p] \in {"walk", "walknew"} /\ dinode' = dinode
      /\ inode' = inode /\ lock' = lock /\ call' = call /\ path' = path /\ cwd' = cwd
      /\ file' = file /\ freeing' = freeing /\ load' = load
  BY DEF WalkEnd, Ready, disk, memory
<1>2. /\ dp[p] \in Slots /\ ip[p] \in Slots \cup {NoSlot} /\ call[p] \in Calls /\ call[p].op # "close"
      /\ pc[p] = "walk" => ip[p] = NoSlot
      /\ freeing[p] = "no" /\ Avoids(call[p].new)
  BY <1>1, ReadyFacts DEF WithIp, WithDp
<1>3. Viewed(inode') /\ Unlocks(p) /\ Keeps(p)
  <2>1. Keeps(p)
    BY <1>0, <1>1 DEF Keeps, Typed
  <2> QED BY <1>1, <2>1 DEF Viewed, Unlocks, DpLocked, IpLocked
<1>4. CASE OfParent(p) /\ Goto(p, FailTo(p)) /\ Points(p, ip[p], NoSlot) /\ Put(p, <<dp[p]>>)
  <2>1. FailTo(p) \in Steps
    BY DEF FailTo, Steps, WithIp
  <2>2. Moved(p)
    BY <1>0, <1>1, <1>2, <1>4, <2>1 DEF Moved, Goto, Points, Put, Typed
  <2>3. Now(p, cwd[p], file[p], ip[p], NoSlot, <<dp[p]>>) /\ pc'[p] = FailTo(p)
    BY <1>0, <1>1, <1>2, <1>4 DEF Now, Goto, Points, Put, Typed
  <2>4. \/ pc'[p] = "user" /\ ip[p] = NoSlot
        \/ pc'[p] = "unlinkold" /\ pc[p] \in Linking
    BY <1>1, <1>2, <2>3 DEF FailTo, Linking
  <2>5. pc[p] \in WithDp /\ call'[p] = call[p]
    BY <1>1 DEF WithDp
  <2> QED BY <1>0, <1>1, <1>3, <2>2, <2>3, <2>4, <2>5, MovedFrame, FailStep
<1>5. CASE ~OfParent(p) /\ Points(p, dp[p], NoSlot) /\ Goto(p, AfterWalk(p)) /\ puts' = puts
  <2>1. pc[p] = "walk" /\ AfterWalk(p) \in {"open", "chdir", "link"} /\ ip[p] = NoSlot
    BY <1>1, <1>2, <1>5 DEF OfParent, Calls, AfterWalk
  <2>2. Moved(p)
    BY <1>0, <1>1, <1>2, <1>5, <2>1 DEF Moved, Goto, Points, Typed, Steps, WithIp
  <2>3. Now(p, cwd[p], file[p], dp[p], NoSlot, <<>>) /\ pc'[p] = AfterWalk(p)
    BY <1>0, <1>1, <1>2, <1>5 DEF Now, Goto, Points, Typed
  <2>4. Passes(p, NoSlot)
    BY <2>1, <2>3 DEF Passes
  <2>5. CallAt(p)'
    <3>1. Len(puts'[p]) = 0 /\ ip'[p] # NoSlot /\ dp'[p] = NoSlot
      BY <1>2, <2>3, ConstantFacts DEF Now
    <3> QED BY <1>1, <1>2, <2>1, <2>3, <3>1 DEF CallAt, WithIp, WithDp, Named
  <2>6. /\ Knows(p)' /\ ~Filling(p)' /\ (\A s \in Slots : ~Locks(p, s)') /\ pc'[p] \notin {"fill", "erase"}
        /\ StillPending(p)
    BY <1>1, <1>2, <2>1, <2>3, RestFacts DEF Resting
  <2>7. LocksMove(p)
    BY <1>1, <1>3, <2>6, Unlocked
  <2>8. PICK T : T = inode
    OBVIOUS
  <2>9. Viewed(T) /\ GetsFrom(p, T, NoSlot)
    BY <1>1, <2>8 DEF Viewed, GetsFrom
  <2> QED BY <1>0, <1>1, <1>3, <2>2, <2>4, <2>5, <2>6, <2>7, <2>9, MovedFrame, QuietCall
<1> QED BY <1>4, <1>5 DEF WalkEnd

\* The pointer that iget returns.
LEMMA Gets ==
    ASSUME IInv, NEW p \in Procs, NEW T, Viewed(T), NEW i, CanGet(i), Found(p, i),
           inode' = Iget(T, i), NEW g, g = SlotOf(i)
    PROVE  /\ GetsFrom(p, T, g) /\ g \in Slots /\ g # NoSlot /\ inode'[g].inum = i
           /\ \A s \in Slots : Held(s) =>
                 /\ inode'[s].inum = inode[s].inum /\ inode'[s].valid = T[s].valid
                 /\ inode'[s].nlink = T[s].nlink
<1>1. i \in Inums /\ SameSlots(T) /\ Spares(p, T) /\ Typed
  BY ViewedFacts DEF Found, IInv
<1>2. GetsFrom(p, T, g)
  BY <1>1 DEF GetsFrom
<1>3. /\ g \in Slots
      /\ \/ Held(g) /\ inode[g].inum = i
         \/ inode[g].ref = 0 /\ Cached(i) = {}
  BY <1>1, SlotFacts
<1>4. /\ \A s \in Slots : Held(s) =>
             /\ inode'[s].inum = inode[s].inum /\ inode'[s].valid = T[s].valid
             /\ inode'[s].nlink = T[s].nlink
  BY <1>1, <1>2, TableFacts
<1>5. ASSUME ~Held(g) PROVE inode'[g].inum = i
  <2>1. Cached(i) = {}
    BY <1>3, <1>5
  <2>2. inode' = [T EXCEPT ![g] = [T[g] EXCEPT !.ref = 1, !.inum = i, !.valid = FALSE]]
    BY <2>1 DEF Iget
  <2>3. PICK x \in [ref : Nat, inum : Inums \cup {NoInum}, valid : BOOLEAN, type : Types, nlink : Nat] : x = T[g]
    BY <1>1, <1>3 DEF SameSlots, Table
  <2>4. PICK y : y = [x EXCEPT !.ref = 1, !.inum = i, !.valid = FALSE]
    OBVIOUS
  <2>5. y.inum = i
    BY <2>4
  <2>6. inode' = [T EXCEPT ![g] = y]
    BY <2>2, <2>3, <2>4
  <2> QED BY <1>1, <1>3, <2>5, <2>6 DEF SameSlots, Table
<1> QED BY <1>2, <1>3, <1>4, <1>5, ConstantFacts DEF Held

\* The directory that a step has locked.
LEMMA DirFacts ==
    ASSUME IInv, NEW p \in Procs, NEW d \in Slots, Held(d), MayLock(d)
    PROVE  /\ Viewed(Read(d)) /\ Filled(d).type = Disk(d).type
           /\ inode[d].inum \in Inums /\ Disk(d) = dinode[inode[d].inum] /\ Disk(d) \in Dinodes
           /\ \A s \in Slots : Read(d)[s].inum = inode[s].inum
           /\ \A n \in Names \ {DotDot} : Disk(d).type = "DIR" /\ Disk(d).entries[n] # NoInum =>
                 /\ Found(p, Disk(d).entries[n]) /\ Disk(d).entries[n] # inode[d].inum
<1>1. /\ Viewed(Read(d)) /\ Filled(d).type = Disk(d).type /\ SameSlots(Read(d))
      /\ inode[d].inum \in Inums /\ Disk(d) = dinode[inode[d].inum] /\ Disk(d) \in Dinodes
  BY ReadFacts DEF Viewed, Disk
<1>2. ASSUME NEW n \in Names \ {DotDot}, Disk(d).type = "DIR", Disk(d).entries[n] # NoInum
      PROVE  Found(p, Disk(d).entries[n]) /\ Disk(d).entries[n] # inode[d].inum
  <2>1. PICK i, j \in Inums : i = Disk(d).entries[n] /\ j = inode[d].inum
    BY <1>1, <1>2 DEF Dinodes
  <2>2. Found(p, i) /\ <<j, n>> \in NamesOf(i)
    BY <1>1, <1>2, <2>1, NameFound
  <2>3. i # j
    BY <1>1, <1>2, <2>1, <2>2 DEF IInv, DiskOK, OneName
  <2> QED BY <2>1, <2>2, <2>3
<1> QED BY <1>1, <1>2 DEF SameSlots

LEMMA StartStep ==
    ASSUME IInv, NEW p \in Procs, NEW c, c \in load.calls[p], Start(p, c)
    PROVE  IInv'
<1>0. Typed
  BY DEF IInv
<1>1. PICK g : g = SlotOf(From(c, p))
  OBVIOUS
<1>2. /\ puts[p] = <<>> /\ pc[p] = "user" /\ load.left[p] > 0 /\ c.op # "close"
      /\ CanGet(From(c, p)) /\ inode' = Iget(inode, From(c, p))
      /\ ip' = [ip EXCEPT ![p] = NoSlot] /\ dp' = [dp EXCEPT ![p] = g]
      /\ pc' = [pc EXCEPT ![p] = "walk"]
      /\ call' = [call EXCEPT ![p] = c] /\ path' = [path EXCEPT ![p] = c.path]
      /\ load' = [load EXCEPT !.left[p] = @ - 1]
      /\ dinode' = dinode /\ lock' = lock /\ cwd' = cwd /\ file' = file /\ puts' = puts
      /\ freeing' = freeing
  BY <1>1 DEF Start, Ready, Points, Goto, disk
<1>3. ip[p] = NoSlot /\ dp[p] = NoSlot /\ freeing[p] = "no"
  BY <1>2, ReadyFacts DEF WithIp, WithDp
<1>4. c \in Calls /\ Avoids(c.path) /\ Avoids(c.new) /\ c.path \in Seq(Names)
  <2>1. load.calls[p] \subseteq Calls
    BY <1>0 DEF Typed, Loads
  <2>2. c \in Calls
    BY <2>1
  <2> QED BY <1>0, <2>2 DEF Typed, Calls
<1>5. PICK T : T = inode
  OBVIOUS
<1>6. Viewed(T) /\ Found(p, From(c, p))
  BY <1>5, FromFound DEF Viewed
<1>7. GetsFrom(p, T, g) /\ g \in Slots /\ g # NoSlot
  <2>1. PICK i : i = From(c, p)
    OBVIOUS
  <2> QED BY <1>1, <1>2, <1>5, <1>6, <2>1, Gets
<1>8. Keeps(p) /\ Moved(p)
  <2>1. load' \in Loads /\ load'.calls = load.calls
    BY <1>0, <1>2, LoadCounts
  <2>2. Keeps(p)
    BY <1>0, <1>2, <2>1 DEF Keeps, Typed
  <2>3. Moved(p)
    BY <1>0, <1>2, <1>4, <1>7 DEF Moved, Typed, Steps, WithDp
  <2> QED BY <2>2, <2>3
<1>9. /\ Now(p, cwd[p], file[p], NoSlot, g, <<>>) /\ pc'[p] = "walk"
      /\ call'[p] = c /\ path'[p] = c.path
  BY <1>0, <1>2 DEF Now, Typed
<1>10. Passes(p, g)
  BY <1>3, <1>9 DEF Passes
<1>11. CallAt(p)'
  <2>1. Len(puts'[p]) = 0 /\ ip'[p] = NoSlot /\ dp'[p] # NoSlot /\ freeing'[p] = "no"
    BY <1>2, <1>3, <1>7, <1>9 DEF Now
  <2>2. call'[p] \in Calls /\ call'[p].op # "close" /\ Avoids(call'[p].new) /\ Avoids(path'[p])
    BY <1>2, <1>4, <1>9
  <2> QED BY <1>9, <2>1, <2>2 DEF CallAt, WithIp, WithDp, Named
<1>12. /\ Knows(p)' /\ ~Filling(p)' /\ (\A s \in Slots : ~Locks(p, s)') /\ pc'[p] \notin {"fill", "erase"}
       /\ StillPending(p)
  BY <1>2, <1>3, <1>9, RestFacts DEF Resting
<1>13. Unlocks(p)
  BY <1>2 DEF Unlocks, DpLocked, IpLocked
<1>14. LocksMove(p)
  BY <1>2, <1>12, <1>13, Unlocked
<1> QED BY <1>0, <1>2, <1>6, <1>7, <1>8, <1>10, <1>11, <1>12, <1>14, MovedFrame, QuietCall

LEMMA WalkStep ==
    ASSUME IInv, NEW p \in Procs, Walk(p)
    PROVE  IInv'
<1>0. Typed /\ CallAt(p) /\ Knows(p)
  BY DEF IInv, CallsOK, Known
<1>1. PICK d : d = dp[p]
  OBVIOUS
<1>2. PICK next : next = Disk(d).entries[Head(path[p])]
  OBVIOUS
<1>3. /\ puts[p] = <<>> /\ path[p] # <<>> /\ pc[p] \in {"walk", "walknew"} /\ MayLock(d)
      /\ dinode' = dinode /\ lock' = lock /\ call' = call /\ cwd' = cwd
      /\ file' = file /\ freeing' = freeing /\ load' = load
  BY <1>1 DEF Walk, Ready, disk
<1>4. /\ d \in Slots /\ Held(d) /\ ip[p] \in Slots \cup {NoSlot} /\ call[p] \in Calls /\ call[p].op # "close"
      /\ pc[p] = "walk" => ip[p] = NoSlot
      /\ pc[p] = "walknew" => ip[p] \in Slots /\ ip[p] # NoSlot
      /\ d # NoSlot /\ freeing[p] = "no" /\ Avoids(call[p].new)
  BY <1>1, <1>3, ReadyFacts DEF WithIp, WithDp
<1>5. Viewed(Read(d)) /\ Unlocks(p) /\ Keeps(p) /\ Filled(d).type = Disk(d).type
  <2>1. Keeps(p)
    BY <1>0, <1>3 DEF Keeps, Typed
  <2> QED BY <1>3, <1>4, <2>1, DirFacts DEF Unlocks, DpLocked, IpLocked
<1>6. /\ path[p] \in Seq(Names) /\ Avoids(path[p]) /\ Head(path[p]) \in Names \ {DotDot}
      /\ Tail(path[p]) \in Seq(Names) /\ Avoids(Tail(path[p]))
      /\ Head(path[p]) = path[p][1] /\ 1 \in DOMAIN path[p]
  <2>1. PICK u \in Seq(Names) : u = path[p]
    BY <1>0 DEF Typed
  <2>2. Avoids(u) /\ u # <<>>
    BY <1>0, <1>3, <2>1 DEF CallAt
  <2>3. 1 \in DOMAIN u /\ Head(u) = u[1] /\ u[1] \in Names /\ Tail(u) \in Seq(Names)
    BY <2>2
  <2>4. \A k \in DOMAIN Tail(u) : Tail(u)[k] = u[k + 1] /\ k + 1 \in DOMAIN u
    BY <2>2
  <2> QED BY <2>1, <2>2, <2>3, <2>4 DEF Avoids
<1>7. ASSUME Goto(p, FailTo(p)), Points(p, ip[p], NoSlot), Put(p, <<d>>), inode' = Read(d),
             path' = [path EXCEPT ![p] = <<>>]
      PROVE  IInv'
  <2>1. FailTo(p) \in Steps
    BY DEF FailTo, Steps, WithIp
  <2>2. Moved(p)
    BY <1>0, <1>3, <1>4, <1>7, <2>1 DEF Moved, Goto, Points, Put, Typed
  <2>3. Now(p, cwd[p], file[p], ip[p], NoSlot, <<dp[p]>>) /\ pc'[p] = FailTo(p)
    BY <1>0, <1>1, <1>3, <1>4, <1>7 DEF Now, Goto, Points, Put, Typed
  <2>4. \/ pc'[p] = "user" /\ ip[p] = NoSlot
        \/ pc'[p] = "unlinkold" /\ pc[p] \in Linking
    BY <1>3, <1>4, <2>3 DEF FailTo, Linking
  <2>5. pc[p] \in WithDp /\ call'[p] = call[p] /\ Viewed(inode')
    BY <1>3, <1>5, <1>7 DEF WithDp
  <2> QED BY <1>0, <1>3, <1>5, <2>2, <2>3, <2>4, <2>5, MovedFrame, FailStep
<1>8. ASSUME Disk(d).type = "DIR", OfParent(p), Len(path[p]) = 1, inode' = Read(d),
             Goto(p, AfterWalk(p)), ip' = ip, dp' = dp, path' = path, puts' = puts
      PROVE  IInv'
  <2>1. \/ pc[p] = "walk" /\ AfterWalk(p) = call[p].op /\ call[p].op \in {"create", "mkdir", "unlink"}
        \/ pc[p] = "walknew" /\ AfterWalk(p) = "linknew"
    BY <1>3, <1>8 DEF OfParent, AfterWalk
  <2>2. AfterWalk(p) \in Steps
    BY <2>1 DEF Steps, WithIp, WithDp
  <2>3. Moved(p)
    BY <1>0, <1>3, <1>8, <2>2 DEF Moved, Goto, Typed
  <2>4. Now(p, cwd[p], file[p], ip[p], d, <<>>) /\ pc'[p] = AfterWalk(p)
    BY <1>0, <1>1, <1>3, <1>8, <2>2 DEF Now, Goto, Typed
  <2>5. Passes(p, NoSlot)
    BY <1>1, <2>4 DEF Passes
  <2>6. Name(p)' # DotDot /\ Len(path'[p]) = 1 /\ Len(puts'[p]) = 0 /\ freeing'[p] = "no"
    BY <1>3, <1>4, <1>6, <1>8, <2>4 DEF Name, Now
  <2>7. CallAt(p)'
    <3>1. CASE pc[p] = "walk" /\ AfterWalk(p) = call[p].op
      <4>1. pc'[p] = call[p].op /\ ip'[p] = NoSlot /\ dp'[p] # NoSlot /\ call'[p] = call[p]
        BY <1>3, <1>4, <2>4, <3>1 DEF Now
      <4> QED BY <1>4, <2>1, <2>4, <2>6, <3>1, <4>1 DEF CallAt, WithIp, WithDp, Named, Now
    <3>2. CASE pc[p] = "walknew" /\ AfterWalk(p) = "linknew"
      <4>1. pc'[p] = "linknew" /\ ip'[p] # NoSlot /\ dp'[p] # NoSlot /\ call'[p] = call[p]
        BY <1>3, <1>4, <2>4, <3>2 DEF Now
      <4> QED BY <1>4, <2>4, <2>6, <3>2, <4>1 DEF CallAt, WithIp, WithDp, Named, Now
    <3> QED BY <2>1, <3>1, <3>2
  <2>8. \A s \in Slots : inode'[s].inum = inode[s].inum
    BY <1>5, <1>8, ViewedSlots
  <2>9. Knows(p)' /\ ~Filling(p)'
    <3>1. Disk(dp[p])'.type = "DIR"
      BY <1>1, <1>3, <1>4, <1>8, <2>8 DEF Disk
    <3>2. pc'[p] = "linknew" => Disk(ip[p])'.type = "FILE"
      <4>1. CASE pc[p] = "walknew"
        <5>1. PICK i \in Slots : i = ip[p] /\ Disk(i).type = "FILE"
          BY <1>0, <1>4, <4>1 DEF Knows, KnowsKinds, Linking
        <5> QED BY <1>3, <1>8, <2>8, <5>1 DEF Disk
      <4>2. CASE pc[p] = "walk"
        BY <2>1, <2>4, <4>2
      <4> QED BY <1>3, <4>1, <4>2
    <3>3. pc'[p] \in {"create", "mkdir", "unlink", "linknew"}
      BY <2>1, <2>4
    <3>4. KnowsValid(p)' /\ KnowsEntry(p)' /\ ~Filling(p)' /\ Reserves(p)'
      BY <2>6, <3>3 DEF KnowsValid, KnowsEntry, Filling, Reserves, DpLocked, IpLocked
    <3>5. KnowsKinds(p)'
      BY <3>1, <3>2, <3>3 DEF KnowsKinds, Linking
    <3> QED BY <3>4, <3>5 DEF Knows
  <2>10. LocksMove(p)
    <3>1. \A s \in Slots : ~Locks(p, s) /\ ~Locks(p, s)'
      BY <1>3, <2>1, <2>4, <2>6, ReadyFacts DEF Locks, DpLocked, IpLocked
    <3> QED BY <1>3, <2>1, <2>4, <3>1, LocksStay
  <2>11. StillPending(p)
    BY <1>8, <2>1, <2>4 DEF StillPending, Linking
  <2>12. PICK T : T = Read(d)
    OBVIOUS
  <2>13. Viewed(T) /\ GetsFrom(p, T, NoSlot)
    BY <1>5, <1>8, <2>12 DEF GetsFrom
  <2> QED BY <1>0, <1>3, <1>5, <2>3, <2>5, <2>7, <2>9, <2>10, <2>11, <2>13, MovedFrame, QuietCall
<1>9. ASSUME Disk(d).type = "DIR", next # NoInum, CanGet(next), inode' = Iget(Read(d), next),
             Points(p, ip[p], SlotOf(next)), Put(p, <<d>>), path' = [path EXCEPT ![p] = Tail(@)],
             pc' = pc
      PROVE  IInv'
  <2>1. Found(p, next)
    BY <1>2, <1>3, <1>4, <1>6, <1>9, DirFacts
  <2>2. PICK T, g : T = Read(d) /\ g = SlotOf(next)
    OBVIOUS
  <2>3. /\ Viewed(T) /\ GetsFrom(p, T, g) /\ g \in Slots /\ g # NoSlot
        /\ \A s \in Slots : Held(s) => inode'[s].inum = inode[s].inum
    <3>1. Viewed(T) /\ inode' = Iget(T, next)
      BY <1>5, <1>9, <2>2
    <3> QED BY <1>9, <2>1, <2>2, <3>1, Gets
  <2>4. ip' = [ip EXCEPT ![p] = ip[p]] /\ dp' = [dp EXCEPT ![p] = g] /\ puts' = [puts EXCEPT ![p] = <<d>>]
    BY <1>9, <2>2 DEF Points, Put
  <2>5. Moved(p)
    BY <1>0, <1>3, <1>4, <1>6, <1>9, <2>3, <2>4 DEF Moved, Typed
  <2>6. Now(p, cwd[p], file[p], ip[p], g, <<dp[p]>>) /\ pc'[p] = pc[p] /\ path'[p] = Tail(path[p])
    BY <1>0, <1>1, <1>3, <1>9, <2>4 DEF Now, Typed
  <2>7. Passes(p, g)
    BY <2>6 DEF Passes
  <2>8. CallAt(p)'
    <3>1. /\ Len(puts'[p]) <= 2 /\ Len(puts'[p]) # 2 /\ dp'[p] # NoSlot /\ ip'[p] = ip[p]
          /\ call'[p] = call[p] /\ freeing'[p] = "no"
      BY <1>3, <1>4, <2>3, <2>6, <2>7, PassesFew DEF Now
    <3> QED BY <1>3, <1>4, <1>6, <2>6, <3>1 DEF CallAt, WithIp, WithDp, Named
  <2>9. /\ Knows(p)' /\ ~Filling(p)' /\ (\A s \in Slots : ~Locks(p, s)') /\ pc'[p] \notin {"fill", "erase"}
    <3>1. pc[p] = "walknew" => Disk(ip[p])'.type = "FILE"
      <4> SUFFICES ASSUME pc[p] = "walknew" PROVE Disk(ip[p])'.type = "FILE"
        OBVIOUS
      <4>1. PICK i \in Slots : i = ip[p] /\ Disk(i).type = "FILE" /\ Held(i)
        BY <1>0, <1>3, <1>4, ReadyFacts DEF Knows, KnowsKinds, Linking, WithIp
      <4>2. ip'[p] = i
        BY <2>6, <4>1 DEF Now
      <4> QED BY <1>3, <2>3, <4>1, <4>2 DEF Disk
    <3>2. pc[p] = "walk" => pc'[p] \in Resting
      BY <2>6 DEF Resting
    <3>3. freeing'[p] = "no" /\ pc'[p] = pc[p]
      BY <1>3, <1>4, <2>6
    <3> QED BY <1>3, <3>1, <3>2, <3>3, RestFacts
  <2>10. LocksMove(p)
    BY <1>3, <1>5, <2>9, Unlocked
  <2>11. StillPending(p)
    BY <2>6 DEF StillPending, Now
  <2> QED BY <1>0, <1>3, <1>5, <2>3, <2>5, <2>7, <2>8, <2>9, <2>10, <2>11, MovedFrame, QuietCall
<1> QED BY <1>1, <1>2, <1>5, <1>7, <1>8, <1>9 DEF Walk

\* A process locks the directory dp, and keeps it locked.
LEMMA DpTaken ==
    ASSUME IInv, NEW p \in Procs, puts[p] = <<>>, freeing' = freeing, NEW d \in Slots, MayLock(d),
           lock' = [lock EXCEPT ![d] = p], pc[p] \notin DpLocked \cup IpLocked,
           pc'[p] \in DpLocked, dp'[p] = d, pc'[p] \in {"fill", "erase"} => ip'[p] # dp'[p]
    PROVE  LocksMove(p)
<1>1. \A s \in Slots : ~Locks(p, s)
  BY ReadyFacts
<1>2. \A s \in Slots : Locks(p, s)' <=> s = d
  BY ReadyFacts DEF Locks, DpLocked, IpLocked
<1> QED BY <1>1, <1>2, LockTaken DEF MayLock

LEMMA DpKept ==
    ASSUME IInv, NEW p \in Procs, puts[p] = <<>>, freeing' = freeing, lock' = lock,
           pc[p] \in DpLocked, pc'[p] \in DpLocked, dp'[p] = dp[p],
           pc'[p] \in {"fill", "erase"} => ip'[p] # dp'[p]
    PROVE  LocksMove(p)
<1>1. \A s \in Slots : Locks(p, s) <=> s = dp[p]
  BY ReadyFacts DEF DpLocked, IpLocked
<1>2. \A s \in Slots : Locks(p, s)' <=> s = dp[p]
  BY ReadyFacts DEF Locks, DpLocked, IpLocked
<1> QED BY <1>1, <1>2, LocksStay

LEMMA CreateStep ==
    ASSUME IInv, NEW p \in Procs, Create(p)
    PROVE  IInv'
<1>0. Typed /\ CallAt(p) /\ Knows(p)
  BY DEF IInv, CallsOK, Known
<1>1. PICK d, n, e : d = dp[p] /\ n = Name(p) /\ e = Entry(p)
  OBVIOUS
<1>2. /\ puts[p] = <<>> /\ pc[p] \in {"create", "mkdir"} /\ MayLock(d)
      /\ dinode' = dinode /\ call' = call /\ path' = path /\ cwd' = cwd
      /\ file' = file /\ freeing' = freeing /\ load' = load
  BY <1>1 DEF Create, Ready, disk
<1>3. /\ d \in Slots /\ Held(d) /\ ip[p] = NoSlot /\ call[p] \in Calls /\ call[p].op \in {"create", "mkdir"}
      /\ d # NoSlot /\ freeing[p] = "no" /\ Avoids(call[p].new) /\ pc[p] \notin DpLocked \cup IpLocked
      /\ call[p].op # "close"
  BY <1>0, <1>1, <1>2, ReadyFacts DEF WithIp, WithDp, DpLocked, IpLocked, CallAt
<1>4. Len(path[p]) = 1 /\ n # DotDot /\ n \in Names /\ e = Disk(d).entries[n] /\ Disk(d).type = "DIR"
  <2>1. Len(path[p]) = 1 /\ n # DotDot
    BY <1>0, <1>1, <1>2 DEF CallAt, Named
  <2>2. PICK u \in Seq(Names) : u = path[p] /\ Len(u) = 1
    BY <1>0, <2>1 DEF Typed
  <2>3. u[1] \in Names
    BY <2>2
  <2> QED BY <1>0, <1>1, <1>2, <2>1, <2>2, <2>3 DEF Name, Entry, Knows, KnowsKinds, WithDp
<1>5. PICK T : T = Read(d)
  OBVIOUS
<1>6. /\ Viewed(T) /\ (e # NoInum => Found(p, e)) /\ \A s \in Slots : T[s].inum = inode[s].inum
  BY <1>2, <1>3, <1>4, <1>5, DirFacts
<1>7. ASSUME e # NoInum, CanGet(e), inode' = Iget(Read(d), e), Points(p, SlotOf(e), NoSlot),
             Put(p, <<d>>), Goto(p, "exists"), lock' = lock
      PROVE  IInv'
  <2>1. PICK g : g = SlotOf(e)
    OBVIOUS
  <2>2. /\ GetsFrom(p, T, g) /\ g \in Slots /\ g # NoSlot
    <3>1. inode' = Iget(T, e)
      BY <1>5, <1>7
    <3> QED BY <1>6, <1>7, <2>1, <3>1, Gets
  <2>3. Keeps(p) /\ Moved(p)
    <3>1. Keeps(p)
      BY <1>0, <1>2, <1>7 DEF Keeps, Typed
    <3>2. Moved(p)
      BY <1>0, <1>2, <1>3, <1>7, <2>1, <2>2 DEF Moved, Goto, Points, Put, Typed, Steps, WithIp
    <3> QED BY <3>1, <3>2
  <2>4. Now(p, cwd[p], file[p], g, NoSlot, <<dp[p]>>) /\ pc'[p] = "exists"
    BY <1>0, <1>1, <1>2, <1>7, <2>1 DEF Now, Goto, Points, Put, Typed
  <2>5. Passes(p, g)
    BY <1>3, <2>4 DEF Passes
  <2>6. CallAt(p)'
    <3>1. /\ Len(puts'[p]) <= 2 /\ Len(puts'[p]) # 2 /\ dp'[p] = NoSlot /\ ip'[p] # NoSlot
          /\ call'[p] = call[p] /\ freeing'[p] = "no"
      BY <1>2, <1>3, <2>2, <2>4, <2>5, PassesFew DEF Now
    <3> QED BY <1>3, <2>4, <3>1 DEF CallAt, WithIp, WithDp, Named
  <2>7. /\ Knows(p)' /\ ~Filling(p)' /\ (\A s \in Slots : ~Locks(p, s)') /\ pc'[p] \notin {"fill", "erase"}
        /\ StillPending(p)
    BY <1>2, <1>3, <2>4, RestFacts DEF Resting
  <2>8. LocksMove(p)
    BY <1>2, <1>3, <1>7, <2>7, Unlocked DEF Unlocks
  <2> QED BY <1>0, <1>2, <1>6, <2>2, <2>3, <2>5, <2>6, <2>7, <2>8, MovedFrame, QuietCall
<1>8. ASSUME inode' = Read(d), lock' = [lock EXCEPT ![d] = p], Goto(p, "ialloc"),
             ip' = ip, dp' = dp, puts' = puts
      PROVE  IInv'
  <2>1. GetsFrom(p, T, NoSlot)
    BY <1>5, <1>8 DEF GetsFrom
  <2>2. Keeps(p) /\ Moved(p)
    <3>1. Keeps(p)
      BY <1>0, <1>2, <1>8 DEF Keeps, Typed
    <3>2. Moved(p)
      BY <1>0, <1>2, <1>8 DEF Moved, Goto, Typed, Steps, WithDp
    <3> QED BY <3>1, <3>2
  <2>3. Now(p, cwd[p], file[p], ip[p], d, <<>>) /\ pc'[p] = "ialloc"
    BY <1>0, <1>1, <1>2, <1>8 DEF Now, Goto, Typed
  <2>4. Passes(p, NoSlot)
    BY <1>1, <2>3 DEF Passes
  <2>5. CallAt(p)'
    <3>1. /\ Len(puts'[p]) = 0 /\ puts'[p] = <<>> /\ dp'[p] # NoSlot /\ ip'[p] = NoSlot
          /\ call'[p] = call[p] /\ freeing'[p] = "no" /\ Len(path'[p]) = 1 /\ Name(p)' # DotDot
      BY <1>1, <1>2, <1>3, <1>4, <2>3 DEF Now, Name
    <3> QED BY <1>3, <2>3, <3>1 DEF CallAt, WithIp, WithDp, Named
  <2>6. Knows(p)' /\ ~Filling(p)' /\ StillPending(p)
    <3>1. inode'[d].valid /\ inode'[d].inum = inode[d].inum
      BY <1>2, <1>3, <1>5, <1>6, <1>8, ReadFacts
    <3>2. Disk(dp[p])'.type = "DIR"
      BY <1>2, <1>4, <2>3, <3>1 DEF Disk, Now
    <3>3. KnowsValid(p)' /\ KnowsKinds(p)'
      BY <1>2, <1>3, <2>3, <3>1, <3>2 DEF KnowsValid, KnowsKinds, Now, IpLocked, Linking
    <3>4. KnowsEntry(p)' /\ ~Filling(p)' /\ Reserves(p)' /\ StillPending(p)
      BY <2>3 DEF KnowsEntry, Filling, Reserves, StillPending, Linking
    <3> QED BY <3>3, <3>4 DEF Knows
  <2>7. LocksMove(p)
    BY <1>2, <1>3, <1>8, <2>3, DpTaken DEF Now, DpLocked
  <2> QED BY <1>0, <1>2, <1>6, <2>1, <2>2, <2>4, <2>5, <2>6, <2>7, MovedFrame, QuietCall
<1> QED BY <1>1, <1>7, <1>8 DEF Create

LEMMA UnlinkGet ==
    ASSUME IInv, NEW p \in Procs, Ready(p, "unlink"), MayLock(dp[p]), Name(p) # DotDot,
           Entry(p) # NoInum, CanGet(Entry(p)), inode' = Iget(Read(dp[p]), Entry(p)),
           lock' = [lock EXCEPT ![dp[p]] = p], Points(p, SlotOf(Entry(p)), dp[p]),
           Goto(p, "erase"), UNCHANGED <<call, path, puts, disk, cwd, file, freeing, load>>
    PROVE  IInv'
<1>0. Typed /\ CallAt(p) /\ Knows(p)
  BY DEF IInv, CallsOK, Known
<1>1. PICK d, n, e, g : d = dp[p] /\ n = Name(p) /\ e = Entry(p) /\ g = SlotOf(Entry(p))
  OBVIOUS
<1>2. /\ puts[p] = <<>> /\ pc[p] = "unlink" /\ MayLock(d) /\ n # DotDot /\ e # NoInum /\ CanGet(e)
      /\ inode' = Iget(Read(d), e) /\ lock' = [lock EXCEPT ![d] = p]
      /\ ip' = [ip EXCEPT ![p] = g] /\ dp' = [dp EXCEPT ![p] = d] /\ pc' = [pc EXCEPT ![p] = "erase"]
      /\ dinode' = dinode /\ call' = call /\ path' = path /\ cwd' = cwd /\ puts' = puts
      /\ file' = file /\ freeing' = freeing /\ load' = load
  BY <1>1 DEF Ready, disk, Points, Goto
<1>3. /\ d \in Slots /\ Held(d) /\ ip[p] = NoSlot /\ call[p] \in Calls /\ call[p].op # "close"
      /\ d # NoSlot /\ freeing[p] = "no" /\ Avoids(call[p].new) /\ pc[p] \notin DpLocked \cup IpLocked
  BY <1>0, <1>1, <1>2, ReadyFacts DEF WithIp, WithDp, DpLocked, IpLocked
<1>4. Len(path[p]) = 1 /\ n \in Names /\ e = Disk(d).entries[n] /\ Disk(d).type = "DIR"
  <2>1. Len(path[p]) = 1
    BY <1>0, <1>2 DEF CallAt, Named
  <2>2. PICK u \in Seq(Names) : u = path[p] /\ Len(u) = 1
    BY <1>0, <2>1 DEF Typed
  <2>3. u[1] \in Names
    BY <2>2
  <2> QED BY <1>0, <1>1, <1>2, <2>1, <2>2, <2>3 DEF Name, Entry, Knows, KnowsKinds, WithDp
<1>5. PICK T : T = Read(d)
  OBVIOUS
<1>6. /\ Viewed(T) /\ Found(p, e) /\ e # inode[d].inum
  BY <1>2, <1>3, <1>4, <1>5, DirFacts
<1>7. /\ GetsFrom(p, T, g) /\ g \in Slots /\ g # NoSlot /\ inode'[g].inum = e
      /\ inode'[d].inum = inode[d].inum /\ inode'[d].valid = T[d].valid
  <2>1. inode' = Iget(T, e) /\ g = SlotOf(e)
    BY <1>1, <1>2, <1>5
  <2> QED BY <1>2, <1>3, <1>6, <2>1, Gets
<1>8. Keeps(p) /\ Moved(p)
  <2>1. Keeps(p)
    BY <1>0, <1>2 DEF Keeps, Typed
  <2>2. Moved(p)
    BY <1>0, <1>2, <1>3, <1>7 DEF Moved, Typed, Steps, WithIp
  <2> QED BY <2>1, <2>2
<1>9. Now(p, cwd[p], file[p], g, d, <<>>) /\ pc'[p] = "erase"
  BY <1>0, <1>2 DEF Now, Typed
<1>10. Passes(p, g)
  BY <1>1, <1>3, <1>9 DEF Passes
<1>11. CallAt(p)'
  <2>1. /\ Len(puts'[p]) = 0 /\ puts'[p] = <<>> /\ dp'[p] # NoSlot /\ ip'[p] # NoSlot
        /\ call'[p] = call[p] /\ freeing'[p] = "no" /\ Len(path'[p]) = 1 /\ Name(p)' # DotDot
    BY <1>1, <1>2, <1>3, <1>4, <1>7, <1>9 DEF Now, Name
  <2> QED BY <1>3, <1>9, <2>1 DEF CallAt, WithIp, WithDp, Named
<1>12. Knows(p)' /\ ~Filling(p)' /\ StillPending(p) /\ ip'[p] # dp'[p]
  <2>1. inode'[d].valid
    BY <1>2, <1>3, <1>5, <1>7, ReadFacts
  <2>2. Disk(dp[p])' = Disk(d)
    BY <1>2, <1>7, <1>9 DEF Disk, Now
  <2>3. KnowsValid(p)' /\ KnowsKinds(p)'
    BY <1>2, <1>3, <1>4, <1>9, <2>1, <2>2 DEF KnowsValid, KnowsKinds, Now, IpLocked, Linking
  <2>4. KnowsEntry(p)'
    <3>1. Name(p)' = n
      BY <1>1, <1>2 DEF Name
    <3>2. Entry(p)' = e
      BY <1>4, <2>2, <3>1 DEF Entry
    <3>3. inode'[ip'[p]].inum = e
      BY <1>7, <1>9 DEF Now
    <3> QED BY <3>2, <3>3 DEF KnowsEntry
  <2>5. ~Filling(p)' /\ Reserves(p)' /\ StillPending(p)
    BY <1>9 DEF Filling, Reserves, StillPending, Linking
  <2>6. ip'[p] # dp'[p]
    BY <1>6, <1>7, <1>9 DEF Now
  <2> QED BY <2>3, <2>4, <2>5, <2>6 DEF Knows
<1>13. LocksMove(p)
  BY <1>2, <1>3, <1>9, <1>12, DpTaken DEF Now, DpLocked
<1> QED BY <1>0, <1>2, <1>6, <1>7, <1>8, <1>10, <1>11, <1>12, <1>13, MovedFrame, QuietCall

LEMMA UnlinkStep ==
    ASSUME IInv, NEW p \in Procs, Unlink(p)
    PROVE  IInv'
<1>1. CASE /\ inode' = Read(dp[p]) /\ Return(p, <<dp[p]>>) /\ UNCHANGED lock
  BY <1>1, UnlinkNothing DEF Unlink
<1>2. CASE /\ Name(p) # DotDot /\ Entry(p) # NoInum /\ CanGet(Entry(p))
           /\ inode' = Iget(Read(dp[p]), Entry(p))
           /\ lock' = [lock EXCEPT ![dp[p]] = p]
           /\ Points(p, SlotOf(Entry(p)), dp[p])
           /\ Goto(p, "erase")
           /\ UNCHANGED <<call, path, puts>>
  BY <1>2, UnlinkGet DEF Unlink
<1> QED BY <1>1, <1>2 DEF Unlink

\* The inode that ialloc has taken is nobody's, and the slot that iget gives it, p's alone.
LEMMA IallocGetStep ==
    ASSUME IInv, NEW p \in Procs, IallocGet(p)
    PROVE  IInv'
<1>0. Typed /\ CallsOK /\ Counted /\ Once /\ CallAt(p) /\ Knows(p)
  BY DEF IInv, CallsOK, Known
<1>1. PICK d, i, g : d = dp[p] /\ i = call[p].inum /\ g = SlotOf(call[p].inum)
  OBVIOUS
<1>2. /\ puts[p] = <<>> /\ pc[p] = "iget" /\ CanGet(i) /\ inode' = Iget(inode, i)
      /\ ip' = [ip EXCEPT ![p] = g] /\ dp' = [dp EXCEPT ![p] = d] /\ pc' = [pc EXCEPT ![p] = "fill"]
      /\ dinode' = dinode /\ call' = call /\ path' = path /\ cwd' = cwd /\ puts' = puts
      /\ lock' = lock /\ file' = file /\ freeing' = freeing /\ load' = load
  BY <1>1 DEF IallocGet, Ready, disk, Points, Goto
<1>3. /\ d \in Slots /\ Held(d) /\ ip[p] = NoSlot /\ call[p] \in Calls /\ call[p].op \in {"create", "mkdir"}
      /\ d # NoSlot /\ freeing[p] = "no" /\ Avoids(call[p].new) /\ pc[p] \in DpLocked
      /\ Has(p, d) /\ i \in Inums /\ call[p].op # "close" /\ Len(path[p]) = 1 /\ Name(p) # DotDot
  BY <1>0, <1>1, <1>2, ReadyFacts DEF WithIp, WithDp, DpLocked, IpLocked, CallAt, Named
<1>4. /\ Filling(p) /\ Fresh(p) = i /\ dinode[i] = [FreeInode EXCEPT !.type = NewType(p)]
      /\ \A q \in Procs, s \in Slots : Has(q, s) => inode[s].inum # i
      /\ \A q \in Procs : Filling(q) /\ Fresh(q) = i => q = p
  <2>1. Filling(p) /\ Fresh(p) = i
    BY <1>1, <1>2 DEF Filling, Fresh
  <2>2. Reserves(p)
    BY <1>0 DEF Knows
  <2> QED BY <1>2, <2>1, <2>2 DEF Reserves
<1>5. Found(p, i)
  <2>1. dinode[i].type # "FREE"
    BY <1>4 DEF FreeInode, NewType
  <2>2. ASSUME NEW q \in Procs \ {p}, freeing[q] = "trunc" PROVE inode[puts[q][1]].inum # i
    <3>1. PICK t \in Slots : t = puts[q][1] /\ Has(q, t)
      <4>1. Len(puts[q]) >= 1 /\ puts[q][1] \in Slots
        BY <1>0, <2>2, ConstantFacts, OwnHas
      <4> QED BY <2>2, <4>1 DEF Has
    <3> QED BY <1>4, <3>1
  <2> QED BY <1>3, <1>4, <2>1, <2>2 DEF Found
<1>6. PICK T : T = inode
  OBVIOUS
<1>7. Viewed(T)
  BY <1>6 DEF Viewed
<1>8. /\ GetsFrom(p, T, g) /\ g \in Slots /\ g # NoSlot /\ inode'[g].inum = i
      /\ \A s \in Slots : Held(s) => inode'[s].inum = inode[s].inum /\ inode'[s].valid = inode[s].valid
  <2>1. inode' = Iget(T, i) /\ g = SlotOf(i)
    BY <1>1, <1>2, <1>6
  <2> QED BY <1>2, <1>5, <1>6, <1>7, <2>1, Gets
<1>9. Frame(p)
  <2>1. Keeps(p)
    BY <1>0, <1>2 DEF Keeps, Typed
  <2>2. Moved(p)
    BY <1>0, <1>2, <1>3, <1>8 DEF Moved, Typed, Steps, WithIp
  <2> QED BY <1>0, <2>1, <2>2, MovedFrame
<1>10. Now(p, cwd[p], file[p], g, d, <<>>) /\ pc'[p] = "fill" /\ call'[p] = call[p] /\ path'[p] = path[p]
  BY <1>0, <1>2 DEF Now, Typed
<1>11. Passes(p, g)
  BY <1>1, <1>3, <1>10 DEF Passes
<1>12. CallAt(p)'
  <2>1. /\ Len(puts'[p]) = 0 /\ puts'[p] = <<>> /\ dp'[p] # NoSlot /\ ip'[p] # NoSlot
        /\ freeing'[p] = "no" /\ Len(path'[p]) = 1 /\ Name(p)' # DotDot
    BY <1>2, <1>3, <1>8, <1>10 DEF Now, Name
  <2> QED BY <1>3, <1>10, <2>1 DEF CallAt, WithIp, WithDp, Named
<1>13. ip'[p] # dp'[p] /\ inode'[d].inum # i
  BY <1>3, <1>4, <1>8, <1>10 DEF Now
<1>14. Filling(p)' /\ Fresh(p)' = i /\ StillPending(p)
  BY <1>8, <1>10 DEF Filling, Fresh, Now, StillPending, Linking
<1>15. Reserves(p)'
  <2>1. dinode'[i] = [FreeInode EXCEPT !.type = NewType(p)']
    BY <1>2, <1>4 DEF NewType
  <2>2. ASSUME NEW q \in Procs, NEW s \in Slots, Has(q, s)', inode'[s].inum = i
        PROVE  q = p /\ s = g
    <3>1. ASSUME Has(q, s) PROVE FALSE
      <4>1. Held(s)
        BY <1>0, <3>1, HasHeld
      <4> QED BY <1>4, <1>8, <2>2, <3>1, <4>1
    <3>2. q = p
      BY <1>9, <2>2, <3>1, OthersStay DEF Frame
    <3>3. Has(p, s)' => Has(p, s) \/ s = g
      BY <1>1, <1>2, <1>3, <1>10 DEF Has, Now
    <3> QED BY <2>2, <3>1, <3>2, <3>3
  <2>3. ASSUME NEW q \in Procs, q # p, Filling(q)', Fresh(q)' = i PROVE FALSE
    <3>1. Filling(q) /\ pc'[q] = pc[q] /\ call'[q] = call[q] /\ ip'[q] = ip[q]
      BY <1>9, <2>3, OthersStay DEF Frame, Others
    <3>2. CASE pc[q] = "iget"
      <4>1. Fresh(q) = i
        BY <2>3, <3>1, <3>2 DEF Fresh
      <4> QED BY <1>4, <2>3, <3>1, <4>1
    <3>3. CASE pc[q] # "iget"
      <4>1. PICK t : t = ip[q]
        OBVIOUS
      <4>2. CallAt(q) /\ pc[q] \in WithIp /\ ip[q] \in Slots \cup {NoSlot}
        BY <1>0, <3>1, <3>3 DEF CallsOK, Filling, WithIp, Typed
      <4>3. t \in Slots /\ Has(q, t)
        BY <4>1, <4>2 DEF CallAt, Has
      <4>4. Held(t)
        BY <1>0, <4>3, HasHeld
      <4>5. Fresh(q) = i
        BY <1>8, <2>3, <3>1, <3>3, <4>1, <4>3, <4>4 DEF Fresh
      <4> QED BY <1>4, <2>3, <3>1, <4>5
    <3> QED BY <3>2, <3>3
  <2> QED BY <1>3, <1>10, <1>14, <2>1, <2>2, <2>3 DEF Reserves, Now
<1>16. Knows(p)'
  <2>1. inode[d].valid /\ Disk(d).type = "DIR"
    BY <1>0, <1>1, <1>2 DEF Knows, KnowsValid, KnowsKinds, DpLocked, WithDp
  <2>2. inode'[d].valid /\ Disk(dp[p])'.type = "DIR"
    BY <1>2, <1>3, <1>8, <1>10, <2>1 DEF Disk, Now
  <2>3. KnowsValid(p)' /\ KnowsKinds(p)' /\ KnowsEntry(p)'
    BY <1>2, <1>3, <1>10, <2>2 DEF KnowsValid, KnowsKinds, KnowsEntry, Now, IpLocked, Linking
  <2> QED BY <1>15, <2>3 DEF Knows
<1>17. LocksMove(p)
  <2>1. pc'[p] \in DpLocked /\ dp'[p] = dp[p]
    BY <1>1, <1>10 DEF Now, DpLocked
  <2> QED BY <1>2, <1>3, <1>13, <2>1, DpKept
<1>18. Filling(p)' => Filling(p) /\ Fresh(p)' = Fresh(p)
  BY <1>4, <1>14
<1> QED BY <1>2, <1>7, <1>8, <1>9, <1>11, <1>12, <1>14, <1>16, <1>17, <1>18, QuietCall

\* An error path: ip is put while dp is locked.
LEMMA UndoesStep ==
    ASSUME IInv, NEW p \in Procs, puts[p] = <<>>, pc[p] \in {"fill", "erase"}, MayLock(ip[p]),
           inode' = Read(ip[p]), dinode' = dinode, UNCHANGED <<lock, call, path, cwd, file, freeing>>,
           load' \in Loads /\ load'.calls = load.calls,
           Points(p, NoSlot, dp[p]), Put(p, <<ip[p]>>), Goto(p, "undo")
    PROVE  IInv'
<1>0. Typed /\ CallAt(p) /\ Knows(p)
  BY DEF IInv, CallsOK, Known
<1>1. PICK d, i : d = dp[p] /\ i = ip[p]
  OBVIOUS
<1>2. /\ inode' = Read(i) /\ MayLock(i) /\ call' = call /\ path' = path /\ cwd' = cwd
      /\ lock' = lock /\ file' = file /\ freeing' = freeing
      /\ ip' = [ip EXCEPT ![p] = NoSlot] /\ dp' = [dp EXCEPT ![p] = d] /\ puts' = [puts EXCEPT ![p] = <<i>>]
      /\ pc' = [pc EXCEPT ![p] = "undo"]
  BY <1>1 DEF Points, Put, Goto
<1>3. /\ d \in Slots /\ Held(d) /\ i \in Slots /\ Held(i) /\ call[p] \in Calls /\ call[p].op # "close"
      /\ d # NoSlot /\ freeing[p] = "no" /\ Avoids(call[p].new) /\ pc[p] \in DpLocked /\ i # d
  BY <1>0, <1>1, ReadyFacts DEF WithIp, WithDp, DpLocked, IpLocked, IInv, LocksOK
<1>4. Frame(p)
  <2>1. Keeps(p)
    BY <1>0, <1>2 DEF Keeps, Typed
  <2>2. Moved(p)
    BY <1>0, <1>2, <1>3 DEF Moved, Typed, Steps, WithDp
  <2> QED BY <1>0, <2>1, <2>2, MovedFrame
<1>5. Now(p, cwd[p], file[p], NoSlot, d, <<i>>) /\ pc'[p] = "undo" /\ call'[p] = call[p]
  BY <1>0, <1>2 DEF Now, Typed
<1>6. Passes(p, NoSlot)
  BY <1>1, <1>5 DEF Passes
<1>7. CallAt(p)'
  <2>1. /\ Len(puts'[p]) <= 2 /\ Len(puts'[p]) # 2 /\ dp'[p] # NoSlot /\ ip'[p] = NoSlot /\ freeing'[p] = "no"
    BY <1>2, <1>3, <1>5, <1>6, PassesFew DEF Now
  <2> QED BY <1>3, <1>5, <2>1 DEF CallAt, WithIp, WithDp, Named
<1>8. Viewed(Read(i)) /\ Read(i)[d] = inode[d]
  BY <1>2, <1>3, ReadFacts DEF Viewed
<1>9. Knows(p)' /\ ~Filling(p)' /\ StillPending(p)
  <2>1. inode[d].valid /\ Disk(d).type = "DIR"
    BY <1>0, <1>1 DEF Knows, KnowsValid, KnowsKinds, DpLocked, WithDp
  <2>2. inode'[d].valid /\ Disk(dp[p])'.type = "DIR"
    BY <1>2, <1>3, <1>5, <1>8, <2>1 DEF Disk, Now
  <2>3. KnowsValid(p)' /\ KnowsKinds(p)' /\ KnowsEntry(p)'
    BY <1>2, <1>3, <1>5, <2>2 DEF KnowsValid, KnowsKinds, KnowsEntry, Now, IpLocked, Linking
  <2>4. ~Filling(p)' /\ Reserves(p)' /\ StillPending(p)
    BY <1>5 DEF Filling, Reserves, StillPending, Linking
  <2> QED BY <2>3, <2>4 DEF Knows
<1>10. LocksMove(p)
  <2>1. pc'[p] \in DpLocked /\ dp'[p] = dp[p] /\ pc'[p] \notin {"fill", "erase"}
    BY <1>1, <1>5 DEF Now, DpLocked
  <2> QED BY <1>2, <1>3, <2>1, DpKept
<1>11. PICK T : T = Read(i)
  OBVIOUS
<1>12. Viewed(T) /\ GetsFrom(p, T, NoSlot)
  BY <1>2, <1>8, <1>11 DEF GetsFrom
<1> QED BY <1>2, <1>4, <1>6, <1>7, <1>9, <1>10, <1>12, QuietCall

\* What create has allocated has no link on the disk: dinode does not change.
LEMMA FillFailsStep ==
    ASSUME IInv, NEW p \in Procs, FillFails(p)
    PROVE  IInv'
<1>0. Typed /\ Knows(p)
  BY DEF IInv, Known
<1>1. PICK s, i : s = ip[p] /\ i = inode[ip[p]].inum
  OBVIOUS
<1>2. /\ puts[p] = <<>> /\ pc[p] = "fill" /\ MayLock(s) /\ load.full > 0
      /\ load' = [load EXCEPT !.full = @ - 1]
      /\ inode' = [Read(s) EXCEPT ![s].nlink = 0] /\ dinode' = [dinode EXCEPT ![i].nlink = 0]
      /\ Points(p, NoSlot, dp[p]) /\ Put(p, <<ip[p]>>) /\ Goto(p, "undo")
      /\ UNCHANGED <<lock, call, path, cwd, file, freeing>>
  BY <1>1 DEF FillFails, Ready
<1>3. s \in Slots /\ Held(s) /\ i \in Inums
  BY <1>1, <1>2, ReadyFacts DEF WithIp, IInv, Once
<1>4. dinode[i] = [FreeInode EXCEPT !.type = NewType(p)]
  <2>1. Reserves(p) /\ Filling(p) /\ Fresh(p) = i
    BY <1>0, <1>1, <1>2 DEF Knows, Filling, Fresh
  <2> QED BY <2>1 DEF Reserves
<1>5. dinode[i].nlink = 0 /\ dinode[i] \in Dinodes
  BY <1>0, <1>3, <1>4 DEF FreeInode, Typed
<1>6. dinode' = dinode
  <2>1. PICK x \in Dinodes : x = dinode[i] /\ x.nlink = 0
    BY <1>5
  <2>2. [x EXCEPT !.nlink = 0] = x
    BY <2>1 DEF Dinodes
  <2>3. dinode' = [dinode EXCEPT ![i] = x]
    BY <1>2, <2>1, <2>2
  <2> QED BY <1>0, <2>1, <2>3 DEF Typed
<1>7. inode' = Read(s)
  <2>1. Disk(s).nlink = 0
    BY <1>1, <1>5 DEF Disk
  <2>2. Read(s)[s].nlink = 0 /\ Read(s) \in Table
    BY <1>2, <1>3, <2>1, ReadFacts DEF SameSlots
  <2>3. PICK T \in Table : T = Read(s)
    BY <2>2
  <2>4. PICK x \in [ref : Nat, inum : Inums \cup {NoInum}, valid : BOOLEAN, type : Types, nlink : Nat] :
           x = T[s] /\ x.nlink = 0
    BY <1>3, <2>2, <2>3 DEF Table
  <2>5. [x EXCEPT !.nlink = 0] = x
    BY <2>4
  <2>6. inode' = [T EXCEPT ![s] = x]
    BY <1>2, <2>3, <2>4, <2>5
  <2> QED BY <2>3, <2>4, <2>6 DEF Table
<1>8. load' \in Loads /\ load'.calls = load.calls
  BY <1>0, <1>2, LoadCounts
<1> QED BY <1>1, <1>2, <1>6, <1>7, <1>8, UndoesStep

LEMMA EraseFull ==
    ASSUME IInv, NEW p \in Procs, Ready(p, "erase"), MayLock(ip[p]), inode' = Read(ip[p]),
           Points(p, NoSlot, dp[p]), Put(p, <<ip[p]>>), Goto(p, "undo"),
           UNCHANGED <<disk, lock, call, path, cwd, file, freeing, load>>
    PROVE  IInv'
<1>1. load' \in Loads /\ load'.calls = load.calls
  BY DEF IInv, Typed
<1> QED BY <1>1, UndoesStep DEF Ready, disk

\* The new name exists: its inode is put while dp is locked.
LEMMA LinkExists ==
    ASSUME IInv, NEW p \in Procs, Ready(p, "linknew"), MayLock(dp[p]),
           Entry(p) # NoInum, CanGet(Entry(p)), inode' = Iget(Read(dp[p]), Entry(p)),
           lock' = [lock EXCEPT ![dp[p]] = p], Put(p, <<SlotOf(Entry(p))>>),
           Goto(p, "linkundo"), UNCHANGED <<disk, call, path, ip, dp, load, cwd, file, freeing>>
    PROVE  IInv'
<1>0. Typed /\ CallAt(p) /\ Knows(p)
  BY DEF IInv, CallsOK, Known
<1>1. PICK d, n, e, g, i : d = dp[p] /\ n = Name(p) /\ e = Entry(p) /\ g = SlotOf(Entry(p)) /\ i = ip[p]
  OBVIOUS
<1>2. /\ puts[p] = <<>> /\ pc[p] = "linknew" /\ MayLock(d) /\ e # NoInum /\ CanGet(e)
      /\ inode' = Iget(Read(d), e) /\ lock' = [lock EXCEPT ![d] = p]
      /\ puts' = [puts EXCEPT ![p] = <<g>>] /\ pc' = [pc EXCEPT ![p] = "linkundo"]
      /\ dinode' = dinode /\ call' = call /\ path' = path /\ cwd' = cwd /\ ip' = ip /\ dp' = dp
      /\ file' = file /\ freeing' = freeing /\ load' = load
  BY <1>1 DEF Ready, disk, Put, Goto
<1>3. /\ d \in Slots /\ Held(d) /\ i \in Slots /\ Held(i) /\ call[p] \in Calls /\ call[p].op # "close"
      /\ d # NoSlot /\ i # NoSlot /\ freeing[p] = "no" /\ Avoids(call[p].new) /\ pc[p] \notin DpLocked \cup IpLocked
  BY <1>0, <1>1, <1>2, ReadyFacts DEF WithIp, WithDp, DpLocked, IpLocked
<1>4. n # DotDot /\ n \in Names /\ e = Disk(d).entries[n] /\ Disk(d).type = "DIR" /\ Disk(i).type = "FILE"
  <2>1. Len(path[p]) = 1 /\ n # DotDot
    BY <1>0, <1>1, <1>2 DEF CallAt, Named
  <2>2. PICK u \in Seq(Names) : u = path[p] /\ Len(u) = 1
    BY <1>0, <2>1 DEF Typed
  <2>3. u[1] \in Names
    BY <2>2
  <2> QED BY <1>0, <1>1, <1>2, <2>1, <2>2, <2>3 DEF Name, Entry, Knows, KnowsKinds, WithDp, Linking
<1>5. PICK T : T = Read(d)
  OBVIOUS
<1>6. /\ Viewed(T) /\ Found(p, e)
  BY <1>2, <1>3, <1>4, <1>5, DirFacts
<1>7. /\ GetsFrom(p, T, g) /\ g \in Slots /\ g # NoSlot
      /\ \A s \in Slots : Held(s) => inode'[s].inum = inode[s].inum /\ inode'[s].valid = T[s].valid
  <2>1. inode' = Iget(T, e) /\ g = SlotOf(e)
    BY <1>1, <1>2, <1>5
  <2> QED BY <1>2, <1>3, <1>6, <2>1, Gets
<1>8. Frame(p)
  <2>1. Keeps(p)
    BY <1>0, <1>2 DEF Keeps, Typed
  <2>2. Moved(p)
    BY <1>0, <1>2, <1>3, <1>7 DEF Moved, Typed, Steps, WithIp
  <2> QED BY <1>0, <2>1, <2>2, MovedFrame
<1>9. Now(p, cwd[p], file[p], i, d, <<g>>) /\ pc'[p] = "linkundo" /\ call'[p] = call[p]
  BY <1>0, <1>1, <1>2 DEF Now, Typed
<1>10. Passes(p, g)
  BY <1>1, <1>9 DEF Passes
<1>11. CallAt(p)'
  <2>1. /\ Len(puts'[p]) <= 2 /\ Len(puts'[p]) # 2 /\ dp'[p] # NoSlot /\ ip'[p] # NoSlot /\ freeing'[p] = "no"
    BY <1>2, <1>3, <1>9, <1>10, PassesFew DEF Now
  <2> QED BY <1>3, <1>9, <2>1 DEF CallAt, WithIp, WithDp, Named
<1>12. Knows(p)' /\ ~Filling(p)' /\ StillPending(p)
  <2>1. inode'[d].valid
    BY <1>2, <1>3, <1>5, <1>7, ReadFacts
  <2>2. Disk(dp[p])'.type = "DIR" /\ Disk(ip[p])'.type = "FILE"
    BY <1>2, <1>3, <1>4, <1>7, <1>9 DEF Disk, Now
  <2>3. KnowsValid(p)' /\ KnowsKinds(p)'
    BY <1>2, <1>3, <1>9, <2>1, <2>2 DEF KnowsValid, KnowsKinds, Now, IpLocked
  <2>4. KnowsEntry(p)' /\ ~Filling(p)' /\ Reserves(p)'
    BY <1>9 DEF KnowsEntry, Filling, Reserves
  <2>5. StillPending(p)
    BY <1>1, <1>2, <1>9 DEF StillPending, Linking, Now
  <2> QED BY <2>3, <2>4, <2>5 DEF Knows
<1>13. LocksMove(p)
  BY <1>2, <1>3, <1>9, DpTaken DEF Now, DpLocked
<1> QED BY <1>2, <1>6, <1>7, <1>8, <1>10, <1>11, <1>12, <1>13, QuietCall

\* The disk has no block for the new name.
LEMMA LinkNoBlock ==
    ASSUME IInv, NEW p \in Procs, Ready(p, "linknew"), MayLock(dp[p]), inode' = Read(dp[p]),
           load.full > 0, load' = [load EXCEPT !.full = @ - 1],
           Put(p, <<dp[p]>>), Points(p, ip[p], NoSlot), Goto(p, "unlinkold"),
           UNCHANGED <<disk, lock, call, path, cwd, file, freeing>>
    PROVE  IInv'
<1>0. Typed
  BY DEF IInv
<1>1. /\ puts[p] = <<>> /\ pc[p] = "linknew" /\ dinode' = dinode
      /\ puts' = [puts EXCEPT ![p] = <<dp[p]>>] /\ pc' = [pc EXCEPT ![p] = "unlinkold"]
      /\ call' = call /\ path' = path /\ cwd' = cwd /\ lock' = lock
      /\ ip' = [ip EXCEPT ![p] = ip[p]] /\ dp' = [dp EXCEPT ![p] = NoSlot]
      /\ file' = file /\ freeing' = freeing
  BY DEF Ready, disk, Put, Points, Goto
<1>2. dp[p] \in Slots /\ Held(dp[p]) /\ ip[p] \in Slots
  BY <1>1, ReadyFacts DEF WithDp, WithIp
<1>3. Viewed(inode') /\ Unlocks(p)
  BY <1>1, <1>2 DEF Viewed, Unlocks, DpLocked, IpLocked
<1>4. load' \in Loads /\ load'.calls = load.calls
  BY <1>0, LoadCounts
<1>5. Keeps(p)
  BY <1>0, <1>1, <1>4 DEF Keeps, Typed
<1>6. Moved(p)
  BY <1>0, <1>1, <1>2 DEF Moved, Typed, Steps, WithIp
<1>7. Now(p, cwd[p], file[p], ip[p], NoSlot, <<dp[p]>>) /\ pc'[p] = "unlinkold" /\ call'[p] = call[p]
  BY <1>0, <1>1, <1>2 DEF Now, Typed
<1>8. pc[p] \in WithDp /\ pc[p] \in Linking
  BY <1>1 DEF WithDp, Linking
<1> QED BY <1>0, <1>1, <1>3, <1>5, <1>6, <1>7, <1>8, MovedFrame, FailStep

LEMMA LinkUndoStep ==
    ASSUME IInv, NEW p \in Procs, LinkUndo(p)
    PROVE  IInv'
<1>0. Typed
  BY DEF IInv
<1>1. /\ puts[p] = <<>> /\ pc[p] = "linkundo" /\ dinode' = dinode /\ inode' = inode
      /\ puts' = [puts EXCEPT ![p] = <<dp[p]>>] /\ pc' = [pc EXCEPT ![p] = "unlinkold"]
      /\ call' = call /\ path' = path /\ cwd' = cwd /\ lock' = [lock EXCEPT ![dp[p]] = Nobody]
      /\ ip' = [ip EXCEPT ![p] = ip[p]] /\ dp' = [dp EXCEPT ![p] = NoSlot]
      /\ file' = file /\ freeing' = freeing /\ load' = load
  BY DEF LinkUndo, Ready, disk, Put, Points, Goto
<1>2. dp[p] \in Slots /\ Held(dp[p]) /\ ip[p] \in Slots
  BY <1>1, ReadyFacts DEF WithDp, WithIp
<1>3. Viewed(inode') /\ Unlocks(p)
  BY <1>1, <1>2 DEF Viewed, Unlocks, DpLocked, IpLocked
<1>5. Keeps(p)
  BY <1>0, <1>1 DEF Keeps, Typed
<1>6. Moved(p)
  BY <1>0, <1>1, <1>2 DEF Moved, Typed, Steps, WithIp
<1>7. Now(p, cwd[p], file[p], ip[p], NoSlot, <<dp[p]>>) /\ pc'[p] = "unlinkold" /\ call'[p] = call[p]
  BY <1>0, <1>1, <1>2 DEF Now, Typed
<1>8. pc[p] \in WithDp /\ pc[p] \in Linking
  BY <1>1 DEF WithDp, Linking
<1> QED BY <1>0, <1>1, <1>3, <1>5, <1>6, <1>7, <1>8, MovedFrame, FailStep

-----------------------------------------------------------------------------
(* iput.                                                                   *)

LEMMA ShortSequences ==
    ASSUME NEW S, NEW u \in Seq(S)
    PROVE  /\ Len(u) = 0 => u = <<>>
           /\ Len(u) = 1 => u = <<u[1]>>
           /\ Len(u) = 2 => u = <<u[1], u[2]>>
<1>1. Len(u) = 0 => u = <<>>
  OBVIOUS
<1>2. Len(u) = 1 => u = <<u[1]>>
  OBVIOUS
<1>3. Len(u) = 2 => u = <<u[1], u[2]>>
  OBVIOUS
<1> QED BY <1>1, <1>2, <1>3

\* A count changes by one.
LEMMA TotalPut ==
    ASSUME NEW c, NEW f, NEW i, NEW d, NEW a, NEW b, NEW s \in Slots
    PROVE  Total(c, f, i, d, a, b, s) = Total(c, f, i, d, b, NoSlot, s) + Is(a, s)
<1>1. \A y : Is(y, s) \in {0, 1}
  BY DEF Is
<1>2. PICK x1 \in {0, 1}, x2 \in {0, 1}, x3 \in {0, 1}, x4 \in {0, 1}, x5 \in {0, 1}, x6 \in {0, 1} :
        /\ x1 = Is(c, s) /\ x2 = Is(f, s) /\ x3 = Is(i, s) /\ x4 = Is(d, s) /\ x5 = Is(a, s)
        /\ x6 = Is(b, s)
  BY <1>1
<1>3. Is(NoSlot, s) = 0
  BY ConstantFacts DEF Is
<1> QED BY <1>2, <1>3 DEF Total

\* The inode that the process puts.
LEMMA PutFacts ==
    ASSUME IInv, NEW p \in Procs, puts[p] # <<>>
    PROVE  LET s == Head(puts[p]) IN
           /\ s \in Slots /\ s = puts[p][1] /\ Held(s) /\ inode[s].inum \in Inums
           /\ Len(puts[p]) >= 1 /\ Len(puts[p]) \in Nat
           /\ freeing[p] \in {"no", "trunc"} => Has(p, s)
           /\ \A t \in Slots : ~Has(p, t) => ~(cwd[p] = t \/ file[p] = t \/ ip[p] = t \/ dp[p] = t)
           /\ pc[p] \notin {"ialloc", "iget", "fill", "erase"} /\ ~Filling(p)
           /\ Tail(puts[p]) \in Seq(Slots)
           /\ Len(puts[p]) = 1 => Tail(puts[p]) = <<>>
           /\ Len(puts[p]) = 2 => Tail(puts[p]) = <<puts[p][2]>> /\ pc[p] = "user"
           /\ Len(puts[p]) \in {1, 2}
<1>0. Typed /\ CallsOK /\ Counted /\ Once /\ CallAt(p)
  BY DEF IInv, CallsOK
<1>1. PICK u \in Seq(Slots) : u = puts[p] /\ u # <<>>
  BY <1>0 DEF Typed
<1>2. /\ Head(u) \in Slots /\ Head(u) = u[1] /\ Len(u) >= 1 /\ Len(u) \in Nat /\ Tail(u) \in Seq(Slots)
      /\ Len(u) = 1 => Tail(u) = <<>>
      /\ Len(u) = 2 => Tail(u) = <<u[2]>>
  <2>1. Head(u) \in Slots /\ Head(u) = u[1] /\ Len(u) \in Nat /\ Tail(u) \in Seq(Slots)
    BY <1>1
  <2>2. Len(u) # 0
    BY <1>1
  <2>3. Len(u) >= 1
    BY <2>1, <2>2
  <2>4. Len(Tail(u)) = Len(u) - 1
    BY <1>1
  <2>5. ASSUME Len(u) = 1 PROVE Tail(u) = <<>>
    <3>1. Len(Tail(u)) = 0
      BY <2>4, <2>5
    <3> QED BY <2>1, <3>1, ShortSequences
  <2>6. ASSUME Len(u) = 2 PROVE Tail(u) = <<u[2]>>
    <3>1. Len(Tail(u)) = 1 /\ Tail(u)[1] = u[2]
      BY <1>1, <2>4, <2>6
    <3> QED BY <2>1, <3>1, ShortSequences
  <2> QED BY <2>1, <2>3, <2>5, <2>6
<1>3. PICK s \in Slots : s = Head(u) /\ s = u[1]
  BY <1>2
<1>4. Len(u) \in {1, 2} /\ (Len(u) = 2 => pc[p] = "user")
  <2>1. \A n \in Nat : n >= 1 /\ n <= 2 => n \in {1, 2}
    OBVIOUS
  <2>2. Len(u) <= 2
    BY <1>0, <1>1 DEF CallAt
  <2>3. Len(u) = 2 => pc[p] = "user"
    BY <1>0, <1>1 DEF CallAt
  <2> QED BY <1>2, <2>1, <2>2, <2>3
<1>5. pc[p] \notin {"ialloc", "iget", "fill", "erase"}
  BY <1>0, <1>1 DEF CallAt
<1>6. freeing[p] \in {"no", "trunc"} => Has(p, s)
  BY <1>1, <1>2, <1>3 DEF Has
<1>7. Held(s)
  <2>1. freeing[p] \in {"no", "trunc", "unlock", "drop"}
    BY <1>0 DEF Typed
  <2> QED BY <1>0, <1>1, <1>3, <1>6, <2>1, HasHeld
<1>8. \A t \in Slots : ~Has(p, t) => ~(cwd[p] = t \/ file[p] = t \/ ip[p] = t \/ dp[p] = t)
  BY DEF Has
<1> QED BY <1>0, <1>1, <1>2, <1>3, <1>4, <1>5, <1>6, <1>7, <1>8 DEF Once, Filling

\* The table without a reference to s.
LEMMA LessRef ==
    ASSUME IInv, NEW s \in Slots, Held(s), inode' = [inode EXCEPT ![s].ref = @ - 1]
    PROVE  /\ inode' \in Table
           /\ \A t \in Slots : /\ inode'[t].ref + Is(s, t) = inode[t].ref
                               /\ inode'[t].inum = inode[t].inum
                               /\ inode'[t].valid = inode[t].valid
                               /\ inode'[t].type = inode[t].type
                               /\ inode'[t].nlink = inode[t].nlink
                               /\ Held(t)' => Held(t)
<1>1. inode \in Table
  BY DEF IInv, Typed
<1>2. PICK x \in [ref : Nat, inum : Inums \cup {NoInum}, valid : BOOLEAN, type : Types, nlink : Nat] :
         x = inode[s] /\ x.ref > 0
  BY <1>1 DEF Table, Held
<1>3. PICK n \in Nat : n = x.ref - 1
  BY <1>2
<1>4. PICK y : y = [x EXCEPT !.ref = n]
  OBVIOUS
<1>5. /\ y \in [ref : Nat, inum : Inums \cup {NoInum}, valid : BOOLEAN, type : Types, nlink : Nat]
      /\ y.ref = n /\ y.inum = x.inum /\ y.valid = x.valid /\ y.type = x.type /\ y.nlink = x.nlink
  BY <1>4
<1>6. inode' = [inode EXCEPT ![s] = y]
  BY <1>2, <1>3, <1>4
<1>7. inode' \in Table /\ inode'[s] = y /\ \A t \in Slots : t # s => inode'[t] = inode[t]
  BY <1>1, <1>5, <1>6 DEF Table
<1>8. Is(s, s) = 1 /\ \A t : t # s => Is(s, t) = 0
  BY DEF Is
<1>9. \A t \in Slots : inode[t].ref \in Nat
  BY <1>1 DEF Table
<1>10. ASSUME NEW t \in Slots
       PROVE  /\ inode'[t].ref + Is(s, t) = inode[t].ref
              /\ inode'[t].inum = inode[t].inum
              /\ inode'[t].valid = inode[t].valid
              /\ inode'[t].type = inode[t].type
              /\ inode'[t].nlink = inode[t].nlink
              /\ Held(t)' => Held(t)
  <2>1. CASE t = s
    BY <1>2, <1>3, <1>5, <1>7, <1>8, <2>1 DEF Held
  <2>2. CASE t # s
    BY <1>7, <1>8, <1>9, <2>2 DEF Held
  <2> QED BY <2>1, <2>2
<1> QED BY <1>7, <1>10

\* The process has one pointer to s less.
LEMMA LessOwn ==
    ASSUME IInv, NEW p \in Procs, puts[p] # <<>>, Typed', NEW s \in Slots, s = Head(puts[p]),
           cwd' = cwd, file' = file, ip' = ip, dp' = dp, puts' = [puts EXCEPT ![p] = Tail(@)],
           freeing' = [freeing EXCEPT ![p] = "no"], freeing[p] \in {"no", "drop"}
    PROVE  \A t \in Slots : /\ Own(p, t) = Own(p, t)' + Is(s, t)
                            /\ Own(p, t)' \in Nat
                            /\ Has(p, t)' => Has(p, t)
                            /\ Has(p, t)' <=> Own(p, t)' > 0
<1>0. Typed /\ CallsOK
  BY DEF IInv
<1>1. /\ s = puts[p][1] /\ Len(puts[p]) \in {1, 2}
      /\ Len(puts[p]) = 1 => Tail(puts[p]) = <<>>
      /\ Len(puts[p]) = 2 => Tail(puts[p]) = <<puts[p][2]>>
  BY PutFacts
<1>2. puts'[p] = Tail(puts[p]) /\ freeing'[p] = "no"
  BY <1>0 DEF Typed
<1>3. PICK c, f, i, d, b : c = cwd[p] /\ f = file[p] /\ i = ip[p] /\ d = dp[p] /\ b = puts[p][2]
  OBVIOUS
<1>4. Len(<<>>) = 0 /\ Len(<<b>>) = 1 /\ <<b>>[1] = b
  OBVIOUS
<1>6. /\ \A n \in {0} : ~(n >= 1) /\ ~(n >= 2)
      /\ \A n \in {1} : n >= 1 /\ ~(n >= 2)
      /\ \A n \in {2} : n >= 2
  OBVIOUS
<1>7. \A t \in Slots :
         /\ Total(c, f, i, d, s, b, t) = Total(c, f, i, d, b, NoSlot, t) + Is(s, t)
         /\ Total(c, f, i, d, s, NoSlot, t) = Total(c, f, i, d, NoSlot, NoSlot, t) + Is(s, t)
  <2> SUFFICES ASSUME NEW t \in Slots
               PROVE  /\ Total(c, f, i, d, s, b, t) = Total(c, f, i, d, b, NoSlot, t) + Is(s, t)
                      /\ Total(c, f, i, d, s, NoSlot, t) = Total(c, f, i, d, NoSlot, NoSlot, t) + Is(s, t)
    OBVIOUS
  <2> QED BY TotalPut
<1>5. ASSUME NEW t \in Slots
      PROVE  /\ Own(p, t) = Own(p, t)' + Is(s, t)
             /\ Own(p, t)' \in Nat
             /\ Has(p, t)' => Has(p, t)
             /\ Has(p, t)' <=> Own(p, t)' > 0
  <2>1. Listed(Own(p, t), c, f, i, d, puts[p], t) /\ Listed(Own(p, t)', c, f, i, d, puts'[p], t)
    BY <1>0, <1>3, OwnIs, OwnIsAfter
  <2>2. CASE Len(puts[p]) = 1
    <3>1. puts'[p] = <<>> /\ Own(p, t) = Total(c, f, i, d, s, NoSlot, t)
      BY <1>1, <1>2, <2>1, <2>2 DEF Listed
    <3>2. Own(p, t)' = Total(c, f, i, d, NoSlot, NoSlot, t)
      BY <2>1, <3>1 DEF Listed
    <3>3. Own(p, t) = Own(p, t)' + Is(s, t)
      BY <1>7, <3>1, <3>2
    <3>4. ~(Len(puts'[p]) >= 1) /\ ~(Len(puts'[p]) >= 2)
      <4>1. Len(puts'[p]) \in {0}
        BY <1>4, <3>1
      <4> QED BY <1>6, <4>1
    <3>5. Has(p, t)' <=> c = t \/ f = t \/ i = t \/ d = t
      BY <1>3, <3>4 DEF Has
    <3> QED BY <1>3, <2>1, <3>3, <3>4, <3>5 DEF Has, Listed
  <2>3. CASE Len(puts[p]) = 2
    <3>1. puts'[p] = <<b>> /\ Own(p, t) = Total(c, f, i, d, s, b, t)
      BY <1>1, <1>2, <1>3, <2>1, <2>3 DEF Listed
    <3>2. Len(puts'[p]) = 1 /\ puts'[p][1] = b /\ Own(p, t)' = Total(c, f, i, d, b, NoSlot, t)
      BY <1>4, <2>1, <3>1 DEF Listed
    <3>3. Own(p, t) = Own(p, t)' + Is(s, t)
      BY <1>7, <3>1, <3>2
    <3>4. Len(puts'[p]) >= 1 /\ ~(Len(puts'[p]) >= 2) /\ Len(puts[p]) >= 2
      <4>1. Len(puts'[p]) \in {1} /\ Len(puts[p]) \in {2}
        BY <2>3, <3>2
      <4> QED BY <1>6, <4>1
    <3>5. Has(p, t)' <=> c = t \/ f = t \/ i = t \/ d = t \/ b = t
      BY <1>2, <1>3, <3>2, <3>4 DEF Has
    <3> QED BY <1>3, <2>1, <3>2, <3>3, <3>4, <3>5 DEF Has, Listed
  <2> QED BY <1>1, <2>2, <2>3
<1> QED BY <1>5

\* A reference is dropped.
LEMMA DropStep ==
    ASSUME IInv, NEW p \in Procs, puts[p] # <<>>, freeing[p] \in {"no", "drop"},
           NEW s, s = Head(puts[p]), inode' = [inode EXCEPT ![s].ref = @ - 1],
           puts' = [puts EXCEPT ![p] = Tail(@)], freeing' = [freeing EXCEPT ![p] = "no"],
           UNCHANGED <<disk, lock, local, cwd, file, load>>
    PROVE  IInv'
<1>0. Typed /\ CallsOK /\ Counted /\ Once /\ LocksOK /\ Agrees /\ CallAt(p) /\ Knows(p)
  BY DEF IInv, CallsOK, Known
<1>1. /\ dinode' = dinode /\ lock' = lock /\ pc' = pc /\ call' = call /\ ip' = ip /\ dp' = dp
      /\ path' = path /\ cwd' = cwd /\ file' = file /\ load' = load
  BY DEF disk, local
<1>2. /\ s \in Slots /\ s = puts[p][1] /\ Held(s) /\ Tail(puts[p]) \in Seq(Slots)
      /\ Len(puts[p]) \in {1, 2} /\ ~Filling(p)
      /\ Len(puts[p]) = 1 => Tail(puts[p]) = <<>>
      /\ Len(puts[p]) = 2 => Tail(puts[p]) = <<puts[p][2]>>
      /\ pc[p] \notin {"ialloc", "iget", "fill", "erase"}
  BY PutFacts
<1>3. /\ inode' \in Table
      /\ \A t \in Slots : /\ inode'[t].ref + Is(s, t) = inode[t].ref
                          /\ inode'[t].inum = inode[t].inum
                          /\ inode'[t].valid = inode[t].valid
                          /\ inode'[t].type = inode[t].type
                          /\ inode'[t].nlink = inode[t].nlink
                          /\ Held(t)' => Held(t)
  BY <1>2, LessRef
<1>4. Typed'
  BY <1>0, <1>1, <1>2, <1>3 DEF Typed
<1>5. Others(p) /\ puts'[p] = Tail(puts[p]) /\ freeing'[p] = "no"
  BY <1>0, <1>1 DEF Others, Typed
<1>6. \A t \in Slots : /\ Own(p, t) = Own(p, t)' + Is(s, t)
                       /\ Own(p, t)' \in Nat
                       /\ Has(p, t)' => Has(p, t)
                       /\ Has(p, t)' <=> Own(p, t)' > 0
  BY <1>1, <1>2, <1>4, LessOwn
<1>7. \A t \in Slots : Is(s, t) \in {0, 1}
  BY DEF Is
<1>8. RefsMove(p)
  <2>1. ASSUME NEW t \in Slots PROVE inode'[t].ref + Own(p, t) = inode[t].ref + Own(p, t)'
    <3>1. PICK a, b, c, d, e : /\ a = inode'[t].ref /\ b = inode[t].ref /\ c = Own(p, t)
                               /\ d = Own(p, t)' /\ e = Is(s, t)
      OBVIOUS
    <3>2. a + e = b /\ c = d + e /\ d \in Nat /\ e \in {0, 1} /\ a \in Nat
      BY <1>3, <1>6, <1>7, <3>1 DEF Table
    <3>3. a + c = b + d
      BY <3>2
    <3> QED BY <3>1, <3>3
  <2> QED BY <2>1 DEF RefsMove
<1>9. TableMove(p)
  BY <1>3 DEF TableMove
<1>10. PointersMove(p)
  <2>1. ASSUME NEW t \in Slots, Own(p, t)' > 0 PROVE Own(p, t) > 0
    <3>1. Has(p, t)
      BY <1>6, <2>1
    <3> QED BY <1>0, <3>1, OwnHas
  <2>2. ~Filling(p)'
    BY <1>1, <1>2 DEF Filling
  <2> QED BY <1>6, <2>1, <2>2 DEF PointersMove
<1>11. LocksMove(p)
  <2>1. \A t \in Slots : Locks(p, t)' <=> Locks(p, t)
    BY <1>1, <1>5 DEF Locks
  <2> QED BY <1>1, <1>2, <2>1, LocksStay
<1>12. StillPending(p)
  BY <1>1 DEF StillPending
<1>13. DiskMove(p) /\ DiskOK'
  BY <1>1, <1>5, <1>9, <1>12, DiskStays
<1>14. CallAt(p)'
  <2>1. Len(puts'[p]) \in {0, 1}
    <3>1. Len(<<>>) = 0 /\ \A x : Len(<<x>>) = 1
      OBVIOUS
    <3> QED BY <1>2, <1>5, <3>1
  <2>2. \A n \in {0, 1} : n <= 2 /\ n # 2
    OBVIOUS
  <2>3. Len(puts'[p]) <= 2 /\ Len(puts'[p]) # 2
    BY <2>1, <2>2
  <2> QED BY <1>0, <1>1, <1>2, <1>5, <2>3 DEF CallAt, Name
<1>15. Agrees'
  <2>1. ASSUME NEW t \in Slots, Held(t)', inode'[t].valid, \A q \in Procs : ~Leaves(q, t)'
        PROVE  /\ inode'[t].type = Disk(t)'.type /\ inode'[t].nlink = Disk(t)'.nlink
               /\ inode'[t].type # "FREE"
    <3>1. \A q \in Procs : ~Leaves(q, t)
      <4>1. \A q \in Procs \ {p} : ~Leaves(q, t)
        BY <1>5, <2>1, OthersStay
      <4>2. ~Leaves(p, t)
        BY DEF Leaves
      <4> QED BY <4>1, <4>2
    <3>2. Held(t) /\ inode[t].valid /\ Disk(t)' = Disk(t)
      BY <1>1, <1>3, <2>1 DEF Disk
    <3> QED BY <1>0, <1>3, <2>1, <3>1, <3>2 DEF Agrees
  <2> QED BY <2>1 DEF Agrees
<1>16. Knows(p)'
  <2>1. /\ pc[p] \in WithDp => dp[p] \in Slots
        /\ pc[p] \in WithIp => ip[p] \in Slots
    BY <1>0 DEF Typed, CallAt
  <2>2. KnowsValid(p)'
    BY <1>0, <1>1, <1>3, <1>5, <2>1 DEF Knows, KnowsValid, DpLocked, IpLocked, WithDp, WithIp
  <2>3. KnowsKinds(p)'
    <3>1. ASSUME pc[p] \in WithDp \ {"walk", "walknew"} PROVE Disk(dp[p])'.type = "DIR"
      <4>1. PICK d \in Slots : d = dp[p] /\ Disk(d).type = "DIR"
        BY <1>0, <2>1, <3>1 DEF Knows, KnowsKinds
      <4> QED BY <1>1, <1>3, <4>1 DEF Disk
    <3>2. ASSUME pc[p] \in Linking PROVE Disk(ip[p])'.type = "FILE"
      <4>1. pc[p] \in WithIp
        BY <3>2 DEF Linking, WithIp
      <4>2. PICK d \in Slots : d = ip[p] /\ Disk(d).type = "FILE"
        BY <1>0, <2>1, <3>2, <4>1 DEF Knows, KnowsKinds
      <4> QED BY <1>1, <1>3, <4>2 DEF Disk
    <3> QED BY <1>1, <3>1, <3>2 DEF KnowsKinds
  <2>4. KnowsEntry(p)' /\ Reserves(p)'
    BY <1>1, <1>2 DEF KnowsEntry, Reserves, Filling
  <2> QED BY <2>2, <2>3, <2>4 DEF Knows
<1> QED BY <1>4, <1>5, <1>8, <1>9, <1>10, <1>11, <1>13, <1>14, <1>15, <1>16, StepKeeps

LEMMA IputDropStep ==
    ASSUME IInv, NEW p \in Procs, IputDrop(p)
    PROVE  IInv'
<1>1. PICK s : s = Head(puts[p])
  OBVIOUS
<1>2. freeing' = [freeing EXCEPT ![p] = "no"]
  BY DEF IputDrop, IInv, Typed
<1> QED BY <1>1, <1>2, DropStep DEF IputDrop

LEMMA IputEndStep ==
    ASSUME IInv, NEW p \in Procs, IputEnd(p)
    PROVE  IInv'
<1>1. PICK s : s = Head(puts[p])
  OBVIOUS
<1>2. puts[p] # <<>>
  BY DEF IputEnd, IInv, CallsOK, CallAt
<1> QED BY <1>1, <1>2, DropStep DEF IputEnd

\* iput frees an inode: the pointers and the references stay.
LEMMA FreeingFrame ==
    ASSUME IInv, NEW p \in Procs, puts[p] # <<>>,
           NEW x \in {"trunc", "unlock", "drop"}, freeing' = [freeing EXCEPT ![p] = x],
           UNCHANGED <<local, cwd, file, puts, load>>,
           dinode' \in [Inums -> Dinodes], lock' \in [Slots -> Procs \cup {Nobody}], inode' \in Table,
           \A t \in Slots : inode'[t].ref = inode[t].ref /\ inode'[t].inum = inode[t].inum
    PROVE  /\ Typed' /\ Others(p) /\ RefsMove(p) /\ StillPending(p) /\ freeing'[p] = x
           /\ \A t \in Slots : Own(p, t)' = Own(p, t) /\ (Held(t)' <=> Held(t))
           /\ pc' = pc /\ call' = call /\ ip' = ip /\ dp' = dp /\ path' = path
           /\ cwd' = cwd /\ file' = file /\ puts' = puts /\ load' = load
<1>0. Typed
  BY DEF IInv
<1>1. /\ pc' = pc /\ call' = call /\ ip' = ip /\ dp' = dp /\ path' = path
      /\ cwd' = cwd /\ file' = file /\ puts' = puts /\ load' = load
  BY DEF local
<1>2. freeing'[p] = x /\ \A q \in Procs \ {p} : freeing'[q] = freeing[q]
  BY <1>0 DEF Typed
<1>3. freeing' \in [Procs -> {"no", "trunc", "unlock", "drop"}]
  BY <1>0 DEF Typed
<1>4. Typed'
  BY <1>0, <1>1, <1>3 DEF Typed
<1>5. Others(p)
  BY <1>1, <1>2 DEF Others
<1>6. \A t \in Slots : Own(p, t)' = Own(p, t)
  BY <1>1 DEF Own, Share, Firsts, Seconds
<1>7. RefsMove(p)
  BY <1>6 DEF RefsMove
<1>8. StillPending(p)
  BY <1>1 DEF StillPending
<1>9. \A t \in Slots : Held(t)' <=> Held(t)
  BY DEF Held
<1> QED BY <1>1, <1>2, <1>4, <1>5, <1>6, <1>7, <1>8, <1>9

\* What the process knows of the other inodes that it has.
LEMMA FreeingKnows ==
    ASSUME IInv, NEW p \in Procs, puts[p] # <<>>,
           pc' = pc, call' = call, ip' = ip, dp' = dp, path' = path,
           \A t \in Slots : t = ip[p] \/ t = dp[p] =>
               inode'[t].valid = inode[t].valid /\ Disk(t)'.type = Disk(t).type
    PROVE  /\ KnowsKinds(p)' /\ KnowsEntry(p)' /\ Reserves(p)' /\ ~Filling(p)'
           /\ pc'[p] \in DpLocked => inode'[dp'[p]].valid
           /\ pc'[p] \in IpLocked => inode'[ip'[p]].valid
           /\ pc'[p] \notin {"fill", "erase"}
<1>0. Typed /\ CallAt(p) /\ Knows(p)
  BY DEF IInv, CallsOK, Known
<1>1. pc[p] \notin {"ialloc", "iget", "fill", "erase"} /\ ~Filling(p)
  BY PutFacts
<1>2. /\ pc[p] \in WithDp => dp[p] \in Slots
      /\ pc[p] \in WithIp => ip[p] \in Slots
  BY <1>0 DEF Typed, CallAt
<1>3. KnowsKinds(p)'
  <2>1. ASSUME pc[p] \in WithDp \ {"walk", "walknew"} PROVE Disk(dp[p])'.type = "DIR"
    <3>1. PICK d \in Slots : d = dp[p] /\ Disk(d).type = "DIR"
      BY <1>0, <1>2, <2>1 DEF Knows, KnowsKinds
    <3>2. Disk(d)'.type = "DIR"
      BY <3>1
    <3>3. dp'[p] = d
      BY <3>1
    <3> QED BY <3>1, <3>2, <3>3 DEF Disk
  <2>2. ASSUME pc[p] \in Linking PROVE Disk(ip[p])'.type = "FILE"
    <3>1. pc[p] \in WithIp
      BY <2>2 DEF Linking, WithIp
    <3>2. PICK d \in Slots : d = ip[p] /\ Disk(d).type = "FILE"
      BY <1>0, <1>2, <2>2, <3>1 DEF Knows, KnowsKinds
    <3>3. Disk(d)'.type = "FILE"
      BY <3>2
    <3>4. ip'[p] = d
      BY <3>2
    <3> QED BY <3>2, <3>3, <3>4 DEF Disk
  <2> QED BY <2>1, <2>2 DEF KnowsKinds
<1>4. KnowsEntry(p)' /\ Reserves(p)' /\ ~Filling(p)'
  BY <1>1 DEF KnowsEntry, Reserves, Filling
<1>5. pc[p] \in DpLocked => inode'[dp[p]].valid
  BY <1>0, <1>2 DEF Knows, KnowsValid, DpLocked, WithDp
<1>6. pc[p] \in IpLocked => inode'[ip[p]].valid
  BY <1>0, <1>2 DEF Knows, KnowsValid, IpLocked, WithIp
<1> QED BY <1>1, <1>3, <1>4, <1>5, <1>6 DEF Filling

LEMMA IputLastStep ==
    ASSUME IInv, NEW p \in Procs, IputLast(p)
    PROVE  IInv'
<1>0. Typed /\ CallsOK /\ LocksOK /\ Agrees /\ CallAt(p)
  BY DEF IInv, CallsOK
<1>1. PICK s : s = Head(puts[p])
  OBVIOUS
<1>2. /\ s \in Slots /\ s = puts[p][1] /\ Held(s) /\ puts[p] # <<>> /\ freeing[p] = "no"
      /\ lock[s] = Nobody /\ lock' = [lock EXCEPT ![s] = p] /\ LastPut(s)
      /\ freeing' = [freeing EXCEPT ![p] = "trunc"] /\ inode' = inode /\ dinode' = dinode
      /\ UNCHANGED <<local, cwd, file, puts, load>>
  BY <1>1, PutFacts DEF IputLast, disk
<1>3. /\ dinode' \in [Inums -> Dinodes] /\ lock' \in [Slots -> Procs \cup {Nobody}] /\ inode' \in Table
  BY <1>0, <1>2 DEF Typed
<1>4. /\ Typed' /\ Others(p) /\ RefsMove(p) /\ StillPending(p) /\ freeing'[p] = "trunc"
      /\ \A t \in Slots : Own(p, t)' = Own(p, t) /\ (Held(t)' <=> Held(t))
      /\ pc' = pc /\ call' = call /\ ip' = ip /\ dp' = dp /\ path' = path
      /\ cwd' = cwd /\ file' = file /\ puts' = puts /\ load' = load
  BY <1>2, <1>3, FreeingFrame
<1>5. \A t \in Slots : Has(p, t)' <=> Has(p, t)
  BY <1>2, <1>4 DEF Has
<1>6. TableMove(p)
  BY <1>2, <1>4 DEF TableMove
<1>7. DiskMove(p) /\ DiskOK'
  BY <1>2, <1>4, <1>6, DiskStays
<1>8. \A t \in Slots : Disk(t)' = Disk(t)
  BY <1>2 DEF Disk
<1>9. /\ KnowsKinds(p)' /\ KnowsEntry(p)' /\ Reserves(p)' /\ ~Filling(p)'
      /\ pc'[p] \in DpLocked => inode'[dp'[p]].valid
      /\ pc'[p] \in IpLocked => inode'[ip'[p]].valid
      /\ pc'[p] \notin {"fill", "erase"}
  BY <1>2, <1>4, <1>8, FreeingKnows
<1>10. PointersMove(p)
  BY <1>4, <1>5, <1>9 DEF PointersMove
<1>11. LocksMove(p)
  <2>1. \A t \in Slots : Locks(p, t)' <=> Locks(p, t) \/ t = s
    BY <1>2, <1>4 DEF Locks
  <2>2. \A t \in Slots : lock'[t] = IF t = s THEN p ELSE lock[t]
    BY <1>0, <1>2 DEF Typed
  <2>3. \A t \in Slots, q \in Procs : lock[t] = q <=> Locks(q, t)
    BY <1>0 DEF LocksOK
  <2> QED BY <1>2, <1>9, <2>1, <2>2, <2>3, ConstantFacts DEF LocksMove
<1>12. CallAt(p)'
  BY <1>0, <1>2, <1>4, <1>5 DEF CallAt, Name
<1>13. Agrees'
  <2>1. \A q \in Procs, t \in Slots : Leaves(q, t) => Leaves(q, t)'
    BY <1>2, <1>4 DEF Leaves, Others
  <2>2. ASSUME NEW t \in Slots, Held(t)', inode'[t].valid, \A q \in Procs : ~Leaves(q, t)'
        PROVE  /\ inode'[t].type = Disk(t)'.type /\ inode'[t].nlink = Disk(t)'.nlink
               /\ inode'[t].type # "FREE"
    <3>1. \A q \in Procs : ~Leaves(q, t)
      BY <2>1, <2>2
    <3>2. Held(t) /\ inode[t].valid
      BY <1>2, <1>4, <2>2
    <3>3. /\ inode[t].type = Disk(t).type /\ inode[t].nlink = Disk(t).nlink
          /\ inode[t].type # "FREE"
      BY <1>0, <3>1, <3>2 DEF Agrees
    <3> QED BY <1>2, <1>8, <3>3
  <2> QED BY <2>2 DEF Agrees
<1>14. KnowsValid(p)'
  BY <1>2, <1>4, <1>9 DEF KnowsValid, LastPut
<1>15. Knows(p)'
  BY <1>9, <1>14 DEF Knows
<1> QED BY <1>4, <1>6, <1>7, <1>10, <1>11, <1>12, <1>13, <1>15, StepKeeps

LEMMA IputUnlockStep ==
    ASSUME IInv, NEW p \in Procs, IputUnlock(p)
    PROVE  IInv'
<1>0. Typed /\ CallsOK /\ LocksOK /\ Agrees /\ CallAt(p)
  BY DEF IInv, CallsOK
<1>1. PICK s : s = Head(puts[p])
  OBVIOUS
<1>2. puts[p] # <<>> /\ freeing[p] = "unlock"
  BY <1>0 DEF IputUnlock, CallAt
<1>3. /\ s \in Slots /\ s = puts[p][1] /\ Held(s)
      /\ lock' = [lock EXCEPT ![s] = Nobody] /\ inode' = [inode EXCEPT ![s].valid = FALSE]
      /\ freeing' = [freeing EXCEPT ![p] = "drop"] /\ dinode' = dinode
      /\ UNCHANGED <<local, cwd, file, puts, load>>
  BY <1>1, <1>2, PutFacts DEF IputUnlock, disk
<1>4. /\ ~Has(p, s) /\ ip[p] # s /\ dp[p] # s
  BY <1>0, <1>2, <1>3 DEF CallAt, Has
<1>5. /\ inode' \in Table
      /\ \A t \in Slots : /\ inode'[t].ref = inode[t].ref /\ inode'[t].inum = inode[t].inum
                          /\ inode'[t].type = inode[t].type /\ inode'[t].nlink = inode[t].nlink
                          /\ t # s => inode'[t].valid = inode[t].valid
      /\ ~inode'[s].valid
  <2>1. PICK x \in [ref : Nat, inum : Inums \cup {NoInum}, valid : BOOLEAN, type : Types, nlink : Nat] :
           x = inode[s]
    BY <1>0, <1>3 DEF Typed, Table
  <2>2. PICK y : y = [x EXCEPT !.valid = FALSE]
    OBVIOUS
  <2>3. /\ y \in [ref : Nat, inum : Inums \cup {NoInum}, valid : BOOLEAN, type : Types, nlink : Nat]
        /\ y.ref = x.ref /\ y.inum = x.inum /\ y.type = x.type /\ y.nlink = x.nlink /\ ~y.valid
    BY <2>2
  <2>4. inode' = [inode EXCEPT ![s] = y]
    BY <1>3, <2>1, <2>2
  <2>5. inode \in Table
    BY <1>0 DEF Typed
  <2>6. inode' \in Table /\ inode'[s] = y /\ \A t \in Slots : t # s => inode'[t] = inode[t]
    BY <1>3, <2>3, <2>4, <2>5 DEF Table
  <2> QED BY <1>3, <2>1, <2>3, <2>6
<1>6. dinode' \in [Inums -> Dinodes] /\ lock' \in [Slots -> Procs \cup {Nobody}]
  BY <1>0, <1>3 DEF Typed
<1>7. /\ Typed' /\ Others(p) /\ RefsMove(p) /\ StillPending(p) /\ freeing'[p] = "drop"
      /\ \A t \in Slots : Own(p, t)' = Own(p, t) /\ (Held(t)' <=> Held(t))
      /\ pc' = pc /\ call' = call /\ ip' = ip /\ dp' = dp /\ path' = path
      /\ cwd' = cwd /\ file' = file /\ puts' = puts /\ load' = load
  BY <1>2, <1>3, <1>5, <1>6, FreeingFrame
<1>8. \A t \in Slots : Has(p, t)' <=> Has(p, t)
  BY <1>2, <1>7 DEF Has
<1>9. /\ \A t \in Slots, q \in Procs : lock[t] = q <=> Locks(q, t)
      /\ Locks(p, s) /\ \A q \in Procs \ {p} : ~Locks(q, s)
  <2>1. \A t \in Slots, q \in Procs : lock[t] = q <=> Locks(q, t)
    BY <1>0 DEF LocksOK
  <2>2. Locks(p, s)
    BY <1>2, <1>3 DEF Locks
  <2> QED BY <1>3, <2>1, <2>2
<1>10. TableMove(p)
  BY <1>5, <1>7, <1>9 DEF TableMove
<1>11. DiskMove(p) /\ DiskOK'
  BY <1>3, <1>7, <1>10, DiskStays
<1>12. \A t \in Slots : Disk(t)' = Disk(t)
  BY <1>3, <1>5 DEF Disk
<1>13. /\ KnowsKinds(p)' /\ KnowsEntry(p)' /\ Reserves(p)' /\ ~Filling(p)'
       /\ pc'[p] \in DpLocked => inode'[dp'[p]].valid
       /\ pc'[p] \in IpLocked => inode'[ip'[p]].valid
       /\ pc'[p] \notin {"fill", "erase"}
  <2>1. \A t \in Slots : t = ip[p] \/ t = dp[p] =>
            inode'[t].valid = inode[t].valid /\ Disk(t)'.type = Disk(t).type
    BY <1>4, <1>5, <1>12
  <2> QED BY <1>2, <1>7, <2>1, FreeingKnows
<1>14. PointersMove(p)
  BY <1>7, <1>8, <1>13 DEF PointersMove
<1>15. LocksMove(p)
  <2>1. \A t \in Slots : Locks(p, t)' <=> Locks(p, t) /\ t # s
    BY <1>2, <1>3, <1>4, <1>7 DEF Locks
  <2>2. \A t \in Slots : lock'[t] = IF t = s THEN Nobody ELSE lock[t]
    BY <1>0, <1>3 DEF Typed
  <2> QED BY <1>3, <1>9, <1>13, <2>1, <2>2, ConstantFacts DEF LocksMove
<1>16. CallAt(p)'
  <2>1. ~Has(p, puts[p][1])'
    BY <1>3, <1>4, <1>7, <1>8
  <2> QED BY <1>0, <1>2, <1>7, <2>1 DEF CallAt, Name
<1>17. Agrees'
  <2>1. ASSUME NEW t \in Slots, Held(t)', inode'[t].valid, \A q \in Procs : ~Leaves(q, t)'
        PROVE  /\ inode'[t].type = Disk(t)'.type /\ inode'[t].nlink = Disk(t)'.nlink
               /\ inode'[t].type # "FREE"
    <3>1. t # s
      BY <1>5, <2>1
    <3>2. ~Leaves(p, t)
      BY <1>3, <3>1 DEF Leaves
    <3>3. \A q \in Procs \ {p} : ~Leaves(q, t)
      BY <1>7, <2>1, OthersStay
    <3>4. \A q \in Procs : ~Leaves(q, t)
      BY <3>2, <3>3
    <3>5. Held(t) /\ inode[t].valid
      BY <1>5, <1>7, <2>1, <3>1
    <3>6. /\ inode[t].type = Disk(t).type /\ inode[t].nlink = Disk(t).nlink
          /\ inode[t].type # "FREE"
      BY <1>0, <3>4, <3>5 DEF Agrees
    <3> QED BY <1>5, <1>12, <3>6
  <2> QED BY <2>1 DEF Agrees
<1>18. KnowsValid(p)'
  BY <1>7, <1>13 DEF KnowsValid
<1>19. Knows(p)'
  BY <1>13, <1>18 DEF Knows
<1> QED BY <1>7, <1>10, <1>11, <1>14, <1>15, <1>16, <1>17, <1>19, StepKeeps

LEMMA IputTruncStep ==
    ASSUME IInv, NEW p \in Procs, IputTrunc(p)
    PROVE  IInv'
<1>0. Typed /\ CallsOK /\ Counted /\ Once /\ LocksOK /\ Agrees /\ CallAt(p) /\ Knows(p) /\ DiskOK
  BY DEF IInv, CallsOK, Known
<1>1. PICK s : s = Head(puts[p])
  OBVIOUS
<1>2. puts[p] # <<>> /\ freeing[p] = "trunc"
  BY <1>0 DEF IputTrunc, CallAt
<1>3. /\ s \in Slots /\ s = puts[p][1] /\ Held(s) /\ inode[s].inum \in Inums /\ Has(p, s)
      /\ lock' = lock /\ inode' = [inode EXCEPT ![s].type = "FREE"]
      /\ freeing' = [freeing EXCEPT ![p] = "unlock"]
      /\ dinode' = [dinode EXCEPT ![inode[s].inum] = FreeInode]
      /\ UNCHANGED <<local, cwd, file, puts, load>>
  BY <1>1, <1>2, PutFacts DEF IputTrunc
<1>4. PICK i \in Inums : i = inode[s].inum
  BY <1>3
<1>5. /\ inode' \in Table
      /\ \A t \in Slots : /\ inode'[t].ref = inode[t].ref /\ inode'[t].inum = inode[t].inum
                          /\ inode'[t].valid = inode[t].valid /\ inode'[t].nlink = inode[t].nlink
                          /\ t # s => inode'[t].type = inode[t].type
  <2>1. PICK x \in [ref : Nat, inum : Inums \cup {NoInum}, valid : BOOLEAN, type : Types, nlink : Nat] :
           x = inode[s]
    BY <1>0, <1>3 DEF Typed, Table
  <2>2. PICK y : y = [x EXCEPT !.type = "FREE"]
    OBVIOUS
  <2>3. /\ y \in [ref : Nat, inum : Inums \cup {NoInum}, valid : BOOLEAN, type : Types, nlink : Nat]
        /\ y.ref = x.ref /\ y.inum = x.inum /\ y.valid = x.valid /\ y.nlink = x.nlink
    BY <2>2 DEF Types
  <2>4. inode' = [inode EXCEPT ![s] = y]
    BY <1>3, <2>1, <2>2
  <2>5. inode \in Table
    BY <1>0 DEF Typed
  <2>6. inode' \in Table /\ inode'[s] = y /\ \A t \in Slots : t # s => inode'[t] = inode[t]
    BY <1>3, <2>3, <2>4, <2>5 DEF Table
  <2> QED BY <1>3, <2>1, <2>3, <2>6
<1>6. /\ dinode' \in [Inums -> Dinodes] /\ dinode'[i] = FreeInode
      /\ \A j \in Inums : j # i => dinode'[j] = dinode[j]
  <2>1. FreeInode \in Dinodes
    BY DEF FreeInode, Dinodes, Types, Empty
  <2>2. dinode \in [Inums -> Dinodes]
    BY <1>0 DEF Typed
  <2> QED BY <1>3, <1>4, <2>1, <2>2
<1>7. FreeInode.type = "FREE" /\ FreeInode.nlink = 0
  BY DEF FreeInode
<1>8. lock' \in [Slots -> Procs \cup {Nobody}]
  BY <1>0, <1>3 DEF Typed
<1>9. /\ Typed' /\ Others(p) /\ RefsMove(p) /\ StillPending(p) /\ freeing'[p] = "unlock"
      /\ \A t \in Slots : Own(p, t)' = Own(p, t) /\ (Held(t)' <=> Held(t))
      /\ pc' = pc /\ call' = call /\ ip' = ip /\ dp' = dp /\ path' = path
      /\ cwd' = cwd /\ file' = file /\ puts' = puts /\ load' = load
  BY <1>2, <1>3, <1>5, <1>6, <1>8, FreeingFrame
<1>10. /\ \A t \in Slots, q \in Procs : lock[t] = q <=> Locks(q, t)
       /\ Locks(p, s) /\ \A q \in Procs \ {p} : ~Locks(q, s)
  <2>1. \A t \in Slots, q \in Procs : lock[t] = q <=> Locks(q, t)
    BY <1>0 DEF LocksOK
  <2>2. Locks(p, s)
    BY <1>2, <1>3 DEF Locks
  <2> QED BY <1>3, <2>1, <2>2
<1>11. \A q \in Procs : ~Leaves(q, s)
  BY <1>2, <1>3, <1>10 DEF Leaves, Locks
<1>12. inode[s].ref = 1 /\ inode[s].valid /\ inode[s].nlink = 0
  BY <1>0, <1>2, <1>3 DEF Knows, KnowsValid
\* The inode has no link, so no name, and the process is the only one that has it.
<1>13. dinode[i].nlink = 0 /\ dinode[i].type # "FREE"
  BY <1>0, <1>3, <1>4, <1>11, <1>12 DEF Agrees, Disk
<1>14. /\ NamesOf(i) = {} /\ Parents(i) = {} /\ Pending(i) = {} /\ i # Root
  <2>1. Links(i) <= 0 /\ Links(i) \in Nat
    BY <1>0, <1>13, LinkCounts DEF DiskOK
  <2>2. Links(i) = 0
    BY <2>1
  <2> QED BY <2>2, LinkCounts
<1>15. \A q \in Procs \ {p} : ~Has(q, s)
  <2> SUFFICES ASSUME NEW q \in Procs \ {p} PROVE ~Has(q, s)
    OBVIOUS
  <2>1. Own(p, s) \in Nat /\ Own(p, s) > 0 /\ Own(q, s) \in Nat
    BY <1>0, <1>3, OwnHas
  <2>2. Covers(inode[s].ref, Own(p, s), Own(q, s))
    BY <1>0, <1>3, HasHeld
  <2>3. ~(Own(q, s) > 0)
    BY <1>12, <2>1, <2>2 DEF Covers
  <2> QED BY <1>0, <1>3, <2>3, OwnHas
<1>16. /\ cwd[p] # s /\ file[p] # s /\ ip[p] # s /\ dp[p] # s
       /\ ~(Len(puts[p]) >= 2 /\ puts[p][2] = s)
  <2>1. PICK c, f, j, d, b : c = cwd[p] /\ f = file[p] /\ j = ip[p] /\ d = dp[p] /\ b = puts[p][2]
    OBVIOUS
  <2>2. Covers(inode[s].ref, Own(p, s), 0) /\ Listed(Own(p, s), c, f, j, d, puts[p], s)
    BY <1>0, <1>3, <2>1, HasHeld, OwnIs
  <2>3. Own(p, s) \in {0, 1}
    <3>1. \A n \in Nat : n <= 1 => n \in {0, 1}
      OBVIOUS
    <3>2. Own(p, s) <= 1 /\ Own(p, s) \in Nat
      BY <1>12, <2>2 DEF Covers
    <3> QED BY <3>1, <3>2
  <2>4. Is(s, s) = 1
    BY DEF Is
  <2>5. ASSUME NEW a, a = b \/ a = NoSlot, Own(p, s) = Total(c, f, j, d, s, a, s)
        PROVE  c # s /\ f # s /\ j # s /\ d # s /\ a # s
    <3>1. Own(p, s) = Total(c, f, j, d, a, NoSlot, s) + 1
      BY <1>3, <2>4, <2>5, TotalPut
    <3>2. Total(c, f, j, d, a, NoSlot, s) \in Nat
      BY TotalIs
    <3>3. ~(Total(c, f, j, d, a, NoSlot, s) > 0)
      BY <2>3, <3>1, <3>2
    <3> QED BY <3>3, TotalIs
  <2>6. Len(puts[p]) \in {1, 2}
    BY <1>2, PutFacts
  <2>7. CASE Len(puts[p]) = 1
    <3>1. Own(p, s) = Total(c, f, j, d, s, NoSlot, s)
      BY <1>3, <2>2, <2>7 DEF Listed
    <3>2. c # s /\ f # s /\ j # s /\ d # s
      BY <2>5, <3>1
    <3>3. \A n \in {1} : ~(n >= 2)
      OBVIOUS
    <3> QED BY <2>1, <2>7, <3>2, <3>3
  <2>8. CASE Len(puts[p]) = 2
    <3>1. Own(p, s) = Total(c, f, j, d, s, b, s)
      BY <1>3, <2>1, <2>2, <2>8 DEF Listed
    <3>2. c # s /\ f # s /\ j # s /\ d # s /\ b # s
      BY <2>5, <3>1
    <3> QED BY <2>1, <3>2
  <2> QED BY <2>6, <2>7, <2>8
<1>17. \A t \in Slots : Has(p, t)' <=> Has(p, t) /\ t # s
  <2>1. ASSUME NEW t \in Slots PROVE Has(p, t)' <=> Has(p, t) /\ t # s
    <3>1. CASE t = s
      BY <1>2, <1>9, <1>16, <3>1 DEF Has
    <3>2. CASE t # s
      BY <1>2, <1>3, <1>9, <3>2 DEF Has
    <3> QED BY <3>1, <3>2
  <2> QED BY <2>1
<1>18. \A q \in Procs, t \in Slots : Has(q, t)' => Has(q, t) /\ t # s
  BY <1>9, <1>15, <1>17, OthersStay
<1>19. \A t \in Slots : Held(t) /\ t # s => inode[t].inum # i /\ inode[t].inum \in Inums
  BY <1>0, <1>3, <1>4 DEF Once
<1>20. \A q \in Procs, t \in Slots : Has(q, t)' => inode'[t].inum # i
  <2>1. ASSUME NEW q \in Procs, NEW t \in Slots, Has(q, t)' PROVE inode'[t].inum # i
    <3>1. Held(t) /\ t # s
      BY <1>0, <1>18, <2>1, HasHeld
    <3> QED BY <1>5, <1>19, <3>1
  <2> QED BY <2>1
<1>21. TableMove(p)
  BY <1>5, <1>9 DEF TableMove
<1>22. DiskMove(p)
  BY <1>3, <1>4, <1>6, <1>10, <1>20 DEF DiskMove
<1>23. \A t \in Slots : Held(t) /\ t # s => Disk(t)' = Disk(t)
  BY <1>5, <1>6, <1>19 DEF Disk
<1>24. /\ KnowsKinds(p)' /\ KnowsEntry(p)' /\ Reserves(p)' /\ ~Filling(p)'
       /\ pc'[p] \in DpLocked => inode'[dp'[p]].valid
       /\ pc'[p] \in IpLocked => inode'[ip'[p]].valid
       /\ pc'[p] \notin {"fill", "erase"}
  <2>1. ASSUME NEW t \in Slots, t = ip[p] \/ t = dp[p]
        PROVE  inode'[t].valid = inode[t].valid /\ Disk(t)'.type = Disk(t).type
    <3>1. Has(p, t) /\ t # s
      BY <1>16, <2>1 DEF Has
    <3>2. Held(t)
      BY <1>0, <3>1, HasHeld
    <3> QED BY <1>5, <1>23, <3>1, <3>2
  <2> QED BY <1>2, <1>9, <2>1, FreeingKnows
<1>25. PointersMove(p)
  BY <1>9, <1>17, <1>24 DEF PointersMove
<1>26. LocksMove(p)
  <2>1. \A t \in Slots : Locks(p, t)' <=> Locks(p, t)
    BY <1>2, <1>9 DEF Locks
  <2> QED BY <1>3, <1>24, <2>1, LocksStay
<1>27. CallAt(p)'
  <2>1. ~Has(p, puts[p][1])'
    BY <1>3, <1>9, <1>17
  <2> QED BY <1>0, <1>2, <1>9, <2>1 DEF CallAt, Name
<1>28. Agrees'
  <2>1. ASSUME NEW t \in Slots, Held(t)', inode'[t].valid, \A q \in Procs : ~Leaves(q, t)'
        PROVE  /\ inode'[t].type = Disk(t)'.type /\ inode'[t].nlink = Disk(t)'.nlink
               /\ inode'[t].type # "FREE"
    <3>1. t # s
      <4>1. Leaves(p, s)'
        BY <1>3, <1>9 DEF Leaves
      <4> QED BY <2>1, <4>1
    <3>2. ~Leaves(p, t)
      BY <1>2 DEF Leaves
    <3>3. \A q \in Procs \ {p} : ~Leaves(q, t)
      BY <1>9, <2>1, OthersStay
    <3>4. \A q \in Procs : ~Leaves(q, t)
      BY <3>2, <3>3
    <3>5. Held(t) /\ inode[t].valid
      BY <1>5, <1>9, <2>1
    <3>6. /\ inode[t].type = Disk(t).type /\ inode[t].nlink = Disk(t).nlink
          /\ inode[t].type # "FREE"
      BY <1>0, <3>4, <3>5 DEF Agrees
    <3> QED BY <1>5, <1>23, <3>1, <3>5, <3>6
  <2> QED BY <2>1 DEF Agrees
<1>29. KnowsValid(p)'
  <2>1. inode'[s].valid /\ inode'[s].nlink = 0
    BY <1>3, <1>5, <1>12
  <2> QED BY <1>3, <1>9, <1>24, <2>1 DEF KnowsValid
<1>30. Knows(p)'
  BY <1>24, <1>29 DEF Knows
<1>31. DiskOK'
  <2>1. \A j \in Inums : NamesOf(j)' \subseteq NamesOf(j)
    BY <1>6, <1>7 DEF NamesOf
  <2>2. \A j \in Inums : Parents(j)' \subseteq Parents(j)
    BY <1>6, <1>7, <2>1 DEF Parents
  <2>3. \A j \in Inums : Pending(j)' \subseteq Pending(j)
    <3>1. \A q \in Procs : pc[q] \in Linking \cup {"drop"} => ip[q] \in Slots
      BY <1>0 DEF CallsOK, CallAt, Typed, Linking, WithIp
    <3> QED BY <1>5, <1>9, <3>1 DEF Pending
  <2>4. ASSUME NEW j \in Inums PROVE dinode'[j].type = "FREE" => dinode'[j] = FreeInode
    BY <1>0, <1>6 DEF DiskOK
  <2>5. ASSUME NEW j \in Inums PROVE OneName(j)'
    <3>1. ASSUME dinode'[j].type = "DIR"
          PROVE  /\ \A e \in NamesOf(j)' : dinode'[j].entries[DotDot] = e[1] /\ e[1] # j
                 /\ \A e, f \in NamesOf(j)' : e = f
      <4>1. dinode'[j] = dinode[j]
        BY <1>6, <1>7, <3>1
      <4>2. OneName(j) /\ dinode[j].type = "DIR"
        BY <1>0, <3>1, <4>1 DEF DiskOK
      <4>3. /\ \A e \in NamesOf(j) : dinode[j].entries[DotDot] = e[1] /\ e[1] # j
            /\ \A e, f \in NamesOf(j) : e = f
        BY <4>2 DEF OneName
      <4> QED BY <2>1, <4>1, <4>3
    <3> QED BY <3>1 DEF OneName
  <2>6. NamesOf(Root)' = {} /\ dinode'[Root].type = "DIR"
    BY <1>0, <1>6, <1>14, <2>1, ConstantFacts DEF DiskOK
  <2>7. ASSUME NEW j \in Inums PROVE Links(j)' <= dinode'[j].nlink
    <3>1. Links(j) \in Nat /\ Links(j)' \in Nat /\ Links(j)' <= Links(j)
      BY <2>1, <2>2, <2>3, LinksLess
    <3>2. Links(j) <= dinode[j].nlink /\ dinode[j].nlink \in Nat
      BY <1>0 DEF DiskOK, Typed, Dinodes
    <3>3. dinode'[j].nlink = dinode[j].nlink
      BY <1>4, <1>6, <1>7, <1>13
    <3> QED BY <3>1, <3>2, <3>3
  <2> QED BY <2>4, <2>5, <2>6, <2>7 DEF DiskOK
<1> QED BY <1>9, <1>21, <1>22, <1>25, <1>26, <1>27, <1>28, <1>30, <1>31, StepKeeps

LEMMA IputStep ==
    ASSUME IInv, NEW p \in Procs, Iput(p)
    PROVE  IInv'
BY IputDropStep, IputLastStep, IputTruncStep, IputUnlockStep, IputEndStep DEF Iput

-----------------------------------------------------------------------------
(* The steps that change links.                                            *)

\* A step of a call, with its changes on the disk.
LEMMA DiskCall ==
    ASSUME IInv, NEW p \in Procs, puts[p] = <<>>, freeing' = freeing,
           NEW T, NEW g, SameSlots(T), Spares(p, T), GetsFrom(p, T, g), Right(T), Passes(p, g),
           Frame(p), CallAt(p)', LocksMove(p), DiskMove(p), DiskOK', Knows(p)',
           Filling(p)' => dinode[Fresh(p)'].type = "FREE" \/ (Filling(p) /\ Fresh(p)' = Fresh(p))
    PROVE  IInv'
<1>1. Typed'
  <2>1. inode' \in Table
    BY TableFacts
  <2> QED BY <2>1 DEF Typed, Rest, Frame
<1>2. Adds(p, g) /\ Others(p)
  BY <1>1, Passed DEF IInv, Frame
<1> QED BY <1>1, <1>2, ReadyFacts, CallStep

\* A set that gains at most p.
LEMMA Gained ==
    ASSUME NEW S, IsFiniteSet(S), NEW A \in SUBSET S, NEW B \in SUBSET S, NEW p, B \ {p} \subseteq A
    PROVE  /\ Cardinality(A) \in Nat /\ Cardinality(B) \in Nat
           /\ Cardinality(B) + In(p, A) <= Cardinality(A) + In(p, B)
<1>1. PICK X, Y : X = B \ {p} /\ Y = A \ {p}
  OBVIOUS
<1>2. X \in SUBSET S /\ Y \in SUBSET S /\ X \in SUBSET Y /\ p \notin X /\ p \notin Y
  BY <1>1
<1>3. A \ {p} = Y \ {p} /\ B \ {p} = X \ {p}
  BY <1>1
<1>4. IsFiniteSet(Y)
  BY <1>2, FS_Subset
<1>5. Cardinality(X) <= Cardinality(Y)
  BY <1>2, <1>4, FS_Subset
<1>6. /\ Cardinality(A) \in Nat /\ Cardinality(Y) \in Nat
      /\ Cardinality(Y) + In(p, A) = Cardinality(A) + In(p, Y)
  BY <1>2, <1>3, Toggle
<1>7. /\ Cardinality(B) \in Nat /\ Cardinality(X) \in Nat
      /\ Cardinality(X) + In(p, B) = Cardinality(B) + In(p, X)
  BY <1>2, <1>3, Toggle
<1>8. In(p, X) = 0 /\ In(p, Y) = 0 /\ In(p, A) \in {0, 1} /\ In(p, B) \in {0, 1}
  BY <1>2 DEF In
<1> QED BY <1>5, <1>6, <1>7, <1>8

\* The links of an inode change by a name, a subdirectory, and what a process has in hand.
LEMMA LinksMove ==
    ASSUME NEW i \in Inums, NEW e, NEW x, NEW p, NamesOf(i)' \ {e} \subseteq NamesOf(i),
           Parents(i)' \ {x} \subseteq Parents(i), Pending(i)' \ {p} \subseteq Pending(i)
    PROVE  /\ Links(i) \in Nat /\ Links(i)' \in Nat
           /\ Links(i)' + (In(e, NamesOf(i)) + In(x, Parents(i)) + In(p, Pending(i)))
                 <= Links(i) + (In(e, NamesOf(i)') + In(x, Parents(i)') + In(p, Pending(i)'))
<1>1. PICK A, AA, B, BB, C, CC :
        /\ A = NamesOf(i) /\ AA = NamesOf(i)' /\ B = Parents(i) /\ BB = Parents(i)'
        /\ C = Pending(i) /\ CC = Pending(i)'
  OBVIOUS
<1>2. PICK S : S = Inums \X (Names \ {DotDot})
  OBVIOUS
<1>3. IsFiniteSet(S) /\ IsFiniteSet(Inums) /\ IsFiniteSet(Procs)
  BY <1>2, ConstantFacts, FS_Product, FS_Subset
<1>4. /\ A \in SUBSET S /\ AA \in SUBSET S /\ B \in SUBSET Inums /\ BB \in SUBSET Inums
      /\ C \in SUBSET Procs /\ CC \in SUBSET Procs
  BY <1>1, <1>2 DEF NamesOf, Parents, Pending
<1>5. AA \ {e} \subseteq A /\ BB \ {x} \subseteq B /\ CC \ {p} \subseteq C
  BY <1>1
<1>6. /\ Cardinality(A) \in Nat /\ Cardinality(AA) \in Nat
      /\ Cardinality(AA) + In(e, A) <= Cardinality(A) + In(e, AA)
  BY <1>3, <1>4, <1>5, Gained
<1>7. /\ Cardinality(B) \in Nat /\ Cardinality(BB) \in Nat
      /\ Cardinality(BB) + In(x, B) <= Cardinality(B) + In(x, BB)
  BY <1>3, <1>4, <1>5, Gained
<1>8. /\ Cardinality(C) \in Nat /\ Cardinality(CC) \in Nat
      /\ Cardinality(CC) + In(p, C) <= Cardinality(C) + In(p, CC)
  BY <1>3, <1>4, <1>5, Gained
<1>9. \A y, Y : In(y, Y) \in {0, 1}
  BY DEF In
<1>10. PICK a1 \in {0, 1}, a2 \in {0, 1}, b1 \in {0, 1}, b2 \in {0, 1}, c1 \in {0, 1}, c2 \in {0, 1} :
         /\ a1 = In(e, A) /\ a2 = In(e, AA) /\ b1 = In(x, B) /\ b2 = In(x, BB)
         /\ c1 = In(p, C) /\ c2 = In(p, CC)
  BY <1>9
<1>11. PICK k \in Nat, kk \in Nat, l \in Nat, ll \in Nat, m \in Nat, mm \in Nat, r \in {0, 1} :
         /\ k = Cardinality(A) /\ kk = Cardinality(AA) /\ l = Cardinality(B) /\ ll = Cardinality(BB)
         /\ m = Cardinality(C) /\ mm = Cardinality(CC) /\ r = Rooted(i)
  BY <1>6, <1>7, <1>8 DEF Rooted
<1>12. Links(i) = k + l + r + m /\ Links(i)' = kk + ll + r + mm
  BY <1>1, <1>11 DEF Links, Rooted
<1>13. kk + a1 <= k + a2 /\ ll + b1 <= l + b2 /\ mm + c1 <= m + c2
  BY <1>6, <1>7, <1>8, <1>10, <1>11
<1>14. (kk + ll + r + mm) + (a1 + b1 + c1) <= (k + l + r + m) + (a2 + b2 + c2)
  BY <1>13
<1> QED BY <1>1, <1>10, <1>12, <1>14

LEMMA PendingMoves ==
    ASSUME IInv, NEW p \in Procs, Others(p), TableMove(p), NEW i
    PROVE  Pending(i)' \ {p} \subseteq Pending(i)
<1>1. ASSUME NEW q \in Procs \ {p}, pc'[q] \in Linking \cup {"drop"}, inode'[ip'[q]].inum = i
      PROVE  q \in Pending(i)
  BY <1>1, PendingStays
<1>2. Pending(i)' = {q \in Procs : pc'[q] \in Linking \cup {"drop"} /\ inode'[ip'[q]].inum = i}
  BY DEF Pending
<1> QED BY <1>1, <1>2

\* A table with another count of links.
Renumber(T, s, n) == [T EXCEPT ![s].nlink = n]

LEMMA Renumbered ==
    ASSUME NEW T \in Table, NEW s \in Slots, NEW n \in Nat, NEW U, U = Renumber(T, s, n)
    PROVE  /\ U \in Table /\ U[s].nlink = n
           /\ \A t \in Slots : /\ U[t].ref = T[t].ref /\ U[t].inum = T[t].inum
                               /\ U[t].valid = T[t].valid /\ U[t].type = T[t].type
                               /\ t # s => U[t].nlink = T[t].nlink
<1>1. PICK x \in [ref : Nat, inum : Inums \cup {NoInum}, valid : BOOLEAN, type : Types, nlink : Nat] :
         x = T[s]
  BY DEF Table
<1>2. PICK y : y = [x EXCEPT !.nlink = n]
  OBVIOUS
<1>3. /\ y \in [ref : Nat, inum : Inums \cup {NoInum}, valid : BOOLEAN, type : Types, nlink : Nat]
      /\ y.ref = x.ref /\ y.inum = x.inum /\ y.valid = x.valid /\ y.type = x.type /\ y.nlink = n
  BY <1>2
<1>4. U = [T EXCEPT ![s] = y]
  BY <1>1, <1>2 DEF Renumber
<1>5. U \in Table /\ U[s] = y /\ \A t \in Slots : t # s => U[t] = T[t]
  BY <1>3, <1>4 DEF Table
<1> QED BY <1>1, <1>3, <1>5

LEMMA IallocTakes ==
    ASSUME IInv, NEW p \in Procs, Ready(p, "ialloc"), NEW i \in Inums, dinode[i].type = "FREE",
           dinode' = [dinode EXCEPT ![i] = [FreeInode EXCEPT !.type = NewType(p)]],
           call' = [call EXCEPT ![p].inum = i], Goto(p, "iget"),
           UNCHANGED <<lock, ip, dp, path, puts, inode, cwd, file, freeing, load>>
    PROVE  IInv'
<1>0. Typed /\ CallsOK /\ Once /\ LocksOK /\ Agrees /\ Live /\ Known /\ DiskOK /\ CallAt(p) /\ Knows(p)
  BY DEF IInv, CallsOK, Known
<1>1. /\ puts[p] = <<>> /\ pc[p] = "ialloc" /\ pc' = [pc EXCEPT ![p] = "iget"]
      /\ lock' = lock /\ ip' = ip /\ dp' = dp /\ path' = path /\ puts' = puts /\ inode' = inode
      /\ cwd' = cwd /\ file' = file /\ freeing' = freeing /\ load' = load
  BY DEF Ready, Goto
<1>2. PICK d \in Slots : d = dp[p] /\ Held(d) /\ Has(p, d)
  BY <1>1, ReadyFacts DEF WithDp
<1>3. /\ ip[p] = NoSlot /\ freeing[p] = "no" /\ call[p] \in Calls /\ call[p].op # "close"
      /\ Avoids(call[p].new)
  BY <1>1, ReadyFacts DEF WithIp
<1>4. call[p].op \in {"create", "mkdir"} /\ Len(path[p]) = 1 /\ Name(p) # DotDot
  BY <1>0, <1>1 DEF CallAt, Named
<1>5. PICK c \in Calls : c = call[p]
  BY <1>3
<1>6. PICK cc : cc = [c EXCEPT !.inum = i]
  OBVIOUS
<1>7. cc \in Calls /\ cc.op = c.op /\ cc.new = c.new /\ cc.inum = i
  BY <1>6 DEF Calls
<1>8. call' = [call EXCEPT ![p] = cc]
  BY <1>5, <1>6
<1>9. /\ call' \in [Procs -> Calls \cup {NoCall}] /\ call'[p] = cc
      /\ \A q \in Procs \ {p} : call'[q] = call[q]
  <2>1. call \in [Procs -> Calls \cup {NoCall}]
    BY <1>0 DEF Typed
  <2> QED BY <1>7, <1>8, <2>1
<1>10. pc' \in [Procs -> Steps] /\ pc'[p] = "iget" /\ \A q \in Procs \ {p} : pc'[q] = pc[q]
  BY <1>0, <1>1 DEF Typed, Steps, WithDp
<1>11. PICK y : y = NewType(p) /\ y \in {"DIR", "FILE"} /\ y = NewType(p)'
  BY <1>5, <1>7, <1>9 DEF NewType
<1>12. PICK x : x = [FreeInode EXCEPT !.type = y]
  OBVIOUS
<1>13. /\ x \in Dinodes /\ x.type = y /\ x.nlink = 0 /\ \A n \in Names : x.entries[n] = NoInum
  BY <1>11, <1>12 DEF FreeInode, Dinodes, Types, Empty
<1>14. /\ dinode' \in [Inums -> Dinodes] /\ dinode'[i] = x
       /\ \A j \in Inums : j # i => dinode'[j] = dinode[j]
  <2>1. dinode' = [dinode EXCEPT ![i] = x]
    BY <1>11, <1>12
  <2>2. dinode \in [Inums -> Dinodes]
    BY <1>0 DEF Typed
  <2> QED BY <1>13, <2>1, <2>2
<1>15. Others(p)
  BY <1>1, <1>9, <1>10 DEF Others
<1>16. Frame(p)
  BY <1>0, <1>1, <1>9, <1>10, <1>14, <1>15 DEF Frame, Rest, Typed
<1>17. Passes(p, NoSlot)
  BY <1>1 DEF Passes, Now
<1>18. PICK T : T = inode
  OBVIOUS
<1>19. Viewed(T) /\ GetsFrom(p, T, NoSlot) /\ SameSlots(T) /\ Spares(p, T)
  <2>1. Viewed(T) /\ GetsFrom(p, T, NoSlot)
    BY <1>1, <1>18 DEF Viewed, GetsFrom
  <2> QED BY <2>1, ViewedFacts
<1>20. TableMove(p)
  BY <1>19, TableFacts
<1>21. \A s \in Slots, q \in Procs : Has(q, s) => inode[s].inum # i /\ inode[s].inum \in Inums
  <2>1. ASSUME NEW s \in Slots, NEW q \in Procs, Has(q, s)
        PROVE  inode[s].inum # i /\ inode[s].inum \in Inums
    <3>1. Disk(s).type # "FREE" /\ Held(s)
      BY <1>0, <2>1, HasHeld DEF Live, IInv
    <3> QED BY <1>0, <3>1 DEF Disk, Once
  <2> QED BY <2>1
<1>22. \A s \in Slots, q \in Procs : Has(q, s)' => Has(q, s)
  BY <1>1 DEF Has
<1>23. CallAt(p)'
  BY <1>0, <1>1, <1>2, <1>3, <1>4, <1>5, <1>7, <1>9, <1>10, ConstantFacts DEF CallAt, WithIp, WithDp, Named, Name
<1>24. LocksMove(p)
  <2>1. \A s \in Slots : Locks(p, s)' <=> Locks(p, s)
    BY <1>1, <1>10 DEF Locks, DpLocked, IpLocked
  <2>2. ip'[p] # dp'[p]
    BY <1>1, <1>2, <1>3, ConstantFacts
  <2> QED BY <1>1, <2>1, <2>2, LocksStay
<1>25. Right(T)
  <2>1. ASSUME NEW s \in Slots, Held(s), T[s].valid, \A r \in Procs : ~Leaves(r, s)
        PROVE  /\ T[s].type = dinode'[inode[s].inum].type /\ T[s].nlink = dinode'[inode[s].inum].nlink
               /\ T[s].type # "FREE"
    <3>1. /\ T[s].type = Disk(s).type /\ T[s].nlink = Disk(s).nlink /\ T[s].type # "FREE"
      BY <1>0, <1>18, <2>1 DEF Agrees
    <3>2. inode[s].inum # i /\ inode[s].inum \in Inums
      BY <1>0, <2>1, <3>1 DEF Disk, Once
    <3> QED BY <1>14, <3>1, <3>2 DEF Disk
  <2> QED BY <2>1 DEF Right
<1>26. DiskMove(p)
  <2>1. ASSUME NEW j \in Inums
        PROVE  /\ \/ dinode'[j].type = dinode[j].type
                  \/ \A q \in Procs, s \in Slots : Has(q, s)' => inode'[s].inum # j
               /\ dinode'[j] = dinode[j] \/ dinode[j].type = "FREE"
    BY <1>1, <1>14, <1>21, <1>22
  <2> QED BY <2>1 DEF DiskMove
\* A free inode has no link, and the new one leads nowhere.
<1>27. dinode[i] = FreeInode /\ NamesOf(i) = {} /\ Parents(i) = {} /\ i # Root /\ Links(i) = 0
  <2>1. dinode[i] = FreeInode
    BY <1>0 DEF DiskOK
  <2>2. Links(i) <= 0 /\ Links(i) \in Nat
    BY <1>0, <2>1, LinkCounts DEF DiskOK, FreeInode
  <2>3. Links(i) = 0
    BY <2>2
  <2> QED BY <2>1, <2>3, LinkCounts
<1>28. DiskOK'
  <2>1. \A j \in Inums : NamesOf(j)' \subseteq NamesOf(j)
    <3>1. ASSUME NEW j \in Inums, NEW a \in Inums, NEW n \in Names \ {DotDot},
                 dinode'[a].type = "DIR", dinode'[a].entries[n] = j
          PROVE  dinode[a].type = "DIR" /\ dinode[a].entries[n] = j
      <4>1. CASE a = i
        BY <1>13, <1>14, <3>1, <4>1, ConstantFacts
      <4>2. CASE a # i
        BY <1>14, <3>1, <4>2
      <4> QED BY <4>1, <4>2
    <3> QED BY <3>1 DEF NamesOf
  <2>2. \A j \in Inums : Parents(j)' \subseteq Parents(j)
    <3>1. ASSUME NEW j \in Inums, NEW a \in Inums, a # j,
                 dinode'[a].type = "DIR", dinode'[a].entries[DotDot] = j
          PROVE  dinode[a].type = "DIR" /\ dinode[a].entries[DotDot] = j
      <4>1. CASE a = i
        BY <1>13, <1>14, <3>1, <4>1, ConstantFacts
      <4>2. CASE a # i
        BY <1>14, <3>1, <4>2
      <4> QED BY <4>1, <4>2
    <3>2. \A a \in Inums : NamesOf(a)' # {} => NamesOf(a) # {}
      BY <2>1
    <3> QED BY <3>1, <3>2 DEF Parents
  <2>3. StillPending(p)
    BY <1>10 DEF StillPending, Linking
  <2>4. \A j \in Inums : Pending(j)' \subseteq Pending(j)
    <3>1. ASSUME NEW j \in Inums PROVE Pending(j)' \subseteq Pending(j)
      <4>1. Pending(j)' \ {p} \subseteq Pending(j)
        BY <1>15, <1>20, PendingMoves
      <4>2. p \notin Pending(j)'
        BY <1>10 DEF Pending, Linking
      <4> QED BY <4>1, <4>2
    <3> QED BY <3>1
  <2>5. ASSUME NEW j \in Inums PROVE dinode'[j].type = "FREE" => dinode'[j] = FreeInode
    BY <1>0, <1>11, <1>13, <1>14 DEF DiskOK
  <2>6. ASSUME NEW j \in Inums PROVE OneName(j)'
    <3>1. CASE j = i
      <4>1. NamesOf(j)' = {}
        BY <1>27, <2>1, <3>1
      <4> QED BY <4>1 DEF OneName
    <3>2. CASE j # i
      <4>1. dinode'[j] = dinode[j] /\ OneName(j)
        BY <1>0, <1>14, <3>2 DEF DiskOK
      <4> QED BY <2>1, <4>1 DEF OneName
    <3> QED BY <3>1, <3>2
  <2>7. NamesOf(Root)' = {} /\ dinode'[Root].type = "DIR"
    BY <1>0, <1>14, <1>27, <2>1, ConstantFacts DEF DiskOK
  <2>8. ASSUME NEW j \in Inums PROVE Links(j)' <= dinode'[j].nlink
    <3>1. Links(j) \in Nat /\ Links(j)' \in Nat /\ Links(j)' <= Links(j)
      BY <2>1, <2>2, <2>4, LinksLess
    <3>2. Links(j) <= dinode[j].nlink /\ dinode[j].nlink \in Nat
      BY <1>0 DEF DiskOK, Typed, Dinodes
    <3>3. dinode'[j].nlink = dinode[j].nlink
      BY <1>13, <1>14, <1>27 DEF FreeInode
    <3> QED BY <3>1, <3>2, <3>3
  <2> QED BY <2>5, <2>6, <2>7, <2>8 DEF DiskOK
<1>29. Fresh(p)' = i /\ Filling(p)'
  BY <1>7, <1>9, <1>10 DEF Fresh, Filling
<1>30. Knows(p)'
  <2>1. KnowsValid(p)'
    <3>1. inode[d].valid
      BY <1>0, <1>1, <1>2 DEF Knows, KnowsValid, DpLocked
    <3> QED BY <1>1, <1>2, <1>3, <1>10, <3>1 DEF KnowsValid, IpLocked
  <2>2. KnowsKinds(p)'
    <3>1. Disk(d).type = "DIR"
      BY <1>0, <1>1, <1>2 DEF Knows, KnowsKinds, WithDp
    <3>2. Disk(d)'.type = "DIR"
      BY <1>1, <1>2, <1>14, <1>21, <3>1 DEF Disk
    <3>3. Disk(dp[p])'.type = "DIR"
      BY <1>1, <1>2, <3>2 DEF Disk
    <3> QED BY <1>10, <3>3 DEF KnowsKinds, Linking
  <2>3. KnowsEntry(p)'
    BY <1>10 DEF KnowsEntry
  <2>4. Reserves(p)'
    <3>1. dinode'[i] = [FreeInode EXCEPT !.type = NewType(p)']
      BY <1>11, <1>12, <1>14
    <3>2. \A q \in Procs, s \in Slots : Has(q, s)' => inode'[s].inum # i
      BY <1>1, <1>21, <1>22
    <3>3. ASSUME NEW q \in Procs \ {p}, Filling(q)' PROVE Fresh(q)' # i
      <4>1. Filling(q) /\ Fresh(q)' = Fresh(q)
        BY <1>1, <1>9, <1>10, <3>3 DEF Filling, Fresh
      <4>2. dinode[Fresh(q)] = [FreeInode EXCEPT !.type = NewType(q)]
        BY <1>0, <4>1 DEF Known, Knows, Reserves
      <4>3. dinode[Fresh(q)].type # "FREE"
        BY <4>2 DEF FreeInode, NewType
      <4> QED BY <4>1, <4>3
    <3> QED BY <1>29, <3>1, <3>2, <3>3 DEF Reserves
  <2> QED BY <2>1, <2>2, <2>3, <2>4 DEF Knows
<1>31. dinode[Fresh(p)'].type = "FREE"
  BY <1>29
<1> QED BY <1>1, <1>16, <1>17, <1>19, <1>23, <1>24, <1>25, <1>26, <1>28, <1>30, <1>31, DiskCall

\* The next inode of the disk is taken: ialloc goes on.
LEMMA IallocLooks ==
    ASSUME IInv, NEW p \in Procs, Ready(p, "ialloc"), NEW i \in Inums,
           call' = [call EXCEPT ![p].inum = i],
           UNCHANGED <<dinode, pc, lock, ip, dp, path, puts, inode, cwd, file, freeing, load>>
    PROVE  IInv'
<1>0. Typed /\ CallsOK /\ CallAt(p) /\ Knows(p)
  BY DEF IInv, CallsOK, Known
<1>1. /\ puts[p] = <<>> /\ pc[p] = "ialloc" /\ pc' = pc /\ dinode' = dinode
      /\ lock' = lock /\ ip' = ip /\ dp' = dp /\ path' = path /\ puts' = puts /\ inode' = inode
      /\ cwd' = cwd /\ file' = file /\ freeing' = freeing /\ load' = load
  BY DEF Ready
<1>2. PICK d \in Slots : d = dp[p] /\ Held(d) /\ Has(p, d)
  BY <1>1, ReadyFacts DEF WithDp
<1>3. /\ ip[p] = NoSlot /\ freeing[p] = "no" /\ call[p] \in Calls /\ call[p].op # "close"
      /\ Avoids(call[p].new)
  BY <1>1, ReadyFacts DEF WithIp
<1>4. call[p].op \in {"create", "mkdir"} /\ Len(path[p]) = 1 /\ Name(p) # DotDot
  BY <1>0, <1>1 DEF CallAt, Named
<1>5. PICK c \in Calls : c = call[p]
  BY <1>3
<1>6. PICK cc : cc = [c EXCEPT !.inum = i]
  OBVIOUS
<1>7. cc \in Calls /\ cc.op = c.op /\ cc.new = c.new
  BY <1>6 DEF Calls
<1>8. call' = [call EXCEPT ![p] = cc]
  BY <1>5, <1>6
<1>9. /\ call' \in [Procs -> Calls \cup {NoCall}] /\ call'[p] = cc
      /\ \A q \in Procs \ {p} : call'[q] = call[q]
  <2>1. call \in [Procs -> Calls \cup {NoCall}]
    BY <1>0 DEF Typed
  <2> QED BY <1>7, <1>8, <2>1
<1>10. Others(p)
  BY <1>1, <1>9 DEF Others
<1>11. Frame(p)
  BY <1>0, <1>1, <1>9, <1>10 DEF Frame, Rest, Typed
<1>12. Passes(p, NoSlot)
  BY <1>1 DEF Passes, Now
<1>13. PICK T : T = inode
  OBVIOUS
<1>14. Viewed(T) /\ GetsFrom(p, T, NoSlot)
  BY <1>1, <1>13 DEF Viewed, GetsFrom
<1>15. CallAt(p)'
  BY <1>0, <1>1, <1>2, <1>3, <1>4, <1>5, <1>7, <1>9, ConstantFacts DEF CallAt, WithIp, WithDp, Named, Name
<1>16. LocksMove(p)
  <2>1. \A s \in Slots : Locks(p, s)' <=> Locks(p, s)
    BY <1>1 DEF Locks
  <2>2. ip'[p] # dp'[p]
    BY <1>1, <1>2, <1>3, ConstantFacts
  <2> QED BY <1>1, <2>1, <2>2, LocksStay
<1>17. Knows(p)' /\ ~Filling(p)'
  <2>1. KnowsValid(p)' /\ KnowsKinds(p)'
    BY <1>0, <1>1 DEF Knows, KnowsValid, KnowsKinds, Disk
  <2>2. KnowsEntry(p)' /\ ~Filling(p)'
    BY <1>1 DEF KnowsEntry, Filling
  <2>3. Reserves(p)'
    BY <2>2 DEF Reserves
  <2> QED BY <2>1, <2>2, <2>3 DEF Knows
<1>18. StillPending(p)
  BY <1>1 DEF StillPending
<1> QED BY <1>1, <1>11, <1>12, <1>14, <1>15, <1>16, <1>17, <1>18, QuietCall

LEMMA IallocStep ==
    ASSUME IInv, NEW p \in Procs, Ialloc(p)
    PROVE  IInv'
<1>1. ASSUME NEW i \in Inums, call' = [call EXCEPT ![p].inum = i],
             \/ /\ dinode[i].type = "FREE"
                /\ dinode' = [dinode EXCEPT ![i] = [FreeInode EXCEPT !.type = NewType(p)]]
                /\ Goto(p, "iget")
             \/ dinode[i].type # "FREE" /\ UNCHANGED <<disk, pc>>,
             UNCHANGED <<lock, ip, dp, path, puts>>
      PROVE  IInv'
  <2>1. Ready(p, "ialloc") /\ UNCHANGED <<lock, ip, dp, path, puts, inode, cwd, file, freeing, load>>
    BY <1>1 DEF Ialloc
  <2>2. CASE dinode[i].type = "FREE"
    BY <1>1, <2>1, <2>2, IallocTakes
  <2>3. CASE dinode[i].type # "FREE"
    <3>1. UNCHANGED <<dinode, pc, lock, ip, dp, path, puts, inode, cwd, file, freeing, load>>
      BY <1>1, <2>1, <2>3 DEF disk
    <3> QED BY <1>1, <2>1, <3>1, IallocLooks
  <2> QED BY <2>2, <2>3
<1>2. CASE lock' = [lock EXCEPT ![dp[p]] = Nobody] /\ Return(p, <<dp[p]>>) /\ UNCHANGED disk
  BY <1>2, IallocNone DEF Ialloc
<1> QED BY <1>1, <1>2 DEF Ialloc

\* A table with the inode s read, which the process may change: nobody else locks it.
Sees(p, B, s) ==
    /\ SameSlots(B) /\ B[s].valid /\ B[s].type = Disk(s).type /\ B[s].nlink = Disk(s).nlink
    /\ Filled(s).type = Disk(s).type /\ Filled(s).nlink = Disk(s).nlink
    /\ \A t \in Slots : t # s => B[t] = inode[t]
    /\ \A q \in Procs \ {p} : ~Locks(q, s)
    /\ \A q \in Procs : ~Leaves(q, s)
    /\ inode[s].inum \in Inums /\ Disk(s).type # "FREE" /\ Disk(s) \in Dinodes

LEMMA SeesRead ==
    ASSUME IInv, NEW p \in Procs, NEW s \in Slots, Held(s), MayLock(s)
    PROVE  Sees(p, Read(s), s)
BY ReadFacts DEF Sees

LEMMA SeesLocked ==
    ASSUME IInv, NEW p \in Procs, puts[p] = <<>>, NEW s \in Slots,
           (pc[p] \in IpLocked /\ ip[p] = s) \/ (pc[p] \in DpLocked /\ dp[p] = s)
    PROVE  Sees(p, inode, s) /\ Filled(s) = inode[s] /\ inode[s].valid
<1>0. Typed /\ Once /\ LocksOK /\ Agrees /\ Knows(p) /\ freeing[p] = "no"
  BY ReadyFacts DEF IInv, Known
<1>1. Locks(p, s) /\ \A q \in Procs \ {p} : ~Locks(q, s)
  <2>1. Locks(p, s)
    BY DEF Locks
  <2>2. \A q \in Procs : lock[s] = q <=> Locks(q, s)
    BY <1>0 DEF LocksOK
  <2> QED BY <2>1, <2>2
<1>2. \A q \in Procs : ~Leaves(q, s)
  BY <1>0, <1>1 DEF Leaves, Locks
<1>3. Held(s)
  BY <1>1, LocksHeld DEF IInv
<1>4. inode[s].valid
  BY <1>0 DEF Knows, KnowsValid
<1>5. Filled(s) = inode[s]
  BY <1>4 DEF Filled
<1>6. inode[s].type = Disk(s).type /\ inode[s].nlink = Disk(s).nlink /\ inode[s].type # "FREE"
  BY <1>0, <1>2, <1>3, <1>4 DEF Agrees
<1>7. inode[s].inum \in Inums /\ Disk(s) \in Dinodes
  BY <1>0, <1>3 DEF Once, Typed, Disk
<1>8. SameSlots(inode)
  BY <1>0 DEF SameSlots, Typed
<1> QED BY <1>1, <1>2, <1>4, <1>5, <1>6, <1>7, <1>8 DEF Sees

Recount(i, n, type) == [dinode EXCEPT ![i].nlink = n, ![i].type = type]

\* The inode s has n links, in the table and on the disk.
LEMMA CountChanges ==
    ASSUME IInv, NEW p \in Procs, NEW s \in Slots, Has(p, s), NEW B, Sees(p, B, s), NEW n \in Nat,
           NEW i \in Inums, i = inode[s].inum,
           dinode' = Recount(i, n, Filled(s).type),
           NEW T, T = Renumber(B, s, n)
    PROVE  /\ SameSlots(T) /\ Spares(p, T) /\ Right(T) /\ DiskMove(p)
           /\ dinode' \in [Inums -> Dinodes] /\ dinode'[i].nlink = n
           /\ \A j \in Inums : /\ j # i => dinode'[j] = dinode[j]
                               /\ dinode'[j].type = dinode[j].type
                               /\ dinode'[j].entries = dinode[j].entries
           /\ dinode[i].type # "FREE"
<1>0. Typed /\ Once /\ Agrees /\ Held(s) /\ dinode \in [Inums -> Dinodes]
  BY HasHeld DEF IInv, Typed
<1>1. /\ SameSlots(B) /\ B \in Table /\ B[s].valid /\ B[s].type = Disk(s).type
      /\ Filled(s).type = Disk(s).type /\ \A t \in Slots : t # s => B[t] = inode[t]
      /\ \A q \in Procs \ {p} : ~Locks(q, s)
      /\ Disk(s).type # "FREE" /\ Disk(s) = dinode[i]
  BY DEF Sees, SameSlots, Disk
<1>2. PICK x \in Dinodes : x = dinode[i]
  BY <1>0
<1>3. PICK y : y = [[x EXCEPT !.nlink = n] EXCEPT !.type = x.type]
  OBVIOUS
<1>4. y \in Dinodes /\ y.type = x.type /\ y.nlink = n /\ y.entries = x.entries
  BY <1>3 DEF Dinodes
<1>5. dinode' = [dinode EXCEPT ![i] = y]
  <2>1. dinode' = [[dinode EXCEPT ![i] = [x EXCEPT !.nlink = n]] EXCEPT ![i].type = x.type]
    BY <1>1, <1>2 DEF Recount
  <2>2. PICK z : z = [x EXCEPT !.nlink = n]
    OBVIOUS
  <2>3. PICK D : D = [dinode EXCEPT ![i] = z]
    OBVIOUS
  <2>4. D[i] = z
    BY <1>0, <2>3
  <2>5. dinode' = [D EXCEPT ![i] = y]
    BY <1>3, <2>1, <2>2, <2>3, <2>4
  <2> QED BY <1>0, <2>3, <2>5
<1>6. /\ dinode' \in [Inums -> Dinodes] /\ dinode'[i] = y /\ \A j \in Inums : j # i => dinode'[j] = dinode[j]
  BY <1>0, <1>4, <1>5
<1>7. /\ T \in Table /\ T[s].nlink = n
      /\ \A t \in Slots : /\ T[t].ref = B[t].ref /\ T[t].inum = B[t].inum
                          /\ T[t].valid = B[t].valid /\ T[t].type = B[t].type
                          /\ t # s => T[t].nlink = B[t].nlink
  BY <1>1, Renumbered
<1>8. SameSlots(T)
  BY <1>1, <1>7 DEF SameSlots
<1>9. Spares(p, T)
  BY <1>1, <1>7 DEF Spares
<1>10. Right(T)
  <2>1. ASSUME NEW t \in Slots, Held(t), T[t].valid, \A r \in Procs : ~Leaves(r, t)
        PROVE  /\ T[t].type = dinode'[inode[t].inum].type /\ T[t].nlink = dinode'[inode[t].inum].nlink
               /\ T[t].type # "FREE"
    <3>1. CASE t = s
      BY <1>1, <1>2, <1>4, <1>6, <1>7, <3>1
    <3>2. CASE t # s
      <4>1. inode[t].inum # i /\ inode[t].inum \in Inums
        BY <1>0, <2>1, <3>2 DEF Once
      <4>2. inode[t].type = Disk(t).type /\ inode[t].nlink = Disk(t).nlink /\ inode[t].type # "FREE"
        BY <1>0, <1>1, <1>7, <2>1, <3>2 DEF Agrees
      <4> QED BY <1>1, <1>6, <1>7, <3>2, <4>1, <4>2 DEF Disk
    <3> QED BY <3>1, <3>2
  <2> QED BY <2>1 DEF Right
<1>11. DiskMove(p)
  BY <1>1, <1>2, <1>4, <1>6 DEF DiskMove
<1>12. \A j \in Inums : /\ dinode'[j].type = dinode[j].type
                        /\ dinode'[j].entries = dinode[j].entries
  BY <1>2, <1>4, <1>6
<1> QED BY <1>1, <1>4, <1>6, <1>8, <1>9, <1>10, <1>11, <1>12

\* The count of links changes as what the process has in hand.
LEMMA CountsOK ==
    ASSUME IInv, NEW p \in Procs, NEW i \in Inums, NEW n \in Nat, dinode'[i].nlink = n,
           \A j \in Inums : /\ j # i => dinode'[j] = dinode[j]
                            /\ dinode'[j].type = dinode[j].type
                            /\ dinode'[j].entries = dinode[j].entries,
           dinode[i].type # "FREE", Others(p), TableMove(p), \A j \in Inums : p \in Pending(j)' => j = i,
           n + In(p, Pending(i)) = dinode[i].nlink + In(p, Pending(i)')
    PROVE  DiskOK'
<1>0. DiskOK /\ Typed
  BY DEF IInv
<1>1. \A j \in Inums : NamesOf(j)' = NamesOf(j)
  BY DEF NamesOf
<1>2. \A j \in Inums : Parents(j)' = Parents(j)
  BY <1>1 DEF Parents
<1>3. \A j \in Inums : Pending(j)' \ {p} \subseteq Pending(j)
  BY PendingMoves
<1>4. ASSUME NEW j \in Inums PROVE dinode'[j].type = "FREE" => dinode'[j] = FreeInode
  BY <1>0 DEF DiskOK
<1>5. ASSUME NEW j \in Inums PROVE OneName(j)'
  <2>1. OneName(j)
    BY <1>0 DEF DiskOK
  <2> QED BY <1>1, <2>1 DEF OneName
<1>6. NamesOf(Root)' = {} /\ dinode'[Root].type = "DIR"
  BY <1>0, <1>1, ConstantFacts DEF DiskOK
<1>7. ASSUME NEW j \in Inums PROVE Links(j)' <= dinode'[j].nlink
  <2>1. Links(j) <= dinode[j].nlink /\ dinode[j].nlink \in Nat
    BY <1>0 DEF DiskOK, Typed, Dinodes
  <2>2. PICK a, b, N, M : a = Links(j) /\ b = Links(j)' /\ N = NamesOf(j) /\ M = Parents(j)
    OBVIOUS
  <2>3. /\ a \in Nat /\ b \in Nat
        /\ \A e, x : b + (In(e, N) + In(x, M) + In(p, Pending(j)))
                        <= a + (In(e, N) + In(x, M) + In(p, Pending(j)'))
    <3>1. NamesOf(j)' = N /\ Parents(j)' = M
      BY <1>1, <1>2, <2>2
    <3>2. ASSUME NEW e, NEW x
          PROVE  /\ Links(j) \in Nat /\ Links(j)' \in Nat
                 /\ Links(j)' + (In(e, NamesOf(j)) + In(x, Parents(j)) + In(p, Pending(j)))
                       <= Links(j) + (In(e, NamesOf(j)') + In(x, Parents(j)') + In(p, Pending(j)'))
      <4>1. NamesOf(j)' \ {e} \subseteq NamesOf(j) /\ Parents(j)' \ {x} \subseteq Parents(j)
        BY <1>1, <1>2
      <4> QED BY <1>3, <4>1, LinksMove
    <3> QED BY <2>2, <3>1, <3>2
  <2>4. PICK u \in {0, 1}, v \in {0, 1} : u = In(p, Pending(j)) /\ v = In(p, Pending(j)')
    BY DEF In
  <2>5. PICK k \in {0, 1}, l \in {0, 1} : k = In(0, N) /\ l = In(0, M)
    BY DEF In
  <2>6. b + u <= a + v
    <3>1. b + (k + l + u) <= a + (k + l + v)
      BY <2>3, <2>4, <2>5
    <3> QED BY <2>3, <3>1
  <2>7. CASE j = i
    BY <2>1, <2>2, <2>3, <2>4, <2>6, <2>7
  <2>8. CASE j # i
    <3>1. v = 0 /\ dinode'[j].nlink = dinode[j].nlink
      BY <2>4, <2>8 DEF In
    <3> QED BY <2>1, <2>2, <2>3, <2>4, <2>6, <3>1
  <2> QED BY <2>7, <2>8
<1> QED BY <1>4, <1>5, <1>6, <1>7 DEF DiskOK

\* A link is taken from the inode that the process has in hand.
LEMMA UnlinkedStep ==
    ASSUME IInv, NEW p \in Procs, puts[p] = <<>>, NEW s \in Slots, s = ip[p],
           pc[p] \in {"drop", "unlinkold"}, NEW B, Sees(p, B, s),
           inode' = Relink(B, s, -1), dinode' = Updated(s, -1), Unlocks(p), lock' \in [Slots -> Procs \cup {Nobody}],
           Return(p, <<s>>), UNCHANGED <<cwd, file, freeing, load>>
    PROVE  IInv'
<1>0. Typed /\ DiskOK
  BY DEF IInv
<1>1. cwd' = cwd /\ file' = file /\ freeing' = freeing /\ load' = load
  OBVIOUS
<1>2. /\ Has(p, s) /\ Held(s) /\ dp[p] = NoSlot /\ freeing[p] = "no"
  BY ReadyFacts DEF WithIp, WithDp
<1>3. PICK i \in Inums : i = inode[s].inum
  BY DEF Sees
<1>4. Filled(s).nlink = dinode[i].nlink /\ dinode[i].nlink \in Nat /\ B[s].nlink = dinode[i].nlink
  BY <1>3 DEF Sees, Disk, Dinodes
<1>5. p \in Pending(i)
  BY <1>3 DEF Pending, Linking
<1>6. dinode[i].nlink >= 1
  <2>1. Links(i) # 0 /\ Links(i) \in Nat
    BY <1>5, LinkCounts
  <2>2. Links(i) <= dinode[i].nlink
    BY <1>0 DEF DiskOK
  <2> QED BY <1>4, <2>1, <2>2
<1>7. PICK n \in Nat : n = dinode[i].nlink - 1
  BY <1>4, <1>6
<1>8. PICK T : T = inode'
  OBVIOUS
<1>9. T = Renumber(B, s, n)
  <2>1. n = B[s].nlink + (-1)
    BY <1>4, <1>7
  <2> QED BY <1>8, <2>1 DEF Relink, Renumber
<1>10. dinode' = Recount(i, n, Filled(s).type)
  <2>1. n = Filled(s).nlink + (-1)
    BY <1>4, <1>7
  <2> QED BY <1>3, <2>1 DEF Updated, Recount
<1>11. /\ SameSlots(T) /\ Spares(p, T) /\ Right(T) /\ DiskMove(p)
       /\ dinode' \in [Inums -> Dinodes] /\ dinode'[i].nlink = n
       /\ \A j \in Inums : /\ j # i => dinode'[j] = dinode[j]
                           /\ dinode'[j].type = dinode[j].type
                           /\ dinode'[j].entries = dinode[j].entries
       /\ dinode[i].type # "FREE"
  BY <1>2, <1>3, <1>9, <1>10, CountChanges
<1>12. GetsFrom(p, T, NoSlot)
  BY <1>8 DEF GetsFrom
<1>13. TableMove(p)
  BY <1>11, <1>12, TableFacts
<1>14. Keeps(p) /\ Returns(p)
  <2>1. Keeps(p)
    BY <1>0, <1>1, <1>11 DEF Keeps, Typed
  <2>2. Returns(p)
    BY <1>0 DEF Returns, Return, Put, Typed
  <2> QED BY <2>1, <2>2
<1>15. Frame(p) /\ pc'[p] = "user" /\ ip'[p] = NoSlot /\ dp'[p] = NoSlot /\ Others(p) /\ Rest'
  BY <1>0, <1>14, ReturnFrame DEF Frame
<1>16. Now(p, cwd[p], file[p], NoSlot, NoSlot, <<ip[p]>>)
  BY <1>0, <1>1, <1>15 DEF Return, Put, Now, Typed
<1>17. Passes(p, NoSlot)
  BY <1>2, <1>16 DEF Passes
<1>18. CallAt(p)' /\ LocksMove(p) /\ StillPending(p) /\ Knows(p)' /\ ~Filling(p)'
  <2>1. Len(puts'[p]) <= 2
    BY <1>17, PassesFew
  <2> QED BY <1>1, <1>15, <2>1, Returned
<1>19. DiskOK'
  <2>1. \A j \in Inums : p \notin Pending(j)'
    BY <1>15 DEF Pending, Linking
  <2>2. In(p, Pending(i)) = 1 /\ In(p, Pending(i)') = 0
    BY <1>5, <2>1 DEF In
  <2>3. n + In(p, Pending(i)) = dinode[i].nlink + In(p, Pending(i)')
    BY <1>4, <1>7, <2>2
  <2> QED BY <1>11, <1>13, <1>15, <2>1, <2>3, CountsOK
<1> QED BY <1>1, <1>11, <1>12, <1>15, <1>17, <1>18, <1>19, DiskCall

LEMMA DropLinkStep ==
    ASSUME IInv, NEW p \in Procs, DropLink(p)
    PROVE  IInv'
<1>1. PICK s : s = ip[p]
  OBVIOUS
<1>2. /\ puts[p] = <<>> /\ pc[p] = "drop" /\ inode' = Relink(inode, s, -1) /\ dinode' = Updated(s, -1)
      /\ lock' = [lock EXCEPT ![s] = Nobody] /\ Return(p, <<s>>)
      /\ UNCHANGED <<cwd, file, freeing, load>>
  BY <1>1 DEF DropLink, Ready
<1>3. s \in Slots
  BY <1>1, <1>2, ReadyFacts DEF WithIp
<1>4. PICK B : B = inode
  OBVIOUS
<1>5. Sees(p, B, s) /\ inode' = Relink(B, s, -1)
  BY <1>1, <1>2, <1>3, <1>4, SeesLocked DEF IpLocked
<1>6. Unlocks(p) /\ lock' \in [Slots -> Procs \cup {Nobody}]
  BY <1>1, <1>2 DEF Unlocks, IpLocked, IInv, Typed
<1> QED BY <1>1, <1>2, <1>3, <1>5, <1>6, UnlinkedStep

LEMMA UnlinkOldStep ==
    ASSUME IInv, NEW p \in Procs, UnlinkOld(p)
    PROVE  IInv'
<1>1. PICK s : s = ip[p]
  OBVIOUS
<1>2. /\ puts[p] = <<>> /\ pc[p] = "unlinkold" /\ MayLock(s)
      /\ inode' = Relink(Read(s), s, -1) /\ dinode' = Updated(s, -1)
      /\ lock' = lock /\ Return(p, <<s>>)
      /\ UNCHANGED <<cwd, file, freeing, load>>
  BY <1>1 DEF UnlinkOld, Ready
<1>3. s \in Slots /\ Held(s)
  BY <1>1, <1>2, ReadyFacts DEF WithIp
<1>4. PICK B : B = Read(s)
  OBVIOUS
<1>5. Sees(p, B, s) /\ inode' = Relink(B, s, -1)
  BY <1>2, <1>3, <1>4, SeesRead
<1>6. Unlocks(p) /\ lock' \in [Slots -> Procs \cup {Nobody}]
  BY <1>2 DEF Unlocks, IpLocked, DpLocked, IInv, Typed
<1> QED BY <1>1, <1>2, <1>3, <1>5, <1>6, UnlinkedStep

\* link counts the name that it is about to make.
LEMMA LinkCounted ==
    ASSUME IInv, NEW p \in Procs, Ready(p, "link"), NEW s \in Slots, s = ip[p], MayLock(s),
           Filled(s).type # "DIR", NEW f, f = From([absolute |-> call[p].absolute], p), CanGet(f),
           inode' = Iget(Relink(Read(s), s, 1), f), dinode' = Updated(s, 1), Points(p, s, SlotOf(f)),
           path' = [path EXCEPT ![p] = call[p].new], Goto(p, "walknew"),
           UNCHANGED <<call, puts, lock, cwd, file, freeing, load>>
    PROVE  IInv'
<1>0. Typed /\ DiskOK
  BY DEF IInv
<1>1. PICK g : g = SlotOf(f)
  OBVIOUS
<1>2. /\ puts[p] = <<>> /\ pc[p] = "link" /\ pc' = [pc EXCEPT ![p] = "walknew"]
      /\ ip' = [ip EXCEPT ![p] = s] /\ dp' = [dp EXCEPT ![p] = g]
      /\ call' = call /\ puts' = puts /\ lock' = lock
      /\ cwd' = cwd /\ file' = file /\ freeing' = freeing /\ load' = load
  BY <1>1 DEF Ready, Goto, Points
<1>3. /\ Has(p, s) /\ Held(s) /\ dp[p] = NoSlot /\ freeing[p] = "no" /\ s # NoSlot
      /\ call[p] \in Calls /\ call[p].op # "close" /\ Avoids(call[p].new)
  BY <1>2, ReadyFacts DEF WithIp, WithDp
<1>4. PICK B : B = Read(s)
  OBVIOUS
<1>5. Sees(p, B, s)
  BY <1>3, <1>4, SeesRead
<1>6. PICK i \in Inums : i = inode[s].inum
  BY <1>5 DEF Sees
<1>7. /\ Filled(s).nlink = dinode[i].nlink /\ dinode[i].nlink \in Nat /\ B[s].nlink = dinode[i].nlink
      /\ dinode[i].type = "FILE"
  BY <1>5, <1>6 DEF Sees, Disk, Dinodes, Types
<1>8. PICK n \in Nat : n = dinode[i].nlink + 1
  BY <1>7
<1>9. PICK T : T = Relink(B, s, 1)
  OBVIOUS
<1>10. T = Renumber(B, s, n)
  BY <1>7, <1>8, <1>9 DEF Relink, Renumber
<1>11. dinode' = Recount(i, n, Filled(s).type)
  BY <1>6, <1>7, <1>8 DEF Updated, Recount
<1>12. /\ SameSlots(T) /\ Spares(p, T) /\ Right(T) /\ DiskMove(p)
       /\ dinode' \in [Inums -> Dinodes] /\ dinode'[i].nlink = n
       /\ \A j \in Inums : /\ j # i => dinode'[j] = dinode[j]
                           /\ dinode'[j].type = dinode[j].type
                           /\ dinode'[j].entries = dinode[j].entries
       /\ dinode[i].type # "FREE"
  BY <1>3, <1>5, <1>6, <1>10, <1>11, CountChanges
<1>13. GetsFrom(p, T, g)
  <2>1. Found(p, f) /\ f \in Inums
    BY FromFound DEF Found
  <2>2. inode' = Iget(T, f)
    BY <1>4, <1>9
  <2> QED BY <1>1, <2>1, <2>2 DEF GetsFrom
<1>14. TableMove(p) /\ g \in Slots
  <2>1. TableMove(p)
    BY <1>12, <1>13, TableFacts
  <2>2. Found(p, f)
    BY FromFound
  <2>3. g \in Slots
    BY <1>0, <1>1, <2>2, SlotFacts DEF Found
  <2> QED BY <2>1, <2>3
<1>15. Keeps(p) /\ Moved(p)
  <2>1. Keeps(p)
    BY <1>0, <1>2, <1>12 DEF Keeps, Typed
  <2>2. call[p].new \in Seq(Names)
    BY <1>3 DEF Calls
  <2>3. Moved(p)
    BY <1>0, <1>2, <1>14, <2>2 DEF Moved, Typed, Steps, WithIp
  <2> QED BY <2>1, <2>3
<1>16. Frame(p) /\ Others(p)
  BY <1>0, <1>15, MovedFrame DEF Frame
<1>17. /\ Now(p, cwd[p], file[p], ip[p], g, <<>>) /\ pc'[p] = "walknew" /\ path'[p] = call[p].new
       /\ ip'[p] = s
  BY <1>0, <1>2 DEF Now, Typed
<1>18. Passes(p, g)
  BY <1>3, <1>17 DEF Passes
<1>19. CallAt(p)'
  <2>1. /\ Len(puts'[p]) = 0 /\ puts'[p] = <<>> /\ dp'[p] # NoSlot /\ ip'[p] # NoSlot
        /\ call'[p] = call[p] /\ freeing'[p] = "no" /\ Avoids(path'[p])
    BY <1>2, <1>3, <1>14, <1>17, ConstantFacts DEF Now
  <2>2. Len(puts'[p]) <= 2 /\ Len(puts'[p]) # 2
    BY <2>1
  <2> QED BY <1>3, <1>17, <2>1, <2>2 DEF CallAt, WithIp, WithDp, Named
<1>20. inode'[s].inum = i
  BY <1>3, <1>6, <1>14 DEF TableMove
<1>21. /\ Knows(p)' /\ ~Filling(p)' /\ (\A t \in Slots : ~Locks(p, t)') /\ pc'[p] \notin {"fill", "erase"}
  <2>1. Disk(ip[p])'.type = "FILE"
    BY <1>7, <1>12, <1>17, <1>20 DEF Disk
  <2>2. freeing'[p] = "no"
    BY <1>2, <1>3
  <2> QED BY <1>17, <2>1, <2>2, RestFacts
<1>22. LocksMove(p)
  BY <1>2, <1>21, Unlocked DEF Unlocks, DpLocked, IpLocked
<1>23. DiskOK'
  <2>1. \A j \in Inums : p \in Pending(j)' <=> j = i
    BY <1>17, <1>20 DEF Pending, Linking
  <2>2. p \notin Pending(i)
    BY <1>2 DEF Pending, Linking
  <2>3. In(p, Pending(i)) = 0 /\ In(p, Pending(i)') = 1
    BY <2>1, <2>2 DEF In
  <2>4. n + In(p, Pending(i)) = dinode[i].nlink + In(p, Pending(i)')
    BY <1>7, <1>8, <2>3
  <2> QED BY <1>12, <1>14, <1>16, <2>1, <2>4, CountsOK
<1> QED BY <1>2, <1>12, <1>13, <1>16, <1>18, <1>19, <1>21, <1>22, <1>23, DiskCall

\* The links of an inode stay within its count, which changes from a to b.
LEMMA LinksWithin ==
    ASSUME NEW i \in Inums, NEW e, NEW x, NEW p, NamesOf(i)' \ {e} \subseteq NamesOf(i),
           Parents(i)' \ {x} \subseteq Parents(i), Pending(i)' \ {p} \subseteq Pending(i),
           NEW a \in Nat, NEW b \in Nat, Links(i) <= a,
           a + (In(e, NamesOf(i)') + In(x, Parents(i)') + In(p, Pending(i)'))
              <= b + (In(e, NamesOf(i)) + In(x, Parents(i)) + In(p, Pending(i)))
    PROVE  Links(i)' <= b
<1>1. PICK n, m, y, z :
        /\ n = Links(i) /\ m = Links(i)'
        /\ y = In(e, NamesOf(i)') + In(x, Parents(i)') + In(p, Pending(i)')
        /\ z = In(e, NamesOf(i)) + In(x, Parents(i)) + In(p, Pending(i))
  OBVIOUS
<1>2. n \in Nat /\ m \in Nat /\ m + z <= n + y
  BY <1>1, LinksMove
<1>3. y \in Nat /\ z \in Nat
  <2>1. \A u, U : In(u, U) \in Nat
    BY DEF In
  <2>2. \A u, v, w \in Nat : u + v + w \in Nat
    OBVIOUS
  <2> QED BY <1>1, <2>1, <2>2
<1>4. n <= a /\ a + y <= b + z
  BY <1>1
<1>5. m <= b
  BY <1>2, <1>3, <1>4
<1> QED BY <1>1, <1>5

\* The entry n of d becomes j.
Renames(d, n, j) ==
    /\ \A k \in Inums, m \in Names \ {DotDot} :
          dinode'[k].entries[m] = IF k = d /\ m = n THEN j ELSE dinode[k].entries[m]
    /\ \A k \in Inums : dinode'[k].type = dinode[k].type

LEMMA NamesMove ==
    ASSUME NEW d \in Inums, NEW n \in Names \ {DotDot}, NEW j, Renames(d, n, j), NEW k \in Inums
    PROVE  /\ NamesOf(k)' \ {<<d, n>>} \subseteq NamesOf(k)
           /\ <<d, n>> \in NamesOf(k)' => k = j
           /\ k # j => NamesOf(k)' \subseteq NamesOf(k) /\ <<d, n>> \notin NamesOf(k)'
<1>1. NamesOf(k) = {e \in Inums \X (Names \ {DotDot}) :
                       dinode[e[1]].type = "DIR" /\ dinode[e[1]].entries[e[2]] = k}
  BY DEF NamesOf
<1>2. NamesOf(k)' = {e \in Inums \X (Names \ {DotDot}) :
                        dinode'[e[1]].type = "DIR" /\ dinode'[e[1]].entries[e[2]] = k}
  BY DEF NamesOf
<1>3. <<d, n>> \in NamesOf(k)' => k = j
  BY <1>2 DEF Renames
<1>4. ASSUME NEW e \in NamesOf(k)', e # <<d, n>> PROVE e \in NamesOf(k)
  <2>1. PICK a \in Inums, m \in Names \ {DotDot} : e = <<a, m>>
    BY <1>2, <1>4
  <2>2. dinode'[a].type = "DIR" /\ dinode'[a].entries[m] = k
    BY <1>2, <2>1
  <2>3. ~(a = d /\ m = n)
    BY <1>4, <2>1
  <2>4. dinode[a].type = "DIR" /\ dinode[a].entries[m] = k
    BY <2>2, <2>3 DEF Renames
  <2> QED BY <1>1, <2>1, <2>4
<1> QED BY <1>3, <1>4

\* The table that the process has read is right when no type and no count of links changes.
LEMMA ViewedRight ==
    ASSUME IInv, NEW T, Viewed(T),
           \A i \in Inums : dinode'[i].type = dinode[i].type /\ dinode'[i].nlink = dinode[i].nlink
    PROVE  Right(T)
<1>0. Agrees /\ Once
  BY DEF IInv
<1>1. ASSUME NEW s \in Slots, Held(s), T[s].valid, \A r \in Procs : ~Leaves(r, s)
      PROVE  T[s].type = Disk(s).type /\ T[s].nlink = Disk(s).nlink /\ T[s].type # "FREE"
  <2>1. CASE T = inode
    BY <1>0, <1>1, <2>1 DEF Agrees
  <2>2. ASSUME NEW d \in Slots, Held(d), MayLock(d), T = Read(d)
        PROVE  T[s].type = Disk(s).type /\ T[s].nlink = Disk(s).nlink /\ T[s].type # "FREE"
    <3>1. /\ \A t \in Slots : t # d => T[t] = inode[t]
          /\ T[d].type = Disk(d).type /\ T[d].nlink = Disk(d).nlink /\ Disk(d).type # "FREE"
      BY <2>2, ReadFacts
    <3>2. CASE s = d
      BY <3>1, <3>2
    <3>3. CASE s # d
      BY <1>0, <1>1, <3>1, <3>3 DEF Agrees
    <3> QED BY <3>2, <3>3
  <2> QED BY <2>1, <2>2 DEF Viewed
<1>2. \A s \in Slots : Held(s) => inode[s].inum \in Inums
  BY <1>0 DEF Once
<1> QED BY <1>1, <1>2 DEF Right, Disk

Enter(d, n, j) == [dinode EXCEPT ![d].entries[n] = j]

LEMMA Entered ==
    ASSUME Typed, NEW d \in Inums, NEW n \in Names, NEW j \in Inums \cup {NoInum},
           dinode' = Enter(d, n, j)
    PROVE  /\ dinode' \in [Inums -> Dinodes]
           /\ \A k \in Inums : /\ dinode'[k].type = dinode[k].type /\ dinode'[k].nlink = dinode[k].nlink
                               /\ k # d => dinode'[k] = dinode[k]
                               /\ \A m \in Names : dinode'[k].entries[m] =
                                       IF k = d /\ m = n THEN j ELSE dinode[k].entries[m]
<1>0. dinode \in [Inums -> Dinodes]
  BY DEF Typed
<1>1. PICK x \in Dinodes : x = dinode[d]
  BY <1>0
<1>2. PICK f : f = [x.entries EXCEPT ![n] = j]
  OBVIOUS
<1>3. /\ f \in [Names -> Inums \cup {NoInum}] /\ f[n] = j
      /\ \A m \in Names : m # n => f[m] = x.entries[m]
  BY <1>2 DEF Dinodes
<1>4. PICK y : y = [x EXCEPT !.entries = f]
  OBVIOUS
<1>5. y \in Dinodes /\ y.type = x.type /\ y.nlink = x.nlink /\ y.entries = f
  BY <1>3, <1>4 DEF Dinodes
<1>6. dinode' = [dinode EXCEPT ![d] = y]
  BY <1>1, <1>2, <1>4 DEF Enter
<1>7. dinode' \in [Inums -> Dinodes] /\ dinode'[d] = y /\ \A k \in Inums : k # d => dinode'[k] = dinode[k]
  BY <1>0, <1>5, <1>6
<1> QED BY <1>1, <1>3, <1>5, <1>7

\* link makes the name that it has counted.
LEMMA LinkMade ==
    ASSUME IInv, NEW p \in Procs, Ready(p, "linknew"), MayLock(dp[p]), Entry(p) = NoInum,
           dinode' = Enter(inode[dp[p]].inum, Name(p), inode[ip[p]].inum), inode' = Read(dp[p]),
           Return(p, <<dp[p], ip[p]>>), UNCHANGED <<lock, load, cwd, file, freeing>>
    PROVE  IInv'
<1>0. Typed /\ CallAt(p) /\ Knows(p) /\ Once /\ DiskOK
  BY DEF IInv, CallsOK, Known
<1>1. PICK s, t, n : s = dp[p] /\ t = ip[p] /\ n = Name(p)
  OBVIOUS
<1>2. /\ puts[p] = <<>> /\ pc[p] = "linknew" /\ MayLock(s) /\ inode' = Read(s) /\ lock' = lock
      /\ cwd' = cwd /\ file' = file /\ freeing' = freeing /\ load' = load
  BY <1>1 DEF Ready
<1>3. /\ s \in Slots /\ Held(s) /\ Has(p, s) /\ t \in Slots /\ Held(t) /\ Has(p, t) /\ freeing[p] = "no"
  BY <1>1, <1>2, ReadyFacts DEF WithIp, WithDp
<1>4. PICK d \in Inums, j \in Inums : d = inode[s].inum /\ j = inode[t].inum
  BY <1>0, <1>3 DEF Once
<1>5. n \in Names \ {DotDot} /\ dinode[d].type = "DIR" /\ dinode[j].type = "FILE"
  <2>1. Len(path[p]) = 1 /\ n # DotDot
    BY <1>0, <1>1, <1>2 DEF CallAt, Named
  <2>2. PICK u \in Seq(Names) : u = path[p] /\ Len(u) = 1
    BY <1>0, <2>1 DEF Typed
  <2>3. u[1] \in Names
    BY <2>2
  <2> QED BY <1>0, <1>1, <1>2, <1>4, <2>1, <2>2, <2>3 DEF Name, Disk, Knows, KnowsKinds, WithDp, Linking
<1>6. dinode' = Enter(d, n, j) /\ dinode[d].entries[n] = NoInum
  BY <1>1, <1>4 DEF Entry, Disk
<1>7. /\ dinode' \in [Inums -> Dinodes]
      /\ \A k \in Inums : /\ dinode'[k].type = dinode[k].type /\ dinode'[k].nlink = dinode[k].nlink
                          /\ k # d => dinode'[k] = dinode[k]
                          /\ \A m \in Names : dinode'[k].entries[m] =
                                  IF k = d /\ m = n THEN j ELSE dinode[k].entries[m]
  BY <1>0, <1>5, <1>6, Entered
<1>8. PICK T : T = Read(s)
  OBVIOUS
<1>9. Viewed(T) /\ SameSlots(T) /\ Spares(p, T) /\ GetsFrom(p, T, NoSlot) /\ Right(T)
  <2>1. Viewed(T) /\ GetsFrom(p, T, NoSlot)
    BY <1>2, <1>3, <1>8 DEF Viewed, GetsFrom
  <2> QED BY <1>7, <2>1, ViewedFacts, ViewedRight
<1>10. TableMove(p)
  BY <1>9, TableFacts
<1>11. Keeps(p) /\ Returns(p)
  <2>1. Keeps(p)
    BY <1>0, <1>2, <1>7 DEF Keeps, Typed
  <2>2. <<s, t>> \in Seq(Slots)
    BY <1>3
  <2>3. Returns(p)
    BY <1>0, <1>1, <2>2 DEF Returns, Return, Put, Typed
  <2> QED BY <2>1, <2>3
<1>12. Frame(p) /\ pc'[p] = "user" /\ ip'[p] = NoSlot /\ dp'[p] = NoSlot /\ Others(p) /\ Rest'
  BY <1>0, <1>11, ReturnFrame DEF Frame
<1>13. Now(p, cwd[p], file[p], NoSlot, NoSlot, <<dp[p], ip[p]>>)
  BY <1>0, <1>2, <1>12 DEF Return, Put, Now, Typed
<1>14. Passes(p, NoSlot)
  BY <1>13 DEF Passes
<1>15. CallAt(p)' /\ LocksMove(p) /\ Knows(p)' /\ ~Filling(p)'
  <2>1. Len(puts'[p]) <= 2
    BY <1>14, PassesFew
  <2>2. Unlocks(p)
    BY <1>2 DEF Unlocks, DpLocked, IpLocked
  <2> QED BY <1>2, <1>12, <2>1, <2>2, Returned
<1>16. DiskMove(p)
  <2>1. \A q \in Procs : ~Locks(q, s)
    BY <1>2, <1>3, ReadFacts
  <2> QED BY <1>3, <1>4, <1>7, <2>1 DEF DiskMove
<1>17. Renames(d, n, j) /\ <<d, n>> \notin NamesOf(j)
  BY <1>5, <1>6, <1>7, ConstantFacts DEF Renames, NamesOf
<1>18. \A k \in Inums : /\ NamesOf(k)' \ {<<d, n>>} \subseteq NamesOf(k)
                        /\ k # j => NamesOf(k)' \subseteq NamesOf(k) /\ <<d, n>> \notin NamesOf(k)'
  BY <1>5, <1>17, NamesMove
<1>19. \A k \in Inums : Parents(k)' \subseteq Parents(k)
  <2>1. ASSUME NEW k \in Inums, NEW x \in Inums \ {k}, dinode'[x].type = "DIR",
               dinode'[x].entries[DotDot] = k, NamesOf(x)' # {}
        PROVE  dinode[x].type = "DIR" /\ dinode[x].entries[DotDot] = k /\ NamesOf(x) # {}
    <3>1. dinode[x].type = "DIR" /\ x # j
      BY <1>5, <1>7, <2>1
    <3>2. dinode[x].entries[DotDot] = k
      BY <1>5, <1>7, <2>1, ConstantFacts
    <3>3. NamesOf(x)' \subseteq NamesOf(x)
      BY <1>18, <3>1
    <3> QED BY <2>1, <3>1, <3>2, <3>3
  <2> QED BY <2>1 DEF Parents
<1>20. /\ \A k \in Inums : Pending(k)' \ {p} \subseteq Pending(k)
       /\ \A k \in Inums : p \notin Pending(k)'
       /\ p \in Pending(j)
  <2>1. \A k \in Inums : Pending(k)' \ {p} \subseteq Pending(k)
    BY <1>10, <1>12, PendingMoves
  <2>2. \A k \in Inums : p \notin Pending(k)'
    BY <1>12 DEF Pending, Linking
  <2>3. p \in Pending(j)
    BY <1>1, <1>2, <1>4 DEF Pending, Linking
  <2> QED BY <2>1, <2>2, <2>3
<1>21. DiskOK'
  <2>1. ASSUME NEW k \in Inums PROVE dinode'[k].type = "FREE" => dinode'[k] = FreeInode
    <3>1. dinode[d].type # "FREE"
      BY <1>5
    <3> QED BY <1>0, <1>7, <3>1 DEF DiskOK
  <2>2. ASSUME NEW k \in Inums PROVE OneName(k)'
    <3>1. ASSUME dinode'[k].type = "DIR"
          PROVE  /\ \A e \in NamesOf(k)' : dinode'[k].entries[DotDot] = e[1] /\ e[1] # k
                 /\ \A e, f \in NamesOf(k)' : e = f
      <4>1. k # j /\ dinode[k].type = "DIR" /\ OneName(k)
        BY <1>0, <1>5, <1>7, <3>1 DEF DiskOK
      <4>2. NamesOf(k)' \subseteq NamesOf(k) /\ dinode'[k].entries[DotDot] = dinode[k].entries[DotDot]
        BY <1>5, <1>7, <1>18, <4>1, ConstantFacts
      <4>3. /\ \A e \in NamesOf(k) : dinode[k].entries[DotDot] = e[1] /\ e[1] # k
            /\ \A e, f \in NamesOf(k) : e = f
        BY <4>1 DEF OneName
      <4> QED BY <4>2, <4>3
    <3> QED BY <3>1 DEF OneName
  <2>3. NamesOf(Root)' = {} /\ dinode'[Root].type = "DIR"
    <3>1. NamesOf(Root) = {} /\ dinode[Root].type = "DIR"
      BY <1>0 DEF DiskOK
    <3> QED BY <1>5, <1>7, <1>18, <3>1, ConstantFacts
  <2>4. ASSUME NEW k \in Inums PROVE Links(k)' <= dinode'[k].nlink
    <3>1. PICK a \in Nat : a = dinode[k].nlink /\ a = dinode'[k].nlink /\ Links(k) <= a
      BY <1>0, <1>7 DEF DiskOK, Typed, Dinodes
    <3>2. PICK e : e = <<d, n>>
      OBVIOUS
    <3>3. /\ NamesOf(k)' \ {e} \subseteq NamesOf(k) /\ Parents(k)' \ {NoInum} \subseteq Parents(k)
          /\ Pending(k)' \ {p} \subseteq Pending(k)
      BY <1>18, <1>19, <1>20, <3>2
    <3>4. In(NoInum, Parents(k)) = 0 /\ In(NoInum, Parents(k)') = 0 /\ In(p, Pending(k)') = 0
      BY <1>20, ConstantFacts DEF In, Parents
    <3>5. In(p, Pending(k)) \in {0, 1} /\ In(e, NamesOf(k)') \in {0, 1} /\ In(e, NamesOf(k)) \in {0, 1}
      BY DEF In
    <3>6. a + (In(e, NamesOf(k)') + In(NoInum, Parents(k)') + In(p, Pending(k)'))
              <= a + (In(e, NamesOf(k)) + In(NoInum, Parents(k)) + In(p, Pending(k)))
      <4>1. CASE k = j
        <5>1. In(p, Pending(k)) = 1
          BY <1>20, <4>1 DEF In
        <5>2. PICK u \in {0, 1}, v \in {0, 1} : u = In(e, NamesOf(k)') /\ v = In(e, NamesOf(k))
          BY <3>5
        <5>3. a + (u + 0 + 0) <= a + (v + 0 + 1)
          OBVIOUS
        <5> QED BY <3>4, <5>1, <5>2, <5>3
      <4>2. CASE k # j
        <5>1. In(e, NamesOf(k)') = 0
          BY <1>18, <3>2, <4>2 DEF In
        <5>2. PICK u \in {0, 1}, v \in {0, 1} : u = In(p, Pending(k)) /\ v = In(e, NamesOf(k))
          BY <3>5
        <5>3. a + (0 + 0 + 0) <= a + (v + 0 + u)
          OBVIOUS
        <5> QED BY <3>4, <5>1, <5>2, <5>3
      <4> QED BY <4>1, <4>2
    <3>7. Links(k)' <= a
      BY <3>1, <3>3, <3>6, LinksWithin
    <3> QED BY <3>1, <3>7
  <2> QED BY <2>1, <2>2, <2>3, <2>4 DEF DiskOK
<1> QED BY <1>2, <1>7, <1>9, <1>12, <1>14, <1>15, <1>16, <1>21, DiskCall

LEMMA LinkStep ==
    ASSUME IInv, NEW p \in Procs, Link(p)
    PROVE  IInv'
<1>1. PICK s : s = ip[p]
  OBVIOUS
<1>2. PICK f : f = From([absolute |-> call[p].absolute], p)
  OBVIOUS
<1>3. Ready(p, "link") /\ MayLock(s) /\ UNCHANGED <<lock, cwd, file, freeing, load>>
  BY <1>1 DEF Link
<1>4. s \in Slots
  BY <1>1, <1>3, ReadyFacts DEF Ready, WithIp
<1>5. CASE Filled(s).type = "DIR" /\ inode' = Read(s) /\ Return(p, <<s>>) /\ UNCHANGED disk
  BY <1>1, <1>3, <1>5, LinkDirectory
<1>6. CASE /\ Filled(s).type # "DIR" /\ CanGet(f)
           /\ inode' = Iget(Relink(Read(s), s, 1), f)
           /\ dinode' = Updated(s, 1)
           /\ Points(p, s, SlotOf(f))
           /\ path' = [path EXCEPT ![p] = call[p].new]
           /\ Goto(p, "walknew")
           /\ UNCHANGED <<call, puts>>
  BY <1>1, <1>2, <1>3, <1>4, <1>6, LinkCounted
<1> QED BY <1>1, <1>2, <1>5, <1>6 DEF Link

LEMMA LinkNewStep ==
    ASSUME IInv, NEW p \in Procs, LinkNew(p)
    PROVE  IInv'
<1>1. Ready(p, "linknew") /\ MayLock(dp[p]) /\ UNCHANGED <<cwd, file, freeing>>
  BY DEF LinkNew
<1>2. CASE /\ Entry(p) = NoInum
           /\ dinode' = Enter(inode[dp[p]].inum, Name(p), inode[ip[p]].inum)
           /\ inode' = Read(dp[p])
           /\ Return(p, <<dp[p], ip[p]>>)
           /\ UNCHANGED <<lock, load>>
  BY <1>1, <1>2, LinkMade
<1>3. CASE /\ Entry(p) # NoInum /\ CanGet(Entry(p))
           /\ inode' = Iget(Read(dp[p]), Entry(p))
           /\ lock' = [lock EXCEPT ![dp[p]] = p]
           /\ Put(p, <<SlotOf(Entry(p))>>)
           /\ Goto(p, "linkundo")
           /\ UNCHANGED <<disk, call, path, ip, dp, load>>
  BY <1>1, <1>3, LinkExists
<1>4. CASE /\ Entry(p) = NoInum /\ load.full > 0
           /\ load' = [load EXCEPT !.full = @ - 1]
           /\ inode' = Read(dp[p])
           /\ Put(p, <<dp[p]>>) /\ Points(p, ip[p], NoSlot)
           /\ Goto(p, "unlinkold")
           /\ UNCHANGED <<disk, lock, call, path>>
  BY <1>1, <1>4, LinkNoBlock
<1> QED BY <1>2, <1>3, <1>4 DEF LinkNew, Enter

\* The lock moves from the directory t to its entry s.
PassLock(p, s, t) == lock' = [lock EXCEPT ![s] = p, ![t] = Nobody]

LEMMA LockPassed ==
    ASSUME IInv, NEW p \in Procs, NEW s \in Slots, NEW t \in Slots, s # t, lock[s] = Nobody,
           PassLock(p, s, t), \A u \in Slots : Locks(p, u) <=> u = t,
           \A u \in Slots : Locks(p, u)' <=> u = s, pc'[p] \notin {"fill", "erase"}
    PROVE  LocksMove(p) /\ lock' \in [Slots -> Procs \cup {Nobody}]
<1>0. lock \in [Slots -> Procs \cup {Nobody}]
  BY DEF IInv, Typed
<1>1. \A u \in Slots, q \in Procs : lock[u] = q <=> Locks(q, u)
  BY DEF IInv, LocksOK
<1>2. \A u \in Slots : lock'[u] = IF u = t THEN Nobody ELSE IF u = s THEN p ELSE lock[u]
  BY <1>0 DEF PassLock
<1>3. lock' \in [Slots -> Procs \cup {Nobody}]
  BY <1>0 DEF PassLock
<1>4. lock[t] = p
  BY <1>1
<1> QED BY <1>1, <1>2, <1>3, <1>4, ConstantFacts DEF LocksMove

Reenter(d, n, j, c) == [dinode EXCEPT ![d].entries[n] = j, ![d].nlink = c]

LEMMA Reentered ==
    ASSUME Typed, NEW d \in Inums, NEW n \in Names, NEW j \in Inums \cup {NoInum}, NEW c \in Nat,
           dinode' = Reenter(d, n, j, c)
    PROVE  /\ dinode' \in [Inums -> Dinodes] /\ dinode'[d].nlink = c
           /\ \A k \in Inums : /\ dinode'[k].type = dinode[k].type
                               /\ k # d => dinode'[k] = dinode[k]
                               /\ \A m \in Names : dinode'[k].entries[m] =
                                       IF k = d /\ m = n THEN j ELSE dinode[k].entries[m]
<1>0. dinode \in [Inums -> Dinodes]
  BY DEF Typed
<1>1. PICK x \in Dinodes : x = dinode[d]
  BY <1>0
<1>2. PICK f : f = [x.entries EXCEPT ![n] = j]
  OBVIOUS
<1>3. /\ f \in [Names -> Inums \cup {NoInum}] /\ f[n] = j
      /\ \A m \in Names : m # n => f[m] = x.entries[m]
  BY <1>2 DEF Dinodes
<1>4. PICK y : y = [x EXCEPT !.entries = f]
  OBVIOUS
<1>5. PICK z : z = [y EXCEPT !.nlink = c]
  OBVIOUS
<1>6. z \in Dinodes /\ z.type = x.type /\ z.nlink = c /\ z.entries = f
  BY <1>3, <1>4, <1>5 DEF Dinodes
<1>7. PICK D : D = [dinode EXCEPT ![d] = y]
  OBVIOUS
<1>8. D = [dinode EXCEPT ![d].entries[n] = j]
  BY <1>1, <1>2, <1>4, <1>7
<1>9. dinode' = [D EXCEPT ![d].nlink = c]
  BY <1>8 DEF Reenter
<1>10. D[d] = y
  BY <1>0, <1>7
<1>11. dinode' = [D EXCEPT ![d] = z]
  BY <1>5, <1>9, <1>10
<1>12. dinode' = [dinode EXCEPT ![d] = z]
  BY <1>0, <1>7, <1>11
<1>13. dinode' \in [Inums -> Dinodes] /\ dinode'[d] = z /\ \A k \in Inums : k # d => dinode'[k] = dinode[k]
  BY <1>0, <1>6, <1>12
<1> QED BY <1>1, <1>3, <1>6, <1>13

\* unlink erases the name; it has the link in hand.
EraseDisk(d, n, subdir) == [dinode EXCEPT ![d].entries[n] = NoInum, ![d].nlink = @ - subdir]

LEMMA EraseName ==
    ASSUME IInv, NEW p \in Procs, Ready(p, "erase"), NEW s, s = ip[p], NEW t, t = dp[p], MayLock(s),
           NEW subdir, subdir = (IF Filled(s).type = "DIR" THEN 1 ELSE 0),
           inode' = Relink(Read(s), t, -subdir), dinode' = EraseDisk(inode[t].inum, Name(p), subdir),
           PassLock(p, s, t), Points(p, s, NoSlot), Put(p, <<t>>), Goto(p, "drop"),
           UNCHANGED <<call, path, cwd, file, freeing, load>>
    PROVE  IInv'
<1>0. Typed /\ CallAt(p) /\ Knows(p) /\ Once /\ DiskOK /\ LocksOK /\ Agrees
  BY DEF IInv, CallsOK, Known
<1>1. PICK n : n = Name(p)
  OBVIOUS
<1>2. /\ puts[p] = <<>> /\ pc[p] = "erase" /\ call' = call /\ path' = path
      /\ cwd' = cwd /\ file' = file /\ freeing' = freeing /\ load' = load
      /\ ip' = [ip EXCEPT ![p] = s] /\ dp' = [dp EXCEPT ![p] = NoSlot]
      /\ puts' = [puts EXCEPT ![p] = <<t>>] /\ pc' = [pc EXCEPT ![p] = "drop"]
  BY DEF Ready, Points, Put, Goto
<1>3. /\ s \in Slots /\ Held(s) /\ Has(p, s) /\ t \in Slots /\ Held(t) /\ Has(p, t) /\ freeing[p] = "no"
      /\ s # NoSlot /\ call[p] \in Calls /\ call[p].op # "close" /\ Avoids(call[p].new)
  BY <1>2, ReadyFacts DEF WithIp, WithDp
<1>4. PICK d \in Inums, j \in Inums : d = inode[t].inum /\ j = inode[s].inum
  BY <1>0, <1>3 DEF Once
<1>5. n \in Names \ {DotDot} /\ dinode[d].type = "DIR" /\ dinode[d].entries[n] = j
  <2>1. Len(path[p]) = 1 /\ n # DotDot
    BY <1>0, <1>1, <1>2 DEF CallAt, Named
  <2>2. PICK u \in Seq(Names) : u = path[p] /\ Len(u) = 1
    BY <1>0, <2>1 DEF Typed
  <2>3. u[1] \in Names
    BY <2>2
  <2>4. Disk(t).type = "DIR"
    BY <1>0, <1>2 DEF Knows, KnowsKinds, WithDp
  <2>5. Disk(t).entries[n] = j
    BY <1>0, <1>1, <1>2, <1>4 DEF Knows, KnowsEntry, Entry
  <2> QED BY <1>1, <1>4, <2>1, <2>2, <2>3, <2>4, <2>5 DEF Name, Disk
<1>6. PICK e : e = <<d, n>>
  OBVIOUS
<1>7. e \in NamesOf(j)
  BY <1>5, <1>6 DEF NamesOf
<1>8. s # t
  BY <1>0, <1>2 DEF LocksOK
<1>9. Sees(p, inode, t) /\ inode[t].valid
  BY <1>2, <1>3, SeesLocked DEF DpLocked
<1>10. /\ SameSlots(Read(s)) /\ Read(s) \in Table
       /\ \A u \in Slots : u # s => Read(s)[u] = inode[u]
       /\ Read(s)[s].valid /\ Read(s)[s].type = Disk(s).type /\ Read(s)[s].nlink = Disk(s).nlink
       /\ Filled(s).type = Disk(s).type /\ Disk(s).type # "FREE"
       /\ \A r \in Procs : ~Locks(r, s) /\ ~Leaves(r, s)
  BY <1>3, ReadFacts DEF SameSlots
<1>11. /\ subdir \in {0, 1} /\ (subdir = 1 <=> dinode[j].type = "DIR")
  BY <1>4, <1>10 DEF Disk
\* A directory that is erased has this name only, and its ".." is d.
<1>12. /\ d # j
       /\ subdir = 1 => dinode[j].entries[DotDot] = d /\ \A f \in NamesOf(j) : f = e
  <2>1. CASE subdir = 1
    <3>1. OneName(j) /\ dinode[j].type = "DIR"
      BY <1>0, <1>11, <2>1 DEF DiskOK
    <3>2. dinode[j].entries[DotDot] = e[1] /\ e[1] # j /\ \A f \in NamesOf(j) : f = e
      BY <1>7, <3>1 DEF OneName
    <3> QED BY <1>6, <3>2
  <2>2. CASE subdir # 1
    BY <1>5, <1>11, <2>2
  <2> QED BY <2>1, <2>2
<1>13. PICK a \in Nat : a = dinode[d].nlink /\ Links(d) <= a
  BY <1>0 DEF DiskOK, Typed, Dinodes
<1>14. subdir = 1 => j \in Parents(d)
  BY <1>7, <1>11, <1>12 DEF Parents
<1>15. a - subdir \in Nat
  <2>1. CASE subdir = 1
    <3>1. Links(d) # 0 /\ Links(d) \in Nat
      BY <1>14, <2>1, LinkCounts
    <3> QED BY <1>13, <2>1, <3>1
  <2>2. CASE subdir = 0
    BY <2>2
  <2> QED BY <1>11, <2>1, <2>2
<1>16. PICK b \in Nat : b = a - subdir
  BY <1>15
<1>17. dinode' = Reenter(d, n, NoInum, b)
  <2>1. dinode' = EraseDisk(d, n, subdir)
    BY <1>1, <1>4
  <2>2. PICK D : D = [dinode EXCEPT ![d].entries[n] = NoInum]
    OBVIOUS
  <2>3. D[d].nlink = a
    BY <1>0, <1>13, <2>2 DEF Typed, Dinodes
  <2>4. EraseDisk(d, n, subdir) = [D EXCEPT ![d].nlink = @ - subdir]
    BY <2>2 DEF EraseDisk
  <2>5. EraseDisk(d, n, subdir) = [D EXCEPT ![d].nlink = b]
    BY <1>16, <2>3, <2>4
  <2>6. Reenter(d, n, NoInum, b) = [D EXCEPT ![d].nlink = b]
    BY <2>2 DEF Reenter
  <2> QED BY <2>1, <2>5, <2>6
<1>18. /\ dinode' \in [Inums -> Dinodes] /\ dinode'[d].nlink = b
       /\ \A k \in Inums : /\ dinode'[k].type = dinode[k].type
                           /\ k # d => dinode'[k] = dinode[k]
                           /\ \A m \in Names : dinode'[k].entries[m] =
                                   IF k = d /\ m = n THEN NoInum ELSE dinode[k].entries[m]
  <2>1. d \in Inums /\ n \in Names /\ b \in Nat /\ NoInum \in Inums \cup {NoInum}
    BY <1>5, <1>16
  <2> QED BY <1>0, <1>17, <2>1, Reentered
<1>19. PICK T : T = inode'
  OBVIOUS
<1>20. /\ T \in Table /\ T[t].nlink = b
       /\ \A u \in Slots : /\ T[u].ref = inode[u].ref /\ T[u].inum = inode[u].inum
                           /\ T[u].type = Read(s)[u].type /\ T[u].valid = Read(s)[u].valid
                           /\ u # t => T[u].nlink = Read(s)[u].nlink
  <2>1. PICK R \in Table : R = Read(s)
    BY <1>10
  <2>2. R[t].nlink = a
    <3>1. inode[t].nlink = Disk(t).nlink
      BY <1>9 DEF Sees
    <3>2. Disk(t) = dinode[d]
      BY <1>4 DEF Disk
    <3>3. R[t] = inode[t]
      BY <1>3, <1>8, <1>10, <2>1
    <3> QED BY <1>13, <3>1, <3>2, <3>3
  <2>3. T = Renumber(R, t, b)
    <3>1. b = R[t].nlink + (-subdir)
      BY <1>11, <1>16, <2>2
    <3> QED BY <1>19, <2>1, <3>1 DEF Relink, Renumber
  <2>4. /\ T \in Table /\ T[t].nlink = b
        /\ \A u \in Slots : /\ T[u].ref = R[u].ref /\ T[u].inum = R[u].inum
                            /\ T[u].valid = R[u].valid /\ T[u].type = R[u].type
                            /\ u # t => T[u].nlink = R[u].nlink
    <3>1. PICK v \in Slots : v = t
      BY <1>3
    <3>2. PICK U : U = Renumber(R, v, b)
      OBVIOUS
    <3>3. /\ U \in Table /\ U[v].nlink = b
          /\ \A u \in Slots : /\ U[u].ref = R[u].ref /\ U[u].inum = R[u].inum
                              /\ U[u].valid = R[u].valid /\ U[u].type = R[u].type
                              /\ u # v => U[u].nlink = R[u].nlink
      BY <3>2, Renumbered
    <3>4. U = T
      BY <2>3, <3>1, <3>2
    <3> QED BY <3>1, <3>3, <3>4
  <2>5. \A u \in Slots : R[u].ref = inode[u].ref /\ R[u].inum = inode[u].inum
    BY <1>10, <2>1 DEF SameSlots
  <2> QED BY <2>1, <2>4, <2>5
<1>21. SameSlots(T)
  BY <1>20 DEF SameSlots
<1>22. Spares(p, T)
  <2>1. \A u \in Slots, q \in Procs \ {p} : Locks(q, u) => u # s /\ u # t
    BY <1>9, <1>10 DEF Sees
  <2> QED BY <1>10, <1>20, <2>1 DEF Spares
<1>23. GetsFrom(p, T, NoSlot)
  BY <1>19 DEF GetsFrom
<1>24. Right(T)
  <2>1. ASSUME NEW u \in Slots, Held(u), T[u].valid, \A r \in Procs : ~Leaves(r, u)
        PROVE  /\ T[u].type = dinode'[inode[u].inum].type /\ T[u].nlink = dinode'[inode[u].inum].nlink
               /\ T[u].type # "FREE"
    <3>1. CASE u = t
      <4>1. T[t].type = inode[t].type /\ T[t].nlink = b
        BY <1>3, <1>8, <1>10, <1>20
      <4>2. inode[t].type = Disk(t).type /\ Disk(t).type # "FREE"
        BY <1>9 DEF Sees
      <4> QED BY <1>4, <1>18, <3>1, <4>1, <4>2 DEF Disk
    <3>2. CASE u = s
      <4>1. T[s].type = Disk(s).type /\ T[s].nlink = Disk(s).nlink
        BY <1>3, <1>8, <1>10, <1>20
      <4>2. Disk(s) = dinode[j] /\ dinode'[j] = dinode[j]
        BY <1>4, <1>12, <1>18 DEF Disk
      <4>3. T[s].type = dinode'[inode[s].inum].type /\ T[s].nlink = dinode'[inode[s].inum].nlink
        BY <1>4, <4>1, <4>2
      <4>4. T[s].type # "FREE"
        BY <1>10, <4>1
      <4> QED BY <3>2, <4>3, <4>4
    <3>3. CASE u # s /\ u # t
      <4>1. inode[u].inum # d /\ inode[u].inum \in Inums
        BY <1>0, <1>3, <1>4, <2>1, <3>3 DEF Once
      <4>2. inode[u].type = Disk(u).type /\ inode[u].nlink = Disk(u).nlink /\ inode[u].type # "FREE"
        BY <1>0, <1>10, <1>20, <2>1, <3>3 DEF Agrees
      <4>3. T[u].type = inode[u].type /\ T[u].nlink = inode[u].nlink
        BY <1>10, <1>20, <3>3
      <4>4. dinode'[inode[u].inum] = Disk(u)
        BY <1>18, <4>1 DEF Disk
      <4> QED BY <4>2, <4>3, <4>4
    <3> QED BY <3>1, <3>2, <3>3
  <2> QED BY <2>1 DEF Right
<1>25. TableMove(p)
  BY <1>21, <1>22, <1>23, TableFacts
<1>26. LocksMove(p) /\ lock' \in [Slots -> Procs \cup {Nobody}] /\ pc'[p] = "drop"
  <2>1. \A u \in Slots : Locks(p, u) <=> u = t
    BY <1>2, ReadyFacts DEF DpLocked, IpLocked
  <2>2. pc'[p] = "drop" /\ ip'[p] = s /\ freeing'[p] = "no"
    BY <1>0, <1>2, <1>3 DEF Typed
  <2>3. \A u \in Slots : Locks(p, u)' <=> u = s
    BY <2>2 DEF Locks, DpLocked, IpLocked
  <2>4. lock[s] = Nobody
    BY DEF MayLock
  <2> QED BY <1>3, <1>8, <2>1, <2>2, <2>3, <2>4, LockPassed
<1>27. Keeps(p) /\ Moved(p)
  <2>1. Keeps(p)
    BY <1>0, <1>2, <1>18, <1>26 DEF Keeps, Typed
  <2>2. Moved(p)
    BY <1>0, <1>2, <1>3 DEF Moved, Typed, Steps, WithIp
  <2> QED BY <2>1, <2>2
<1>28. Frame(p) /\ Others(p)
  BY <1>0, <1>27, MovedFrame DEF Frame
<1>29. Now(p, cwd[p], file[p], ip[p], NoSlot, <<dp[p]>>)
  BY <1>0, <1>2 DEF Now, Typed
<1>30. Passes(p, NoSlot)
  BY <1>29 DEF Passes
<1>31. CallAt(p)'
  <2>1. /\ Len(puts'[p]) <= 2 /\ Len(puts'[p]) # 2 /\ dp'[p] = NoSlot /\ ip'[p] # NoSlot /\ freeing'[p] = "no"
        /\ call'[p] = call[p]
    BY <1>2, <1>3, <1>29, <1>30, PassesFew DEF Now
  <2> QED BY <1>3, <1>26, <2>1 DEF CallAt, WithIp, WithDp, Named
<1>32. Knows(p)' /\ ~Filling(p)'
  <2>1. inode'[ip'[p]].valid
    BY <1>3, <1>10, <1>19, <1>20, <1>29 DEF Now
  <2>2. KnowsValid(p)'
    BY <1>2, <1>3, <1>26, <2>1 DEF KnowsValid, DpLocked
  <2>3. KnowsKinds(p)' /\ KnowsEntry(p)' /\ Reserves(p)' /\ ~Filling(p)'
    BY <1>26 DEF KnowsKinds, KnowsEntry, Reserves, Filling, WithDp, Linking
  <2> QED BY <2>2, <2>3 DEF Knows
<1>33. DiskMove(p)
  <2>1. \A q \in Procs \ {p} : ~Locks(q, t)
    BY <1>9 DEF Sees
  <2> QED BY <1>3, <1>4, <1>18, <2>1 DEF DiskMove
<1>34. \A k \in Inums : NamesOf(k)' \subseteq NamesOf(k) /\ e \notin NamesOf(k)'
  <2>1. Renames(d, n, NoInum)
    BY <1>18 DEF Renames
  <2> QED BY <1>5, <1>6, <2>1, NamesMove, ConstantFacts
<1>35. \A k \in Inums : Parents(k)' \subseteq Parents(k) /\ j \notin Parents(k)'
  <2>1. ASSUME NEW k \in Inums, NEW x \in Inums \ {k}, dinode'[x].type = "DIR",
               dinode'[x].entries[DotDot] = k, NamesOf(x)' # {}
        PROVE  dinode[x].type = "DIR" /\ dinode[x].entries[DotDot] = k /\ NamesOf(x) # {} /\ x # j
    <3>1. dinode[x].type = "DIR"
      BY <1>18, <2>1
    <3>2. dinode[x].entries[DotDot] = k
      BY <1>5, <1>18, <2>1, ConstantFacts
    <3>3. NamesOf(x) # {} /\ x # j
      <4>1. NamesOf(x)' \subseteq NamesOf(x) /\ e \notin NamesOf(x)'
        BY <1>34
      <4>2. ASSUME x = j PROVE FALSE
        <5>1. subdir = 1
          BY <1>11, <3>1, <4>2
        <5>2. \A f \in NamesOf(x) : f = e
          BY <1>12, <4>2, <5>1
        <5> QED BY <2>1, <4>1, <5>2
      <4> QED BY <2>1, <4>1, <4>2
    <3> QED BY <3>1, <3>2, <3>3
  <2> QED BY <2>1 DEF Parents
<1>36. /\ \A k \in Inums : Pending(k)' \ {p} \subseteq Pending(k)
       /\ \A k \in Inums : p \in Pending(k)' => k = j
       /\ \A k \in Inums : p \notin Pending(k)
  <2>1. \A k \in Inums : Pending(k)' \ {p} \subseteq Pending(k)
    BY <1>25, <1>28, PendingMoves
  <2>2. inode'[ip'[p]].inum = j
    BY <1>3, <1>4, <1>19, <1>20, <1>29 DEF Now
  <2>3. \A k \in Inums : p \in Pending(k)' => k = j
    BY <2>2 DEF Pending
  <2>4. \A k \in Inums : p \notin Pending(k)
    BY <1>2 DEF Pending, Linking
  <2> QED BY <2>1, <2>3, <2>4
<1>37. DiskOK'
  <2>1. ASSUME NEW k \in Inums PROVE dinode'[k].type = "FREE" => dinode'[k] = FreeInode
    <3>1. dinode[d].type # "FREE"
      BY <1>5
    <3> QED BY <1>0, <1>18, <3>1 DEF DiskOK
  <2>2. ASSUME NEW k \in Inums PROVE OneName(k)'
    <3>1. ASSUME dinode'[k].type = "DIR"
          PROVE  /\ \A f \in NamesOf(k)' : dinode'[k].entries[DotDot] = f[1] /\ f[1] # k
                 /\ \A f, g \in NamesOf(k)' : f = g
      <4>1. dinode[k].type = "DIR" /\ OneName(k)
        BY <1>0, <1>18, <3>1 DEF DiskOK
      <4>2. NamesOf(k)' \subseteq NamesOf(k) /\ dinode'[k].entries[DotDot] = dinode[k].entries[DotDot]
        BY <1>5, <1>18, <1>34, ConstantFacts
      <4>3. /\ \A f \in NamesOf(k) : dinode[k].entries[DotDot] = f[1] /\ f[1] # k
            /\ \A f, g \in NamesOf(k) : f = g
        BY <4>1 DEF OneName
      <4> QED BY <4>2, <4>3
    <3> QED BY <3>1 DEF OneName
  <2>3. NamesOf(Root)' = {} /\ dinode'[Root].type = "DIR"
    <3>1. NamesOf(Root) = {} /\ dinode[Root].type = "DIR"
      BY <1>0 DEF DiskOK
    <3> QED BY <1>18, <1>34, <3>1, ConstantFacts
  <2>4. ASSUME NEW k \in Inums PROVE Links(k)' <= dinode'[k].nlink
    <3>1. PICK c \in Nat : c = dinode[k].nlink /\ Links(k) <= c
      BY <1>0 DEF DiskOK, Typed, Dinodes
    <3>2. /\ NamesOf(k)' \ {e} \subseteq NamesOf(k) /\ Parents(k)' \ {j} \subseteq Parents(k)
          /\ Pending(k)' \ {p} \subseteq Pending(k)
      BY <1>34, <1>35, <1>36
    <3>3. In(e, NamesOf(k)') = 0 /\ In(j, Parents(k)') = 0 /\ In(p, Pending(k)) = 0
      BY <1>34, <1>35, <1>36 DEF In
    <3>4. PICK u \in {0, 1}, v \in {0, 1}, w \in {0, 1} :
             u = In(e, NamesOf(k)) /\ v = In(j, Parents(k)) /\ w = In(p, Pending(k)')
      BY DEF In
    <3>5. PICK z \in Nat : z = dinode'[k].nlink
      BY <1>18 DEF Dinodes
    <3>6. c + (0 + 0 + w) <= z + (u + v + 0)
      <4>1. CASE k = j
        <5>1. u = 1 /\ z = c
          BY <1>7, <1>12, <1>18, <3>1, <3>4, <3>5, <4>1 DEF In
        <5> QED BY <5>1
      <4>2. CASE k = d
        <5>1. w = 0
          BY <1>12, <1>36, <3>4, <4>2 DEF In
        <5>2. c = a /\ z = a - subdir
          BY <1>13, <1>16, <1>18, <3>1, <3>5, <4>2
        <5>3. v >= subdir
          <6>1. CASE subdir = 1
            BY <1>14, <3>4, <4>2, <6>1 DEF In
          <6>2. CASE subdir = 0
            BY <6>2
          <6> QED BY <1>11, <6>1, <6>2
        <5> QED BY <1>11, <5>1, <5>2, <5>3
      <4>3. CASE k # j /\ k # d
        <5>1. w = 0 /\ z = c
          BY <1>18, <1>36, <3>1, <3>4, <3>5, <4>3 DEF In
        <5> QED BY <5>1
      <4> QED BY <4>1, <4>2, <4>3
    <3>7. c + (In(e, NamesOf(k)') + In(j, Parents(k)') + In(p, Pending(k)'))
             <= z + (In(e, NamesOf(k)) + In(j, Parents(k)) + In(p, Pending(k)))
      BY <3>3, <3>4, <3>6
    <3>8. Links(k)' <= z
      BY <3>1, <3>2, <3>7, LinksWithin
    <3> QED BY <3>5, <3>8
  <2> QED BY <2>1, <2>2, <2>3, <2>4 DEF DiskOK
<1> QED BY <1>2, <1>21, <1>22, <1>23, <1>24, <1>26, <1>28, <1>30, <1>31, <1>32, <1>33, <1>37, DiskCall

LEMMA EraseStep ==
    ASSUME IInv, NEW p \in Procs, Erase(p)
    PROVE  IInv'
<1>1. PICK s, t : s = ip[p] /\ t = dp[p]
  OBVIOUS
<1>2. PICK subdir : subdir = (IF Filled(s).type = "DIR" THEN 1 ELSE 0)
  OBVIOUS
<1>3. Ready(p, "erase") /\ MayLock(s) /\ UNCHANGED <<call, path, cwd, file, freeing, load>>
  BY <1>1 DEF Erase
<1>4. CASE /\ inode' = Read(s)
           /\ Points(p, NoSlot, t) /\ Put(p, <<s>>)
           /\ Goto(p, "undo")
           /\ UNCHANGED <<disk, lock>>
  BY <1>1, <1>3, <1>4, EraseFull
<1>5. CASE /\ inode' = Relink(Read(s), t, -subdir)
           /\ dinode' = EraseDisk(inode[t].inum, Name(p), subdir)
           /\ PassLock(p, s, t)
           /\ Points(p, s, NoSlot) /\ Put(p, <<t>>)
           /\ Goto(p, "drop")
  BY <1>1, <1>2, <1>3, <1>5, EraseName
<1> QED BY <1>1, <1>2, <1>4, <1>5 DEF Erase, EraseDisk, PassLock

\* create gives the new inode its link, its "..", and its name in the directory.
FillDisk(i, d, n, subdir) ==
    [dinode EXCEPT ![i].nlink = 1,
                   ![i].entries = IF subdir = 1 THEN [@ EXCEPT ![DotDot] = d] ELSE @,
                   ![d].entries[n] = i,
                   ![d].nlink = @ + subdir]

LEMMA FillsDisk ==
    ASSUME Typed, NEW i \in Inums, NEW d \in Inums, i # d, NEW n \in Names, NEW subdir \in {0, 1},
           dinode' = FillDisk(i, d, n, subdir)
    PROVE  /\ dinode' \in [Inums -> Dinodes]
           /\ dinode'[i].nlink = 1 /\ dinode'[d].nlink = dinode[d].nlink + subdir
           /\ \A k \in Inums : /\ dinode'[k].type = dinode[k].type
                               /\ k # i /\ k # d => dinode'[k] = dinode[k]
                               /\ \A m \in Names : dinode'[k].entries[m] =
                                       IF k = d /\ m = n THEN i
                                       ELSE IF k = i /\ m = DotDot /\ subdir = 1 THEN d
                                       ELSE dinode[k].entries[m]
<1>0. dinode \in [Inums -> Dinodes]
  BY DEF Typed
<1>1. PICK x \in Dinodes, y \in Dinodes : x = dinode[i] /\ y = dinode[d]
  BY <1>0
<1>2. PICK f : f = IF subdir = 1 THEN [x.entries EXCEPT ![DotDot] = d] ELSE x.entries
  OBVIOUS
<1>3. /\ f \in [Names -> Inums \cup {NoInum}]
      /\ \A m \in Names : f[m] = IF m = DotDot /\ subdir = 1 THEN d ELSE x.entries[m]
  <2>1. x.entries \in [Names -> Inums \cup {NoInum}]
    BY DEF Dinodes
  <2> QED BY <1>2, <2>1, ConstantFacts
<1>4. PICK g : g = [y.entries EXCEPT ![n] = i]
  OBVIOUS
<1>5. /\ g \in [Names -> Inums \cup {NoInum}]
      /\ \A m \in Names : g[m] = IF m = n THEN i ELSE y.entries[m]
  <2>1. y.entries \in [Names -> Inums \cup {NoInum}]
    BY DEF Dinodes
  <2> QED BY <1>4, <2>1
<1>6. PICK x1 : x1 = [x EXCEPT !.nlink = 1]
  OBVIOUS
<1>7. PICK x2 : x2 = [x1 EXCEPT !.entries = f]
  OBVIOUS
<1>8. x1.entries = x.entries /\ x2 \in Dinodes /\ x2.type = x.type /\ x2.nlink = 1 /\ x2.entries = f
  BY <1>3, <1>6, <1>7 DEF Dinodes
<1>9. PICK c \in Nat : c = y.nlink + subdir
  BY DEF Dinodes
<1>10. PICK y1 : y1 = [y EXCEPT !.entries = g]
  OBVIOUS
<1>11. PICK y2 : y2 = [y1 EXCEPT !.nlink = c]
  OBVIOUS
<1>12. y1.nlink = y.nlink /\ y2 \in Dinodes /\ y2.type = y.type /\ y2.nlink = c /\ y2.entries = g
  BY <1>5, <1>9, <1>10, <1>11 DEF Dinodes
<1>13. PICK D1 : D1 = [dinode EXCEPT ![i] = x1]
  OBVIOUS
<1>14. PICK D2 : D2 = [D1 EXCEPT ![i] = x2]
  OBVIOUS
<1>15. PICK D3 : D3 = [D2 EXCEPT ![d] = y1]
  OBVIOUS
<1>16. D1[i] = x1 /\ D2[d] = y /\ D3[d] = y1
  BY <1>0, <1>1, <1>13, <1>14, <1>15
<1>17. D1 = [dinode EXCEPT ![i].nlink = 1]
  BY <1>1, <1>6, <1>13
<1>18. D2 = [D1 EXCEPT ![i].entries = IF subdir = 1 THEN [dinode[i].entries EXCEPT ![DotDot] = d]
                                      ELSE dinode[i].entries]
  BY <1>1, <1>2, <1>7, <1>14, <1>16
<1>19. D3 = [D2 EXCEPT ![d].entries[n] = i]
  BY <1>4, <1>10, <1>15, <1>16
<1>20. dinode' = [D3 EXCEPT ![d].nlink = dinode[d].nlink + subdir]
  BY <1>17, <1>18, <1>19 DEF FillDisk
<1>21. dinode' = [D3 EXCEPT ![d] = y2]
  BY <1>1, <1>9, <1>11, <1>16, <1>20
<1>22. /\ dinode' \in [Inums -> Dinodes] /\ dinode'[i] = x2 /\ dinode'[d] = y2
       /\ \A k \in Inums : k # i /\ k # d => dinode'[k] = dinode[k]
  BY <1>0, <1>8, <1>12, <1>13, <1>14, <1>15, <1>21
<1> QED BY <1>1, <1>3, <1>5, <1>8, <1>9, <1>12, <1>22

LEMMA FillStep ==
    ASSUME IInv, NEW p \in Procs, Fill(p)
    PROVE  IInv'
<1>0. Typed /\ CallAt(p) /\ Knows(p) /\ Once /\ DiskOK /\ LocksOK /\ Agrees
  BY DEF IInv, CallsOK, Known
<1>1. PICK s, t, n, y : s = ip[p] /\ t = dp[p] /\ n = Name(p) /\ y = NewType(p)
  OBVIOUS
<1>2. PICK subdir \in {0, 1} : subdir = (IF y = "DIR" THEN 1 ELSE 0)
  OBVIOUS
<1>3. /\ Ready(p, "fill") /\ MayLock(s)
      /\ inode' = [Relink(Read(s), t, subdir) EXCEPT ![s].nlink = 1]
      /\ dinode' = FillDisk(inode[s].inum, inode[t].inum, n, subdir)
      /\ PassLock(p, s, t) /\ Points(p, s, NoSlot) /\ Put(p, <<t>>) /\ Goto(p, "filled")
      /\ UNCHANGED <<call, path, cwd, file, freeing, load>>
  BY <1>1, <1>2 DEF Fill, FillDisk, PassLock
<1>4. /\ puts[p] = <<>> /\ pc[p] = "fill" /\ call' = call /\ path' = path
      /\ cwd' = cwd /\ file' = file /\ freeing' = freeing /\ load' = load
      /\ ip' = [ip EXCEPT ![p] = s] /\ dp' = [dp EXCEPT ![p] = NoSlot]
      /\ puts' = [puts EXCEPT ![p] = <<t>>] /\ pc' = [pc EXCEPT ![p] = "filled"]
  BY <1>3 DEF Ready, Points, Put, Goto
<1>5. /\ s \in Slots /\ Held(s) /\ Has(p, s) /\ t \in Slots /\ Held(t) /\ Has(p, t) /\ freeing[p] = "no"
      /\ s # NoSlot /\ call[p] \in Calls /\ call[p].op # "close" /\ Avoids(call[p].new)
  BY <1>1, <1>4, ReadyFacts DEF WithIp, WithDp
<1>6. PICK d \in Inums, i \in Inums : d = inode[t].inum /\ i = inode[s].inum
  BY <1>0, <1>5 DEF Once
<1>7. n \in Names \ {DotDot} /\ dinode[d].type = "DIR"
  <2>1. Len(path[p]) = 1 /\ n # DotDot
    BY <1>0, <1>1, <1>4 DEF CallAt, Named
  <2>2. PICK u \in Seq(Names) : u = path[p] /\ Len(u) = 1
    BY <1>0, <2>1 DEF Typed
  <2>3. u[1] \in Names
    BY <2>2
  <2>4. Disk(t).type = "DIR"
    BY <1>0, <1>1, <1>4 DEF Knows, KnowsKinds, WithDp
  <2> QED BY <1>1, <1>6, <2>1, <2>2, <2>3, <2>4 DEF Name, Disk
<1>8. s # t /\ i # d
  <2>1. s # t
    BY <1>0, <1>1, <1>4 DEF LocksOK
  <2> QED BY <1>0, <1>5, <1>6, <2>1 DEF Once
<1>9. Sees(p, inode, t) /\ inode[t].valid
  BY <1>1, <1>4, <1>5, SeesLocked DEF DpLocked
<1>10. /\ SameSlots(Read(s)) /\ Read(s) \in Table
       /\ \A u \in Slots : u # s => Read(s)[u] = inode[u]
       /\ Read(s)[s].valid /\ Read(s)[s].type = Disk(s).type /\ Disk(s).type # "FREE"
       /\ \A r \in Procs : ~Locks(r, s) /\ ~Leaves(r, s)
  BY <1>3, <1>5, ReadFacts DEF SameSlots
\* The inode is as ialloc left it: it has no name, and no link.
<1>11. /\ dinode[i].type = y /\ dinode[i].nlink = 0 /\ y \in {"DIR", "FILE"}
  <2>1. Filling(p) /\ Fresh(p) = i
    BY <1>1, <1>4, <1>6 DEF Filling, Fresh
  <2>2. dinode[i] = [FreeInode EXCEPT !.type = y]
    BY <1>0, <1>1, <2>1 DEF Knows, Reserves
  <2>3. y \in {"DIR", "FILE"}
    BY <1>1 DEF NewType
  <2> QED BY <2>2, <2>3 DEF FreeInode
<1>12. NamesOf(i) = {} /\ Parents(i) = {} /\ i # Root
  <2>1. Links(i) <= 0 /\ Links(i) \in Nat
    BY <1>0, <1>11, LinkCounts DEF DiskOK
  <2>2. Links(i) = 0
    BY <2>1
  <2> QED BY <2>2, LinkCounts
<1>13. PICK e : e = <<d, n>>
  OBVIOUS
<1>14. PICK a \in Nat, b \in Nat : a = dinode[d].nlink /\ b = a + subdir
  <2>1. dinode[d].nlink \in Nat
    BY <1>0 DEF Typed, Dinodes
  <2> QED BY <2>1
<1>15. /\ dinode' \in [Inums -> Dinodes] /\ dinode'[i].nlink = 1 /\ dinode'[d].nlink = b
       /\ \A k \in Inums : /\ dinode'[k].type = dinode[k].type
                           /\ k # i /\ k # d => dinode'[k] = dinode[k]
                           /\ \A m \in Names : dinode'[k].entries[m] =
                                   IF k = d /\ m = n THEN i
                                   ELSE IF k = i /\ m = DotDot /\ subdir = 1 THEN d
                                   ELSE dinode[k].entries[m]
  <2>1. dinode' = FillDisk(i, d, n, subdir)
    BY <1>3, <1>6
  <2>2. n \in Names
    BY <1>7
  <2> QED BY <1>0, <1>8, <1>14, <2>1, <2>2, FillsDisk
<1>16. PICK T : T = inode'
  OBVIOUS
<1>17. /\ T \in Table /\ T[t].nlink = b /\ T[s].nlink = 1
       /\ \A u \in Slots : /\ T[u].ref = inode[u].ref /\ T[u].inum = inode[u].inum
                           /\ T[u].type = Read(s)[u].type /\ T[u].valid = Read(s)[u].valid
                           /\ u # t /\ u # s => T[u].nlink = Read(s)[u].nlink
  <2>1. PICK R \in Table : R = Read(s)
    BY <1>10
  <2>2. R[t].nlink = a
    <3>1. inode[t].nlink = Disk(t).nlink
      BY <1>9 DEF Sees
    <3>2. Disk(t) = dinode[d]
      BY <1>6 DEF Disk
    <3>3. R[t] = inode[t]
      BY <1>5, <1>8, <1>10, <2>1
    <3> QED BY <1>14, <3>1, <3>2, <3>3
  <2>3. PICK v \in Slots, w \in Slots : v = t /\ w = s
    BY <1>5
  <2>4. PICK U : U = Renumber(R, v, b)
    OBVIOUS
  <2>5. /\ U \in Table /\ U[v].nlink = b
        /\ \A u \in Slots : /\ U[u].ref = R[u].ref /\ U[u].inum = R[u].inum
                            /\ U[u].valid = R[u].valid /\ U[u].type = R[u].type
                            /\ u # v => U[u].nlink = R[u].nlink
    BY <2>4, Renumbered
  <2>6. PICK V : V = Renumber(U, w, 1)
    OBVIOUS
  <2>7. /\ V \in Table /\ V[w].nlink = 1
        /\ \A u \in Slots : /\ V[u].ref = U[u].ref /\ V[u].inum = U[u].inum
                            /\ V[u].valid = U[u].valid /\ V[u].type = U[u].type
                            /\ u # w => V[u].nlink = U[u].nlink
    <3>1. PICK one \in Nat : one = 1
      OBVIOUS
    <3>2. V = Renumber(U, w, one) /\ U \in Table
      BY <2>5, <2>6, <3>1
    <3> QED BY <3>1, <3>2, Renumbered
  <2>8. U = Relink(Read(s), t, subdir)
    BY <1>14, <2>1, <2>2, <2>3, <2>4 DEF Relink, Renumber
  <2>9. T = V
    BY <1>3, <1>16, <2>3, <2>6, <2>8 DEF Renumber
  <2>10. \A u \in Slots : R[u].ref = inode[u].ref /\ R[u].inum = inode[u].inum
    BY <1>10, <2>1 DEF SameSlots
  <2> QED BY <1>8, <2>1, <2>3, <2>5, <2>7, <2>9, <2>10
<1>21. SameSlots(T)
  BY <1>17 DEF SameSlots
<1>22. Spares(p, T)
  <2>1. \A u \in Slots, q \in Procs \ {p} : Locks(q, u) => u # s /\ u # t
    BY <1>9, <1>10 DEF Sees
  <2> QED BY <1>10, <1>17, <2>1 DEF Spares
<1>23. GetsFrom(p, T, NoSlot)
  BY <1>16 DEF GetsFrom
<1>24. Right(T)
  <2>1. ASSUME NEW u \in Slots, Held(u), T[u].valid, \A r \in Procs : ~Leaves(r, u)
        PROVE  /\ T[u].type = dinode'[inode[u].inum].type /\ T[u].nlink = dinode'[inode[u].inum].nlink
               /\ T[u].type # "FREE"
    <3>1. CASE u = t
      <4>1. T[t].type = inode[t].type /\ T[t].nlink = b
        BY <1>5, <1>8, <1>10, <1>17
      <4>2. inode[t].type = Disk(t).type /\ Disk(t).type # "FREE"
        BY <1>9 DEF Sees
      <4> QED BY <1>6, <1>15, <3>1, <4>1, <4>2 DEF Disk
    <3>2. CASE u = s
      <4>1. T[s].type = Disk(s).type /\ T[s].nlink = 1
        BY <1>5, <1>10, <1>17
      <4>2. Disk(s) = dinode[i]
        BY <1>6 DEF Disk
      <4> QED BY <1>6, <1>10, <1>15, <3>2, <4>1, <4>2
    <3>3. CASE u # s /\ u # t
      <4>1. inode[u].inum # d /\ inode[u].inum # i /\ inode[u].inum \in Inums
        BY <1>0, <1>5, <1>6, <2>1, <3>3 DEF Once
      <4>2. inode[u].type = Disk(u).type /\ inode[u].nlink = Disk(u).nlink /\ inode[u].type # "FREE"
        BY <1>0, <1>10, <1>17, <2>1, <3>3 DEF Agrees
      <4>3. T[u].type = inode[u].type /\ T[u].nlink = inode[u].nlink
        BY <1>10, <1>17, <3>3
      <4>4. dinode'[inode[u].inum] = Disk(u)
        BY <1>15, <4>1 DEF Disk
      <4> QED BY <4>2, <4>3, <4>4
    <3> QED BY <3>1, <3>2, <3>3
  <2> QED BY <2>1 DEF Right
<1>25. TableMove(p)
  BY <1>21, <1>22, <1>23, TableFacts
<1>26. LocksMove(p) /\ lock' \in [Slots -> Procs \cup {Nobody}] /\ pc'[p] = "filled"
  <2>1. \A u \in Slots : Locks(p, u) <=> u = t
    BY <1>1, <1>4, ReadyFacts DEF DpLocked, IpLocked
  <2>2. pc'[p] = "filled" /\ ip'[p] = s /\ freeing'[p] = "no"
    BY <1>0, <1>4, <1>5 DEF Typed
  <2>3. \A u \in Slots : Locks(p, u)' <=> u = s
    BY <2>2 DEF Locks, DpLocked, IpLocked
  <2>4. lock[s] = Nobody /\ PassLock(p, s, t)
    BY <1>3 DEF MayLock
  <2> QED BY <1>5, <1>8, <2>1, <2>2, <2>3, <2>4, LockPassed
<1>27. Keeps(p) /\ Moved(p)
  <2>1. Keeps(p)
    BY <1>0, <1>4, <1>15, <1>26 DEF Keeps, Typed
  <2>2. Moved(p)
    BY <1>0, <1>4, <1>5 DEF Moved, Typed, Steps, WithIp
  <2> QED BY <2>1, <2>2
<1>28. Frame(p) /\ Others(p)
  BY <1>0, <1>27, MovedFrame DEF Frame
<1>29. Now(p, cwd[p], file[p], ip[p], NoSlot, <<dp[p]>>) /\ ip'[p] = s /\ call'[p] = call[p]
  BY <1>0, <1>1, <1>4 DEF Now, Typed
<1>30. Passes(p, NoSlot)
  BY <1>29 DEF Passes
<1>31. CallAt(p)'
  <2>1. /\ Len(puts'[p]) <= 2 /\ Len(puts'[p]) # 2 /\ dp'[p] = NoSlot /\ ip'[p] # NoSlot /\ freeing'[p] = "no"
    BY <1>4, <1>5, <1>29, <1>30, PassesFew DEF Now
  <2> QED BY <1>5, <1>26, <1>29, <2>1 DEF CallAt, WithIp, WithDp, Named
<1>32. Knows(p)' /\ ~Filling(p)'
  <2>1. inode'[ip'[p]].valid
    BY <1>5, <1>10, <1>16, <1>17, <1>29
  <2>2. KnowsValid(p)'
    BY <1>4, <1>5, <1>26, <2>1 DEF KnowsValid, DpLocked
  <2>3. KnowsKinds(p)' /\ KnowsEntry(p)' /\ Reserves(p)' /\ ~Filling(p)'
    BY <1>26 DEF KnowsKinds, KnowsEntry, Reserves, Filling, WithDp, Linking
  <2> QED BY <2>2, <2>3 DEF Knows
<1>33. DiskMove(p)
  <2>1. \A q \in Procs \ {p} : ~Locks(q, t) /\ ~Locks(q, s)
    BY <1>9, <1>10 DEF Sees
  <2> QED BY <1>5, <1>6, <1>15, <2>1 DEF DiskMove
<1>34. \A k \in Inums : /\ NamesOf(k)' \ {e} \subseteq NamesOf(k)
                        /\ k # i => NamesOf(k)' \subseteq NamesOf(k) /\ e \notin NamesOf(k)'
  <2>1. Renames(d, n, i)
    BY <1>15 DEF Renames
  <2> QED BY <1>7, <1>13, <2>1, NamesMove
<1>35. \A k \in Inums : /\ Parents(k)' \ {i} \subseteq Parents(k)
                        /\ i \in Parents(k)' => subdir = 1 /\ k = d
  <2>1. ASSUME NEW k \in Inums, NEW x \in Inums \ {k}, dinode'[x].type = "DIR",
               dinode'[x].entries[DotDot] = k, NamesOf(x)' # {}, x # i
        PROVE  dinode[x].type = "DIR" /\ dinode[x].entries[DotDot] = k /\ NamesOf(x) # {}
    BY <1>7, <1>15, <1>34, <2>1, ConstantFacts
  <2>2. ASSUME NEW k \in Inums, dinode'[i].type = "DIR", dinode'[i].entries[DotDot] = k
        PROVE  subdir = 1 /\ k = d
    <3>1. subdir = 1
      BY <1>2, <1>11, <1>15, <2>2
    <3> QED BY <1>8, <1>15, <2>2, <3>1, ConstantFacts
  <2> QED BY <2>1, <2>2 DEF Parents
<1>36. /\ \A k \in Inums : Pending(k)' \ {p} \subseteq Pending(k)
       /\ \A k \in Inums : p \notin Pending(k)' /\ p \notin Pending(k)
  <2>1. \A k \in Inums : Pending(k)' \ {p} \subseteq Pending(k)
    BY <1>25, <1>28, PendingMoves
  <2>2. \A k \in Inums : p \notin Pending(k)'
    BY <1>26 DEF Pending, Linking
  <2>3. \A k \in Inums : p \notin Pending(k)
    BY <1>4 DEF Pending, Linking
  <2> QED BY <2>1, <2>2, <2>3
<1>37. DiskOK'
  <2>1. ASSUME NEW k \in Inums PROVE dinode'[k].type = "FREE" => dinode'[k] = FreeInode
    BY <1>0, <1>7, <1>11, <1>15 DEF DiskOK
  <2>2. ASSUME NEW k \in Inums PROVE OneName(k)'
    <3>1. ASSUME dinode'[k].type = "DIR"
          PROVE  /\ \A f \in NamesOf(k)' : dinode'[k].entries[DotDot] = f[1] /\ f[1] # k
                 /\ \A f, g \in NamesOf(k)' : f = g
      <4>1. CASE k = i
        <5>1. \A f \in NamesOf(k)' : f = e
          BY <1>12, <1>34, <4>1
        <5>2. subdir = 1
          BY <1>2, <1>11, <1>15, <3>1, <4>1
        <5>3. dinode'[k].entries[DotDot] = d
          BY <1>8, <1>15, <4>1, <5>2, ConstantFacts
        <5>4. e[1] = d
          BY <1>13
        <5> QED BY <1>8, <4>1, <5>1, <5>3, <5>4
      <4>2. CASE k # i
        <5>1. dinode[k].type = "DIR" /\ OneName(k)
          BY <1>0, <1>15, <3>1 DEF DiskOK
        <5>2. NamesOf(k)' \subseteq NamesOf(k) /\ dinode'[k].entries[DotDot] = dinode[k].entries[DotDot]
          BY <1>7, <1>15, <1>34, <4>2, ConstantFacts
        <5>3. /\ \A f \in NamesOf(k) : dinode[k].entries[DotDot] = f[1] /\ f[1] # k
              /\ \A f, g \in NamesOf(k) : f = g
          BY <5>1 DEF OneName
        <5> QED BY <5>2, <5>3
      <4> QED BY <4>1, <4>2
    <3> QED BY <3>1 DEF OneName
  <2>3. NamesOf(Root)' = {} /\ dinode'[Root].type = "DIR"
    <3>1. NamesOf(Root) = {} /\ dinode[Root].type = "DIR"
      BY <1>0 DEF DiskOK
    <3> QED BY <1>12, <1>15, <1>34, <3>1, ConstantFacts
  <2>4. ASSUME NEW k \in Inums PROVE Links(k)' <= dinode'[k].nlink
    <3>1. PICK c \in Nat : c = dinode[k].nlink /\ Links(k) <= c
      BY <1>0 DEF DiskOK, Typed, Dinodes
    <3>2. /\ NamesOf(k)' \ {e} \subseteq NamesOf(k) /\ Parents(k)' \ {i} \subseteq Parents(k)
          /\ Pending(k)' \ {p} \subseteq Pending(k)
      BY <1>34, <1>35, <1>36
    <3>3. In(p, Pending(k)') = 0 /\ In(p, Pending(k)) = 0
      BY <1>36 DEF In
    <3>4. PICK u \in {0, 1}, v \in {0, 1}, u1 \in {0, 1}, v1 \in {0, 1} :
             /\ u = In(e, NamesOf(k)) /\ v = In(i, Parents(k))
             /\ u1 = In(e, NamesOf(k)') /\ v1 = In(i, Parents(k)')
      BY DEF In
    <3>5. PICK z \in Nat : z = dinode'[k].nlink
      BY <1>15 DEF Dinodes
    <3>6. c + (u1 + v1 + 0) <= z + (u + v + 0)
      <4>1. CASE k = i
        <5>1. v1 = 0 /\ c = 0 /\ z = 1
          BY <1>8, <1>11, <1>15, <1>35, <3>1, <3>4, <3>5, <4>1 DEF In
        <5> QED BY <5>1
      <4>2. CASE k = d
        <5>1. u1 = 0
          BY <1>8, <1>34, <3>4, <4>2 DEF In
        <5>2. c = a /\ z = a + subdir
          BY <1>14, <1>15, <3>1, <3>5, <4>2
        <5>3. v1 <= subdir
          <6>1. CASE i \in Parents(k)'
            BY <1>35, <3>4, <6>1 DEF In
          <6>2. CASE i \notin Parents(k)'
            BY <3>4, <6>2 DEF In
          <6> QED BY <6>1, <6>2
        <5> QED BY <5>1, <5>2, <5>3
      <4>3. CASE k # i /\ k # d
        <5>1. u1 = 0 /\ v1 = 0 /\ z = c
          BY <1>15, <1>34, <1>35, <3>1, <3>4, <3>5, <4>3 DEF In
        <5> QED BY <5>1
      <4> QED BY <4>1, <4>2, <4>3
    <3>7. c + (In(e, NamesOf(k)') + In(i, Parents(k)') + In(p, Pending(k)'))
             <= z + (In(e, NamesOf(k)) + In(i, Parents(k)) + In(p, Pending(k)))
      BY <3>3, <3>4, <3>6
    <3>8. Links(k)' <= z
      BY <3>1, <3>2, <3>7, LinksWithin
    <3> QED BY <3>5, <3>8
  <2> QED BY <2>1, <2>2, <2>3, <2>4 DEF DiskOK
<1> QED BY <1>4, <1>21, <1>22, <1>23, <1>24, <1>26, <1>28, <1>30, <1>31, <1>32, <1>33, <1>37, DiskCall

\* Processes that are in no call, as after a start of the machine.
AtRest ==
    /\ Typed /\ DiskOK
    /\ \A p \in Procs :
          /\ pc[p] = "user" /\ puts[p] = <<>> /\ freeing[p] = "no"
          /\ cwd[p] = 1 /\ file[p] = NoSlot /\ ip[p] = NoSlot /\ dp[p] = NoSlot
    /\ \A p \in Procs, s \in Slots : lock[s] # p
    /\ \A s \in Slots : /\ ~inode[s].valid
                        /\ s = 1 => inode[s].ref = Cardinality(Procs) /\ inode[s].inum = Root
                        /\ s # 1 => inode[s].ref = 0

LEMMA RestCounts == AtRest => Counted
<1> SUFFICES ASSUME AtRest PROVE Counted
  OBVIOUS
<1>1. ASSUME NEW s \in Slots PROVE inode[s].ref = References(s)
  <2>1. /\ {p \in Procs : file[p] = s} = {} /\ {p \in Procs : ip[p] = s} = {}
        /\ {p \in Procs : dp[p] = s} = {}
    BY ConstantFacts DEF AtRest
  <2>2. {r \in Procs \X (1..2) : r[2] \in DOMAIN puts[r[1]] /\ puts[r[1]][r[2]] = s} = {}
    <3>1. ASSUME NEW r \in Procs \X (1..2) PROVE r[2] \notin DOMAIN puts[r[1]]
      <4>1. puts[r[1]] = <<>>
        BY DEF AtRest
      <4>2. DOMAIN <<>> = {}
        OBVIOUS
      <4> QED BY <4>1, <4>2
    <3> QED BY <3>1
  <2>3. Cardinality({}) = 0
    BY FS_EmptySet
  <2>4. CASE s = 1
    <3>1. {p \in Procs : cwd[p] = s} = Procs
      BY <2>4 DEF AtRest
    <3>2. Cardinality(Procs) \in Nat
      BY ConstantFacts, FS_CardinalityType
    <3>3. References(s) = Cardinality(Procs) + 0 + 0 + 0 + 0
      BY <2>1, <2>2, <2>3, <3>1 DEF References
    <3> QED BY <2>4, <3>2, <3>3 DEF AtRest
  <2>5. CASE s # 1
    <3>1. {p \in Procs : cwd[p] = s} = {}
      BY <2>5 DEF AtRest
    <3>2. References(s) = 0 + 0 + 0 + 0 + 0
      BY <2>1, <2>2, <2>3, <3>1 DEF References
    <3> QED BY <2>5, <3>2 DEF AtRest
  <2> QED BY <2>4, <2>5
<1> QED BY <1>1 DEF Counted

LEMMA RestInv == AtRest => IInv
<1> SUFFICES ASSUME AtRest PROVE IInv
  OBVIOUS
<1>1. Typed /\ DiskOK /\ Counted
  BY RestCounts DEF AtRest
<1>2. ASSUME NEW p \in Procs, NEW s \in Slots
      PROVE  ~Locks(p, s) /\ ~Leaves(p, s) /\ (Has(p, s) => s = 1)
  <2>1. Len(<<>>) = 0 /\ ~(0 >= 1) /\ ~(0 >= 2)
    OBVIOUS
  <2> QED BY <2>1, ConstantFacts DEF AtRest, Locks, Leaves, Has, DpLocked, IpLocked
<1>3. CallsOK
  <2>1. ASSUME NEW p \in Procs PROVE CallAt(p)
    <3>1. Len(puts[p]) <= 2 /\ Len(puts[p]) # 2
      <4>1. Len(<<>>) = 0 /\ 0 <= 2
        OBVIOUS
      <4> QED BY <4>1 DEF AtRest
    <3> QED BY <3>1 DEF AtRest, CallAt, WithIp, WithDp, Named
  <2> QED BY <2>1 DEF CallsOK
<1>4. Once
  BY ConstantFacts DEF AtRest, Once, Held
<1>5. LocksOK
  BY <1>2 DEF AtRest, LocksOK
<1>6. Agrees
  BY DEF AtRest, Agrees
<1>7. Live
  <2>1. inode[1].inum = Root
    BY ConstantFacts DEF AtRest
  <2>2. dinode[Root].type = "DIR"
    BY <1>1 DEF DiskOK
  <2> QED BY <1>2, <2>1, <2>2 DEF Live, Disk
<1>8. Known
  <2>1. ASSUME NEW p \in Procs PROVE Knows(p)
    <3>1. pc[p] = "user" /\ freeing[p] = "no"
      BY DEF AtRest
    <3> QED BY <3>1 DEF Knows, KnowsValid, KnowsKinds, KnowsEntry, Reserves, Filling,
                        DpLocked, IpLocked, WithDp, Linking
  <2> QED BY <2>1 DEF Known
<1> QED BY <1>1, <1>3, <1>4, <1>5, <1>6, <1>7, <1>8 DEF IInv

\* The first state.
LEMMA InitDisk == Init => DiskOK
<1> SUFFICES ASSUME Init PROVE DiskOK
  OBVIOUS
<1>1. PICK R : R = [type |-> "DIR", nlink |-> 1, entries |-> [Empty EXCEPT ![DotDot] = Root]]
  OBVIOUS
<1>2. R.type = "DIR" /\ R.nlink = 1 /\ \A n \in Names \ {DotDot} : R.entries[n] = NoInum
  BY <1>1 DEF Empty
<1>3. /\ \A i \in Inums : dinode[i] = IF i = Root THEN R ELSE FreeInode
      /\ \A p \in Procs : pc[p] = "user"
  BY <1>1 DEF Init
<1>4. FreeInode.type = "FREE" /\ FreeInode.nlink = 0
  BY DEF FreeInode
<1>5. ASSUME NEW i \in Inums PROVE NamesOf(i) = {}
  <2>1. ASSUME NEW d \in Inums, NEW n \in Names \ {DotDot}, dinode[d].type = "DIR",
               dinode[d].entries[n] = i
        PROVE  FALSE
    BY <1>2, <1>3, <1>4, <2>1, ConstantFacts
  <2> QED BY <2>1 DEF NamesOf
<1>6. ASSUME NEW i \in Inums PROVE Parents(i) = {} /\ Pending(i) = {}
  BY <1>3, <1>5 DEF Parents, Pending, Linking
<1>7. ASSUME NEW i \in Inums PROVE Links(i) <= dinode[i].nlink
  <2>1. Cardinality({}) = 0
    BY FS_EmptySet
  <2>2. Links(i) = 0 + 0 + Rooted(i) + 0
    BY <1>5, <1>6, <2>1 DEF Links
  <2> QED BY <1>2, <1>3, <1>4, <2>2 DEF Rooted
<1>8. \A i \in Inums : OneName(i)
  BY <1>5 DEF OneName
<1>9. \A i \in Inums : dinode[i].type = "FREE" => dinode[i] = FreeInode
  BY <1>2, <1>3
<1> QED BY <1>2, <1>3, <1>5, <1>7, <1>8, <1>9, ConstantFacts DEF DiskOK

LEMMA InitTyped ==
    ASSUME NoDotDot
    PROVE  Init => Typed
<1> SUFFICES ASSUME Init PROVE Typed
  OBVIOUS
<1>1. dinode \in [Inums -> Dinodes]
  <2>1. Empty \in [Names -> Inums \cup {NoInum}]
    BY DEF Empty
  <2>2. [Empty EXCEPT ![DotDot] = Root] \in [Names -> Inums \cup {NoInum}]
    BY <2>1, ConstantFacts
  <2>3. FreeInode \in Dinodes
    BY <2>1 DEF FreeInode, Dinodes, Types
  <2>4. [type |-> "DIR", nlink |-> 1, entries |-> [Empty EXCEPT ![DotDot] = Root]] \in Dinodes
    BY <2>2 DEF Dinodes, Types
  <2> QED BY <2>3, <2>4 DEF Init
<1>2. inode \in Table
  <2>1. Cardinality(Procs) \in Nat
    BY ConstantFacts, FS_CardinalityType
  <2>2. NoInode \in [ref : Nat, inum : Inums \cup {NoInum}, valid : BOOLEAN, type : Types, nlink : Nat]
    BY DEF NoInode, Types
  <2>3. [NoInode EXCEPT !.ref = Cardinality(Procs), !.inum = Root]
           \in [ref : Nat, inum : Inums \cup {NoInum}, valid : BOOLEAN, type : Types, nlink : Nat]
    BY <2>1, ConstantFacts DEF NoInode, Types
  <2> QED BY <2>2, <2>3 DEF Init, Table
<1>3. /\ lock \in [Slots -> Procs \cup {Nobody}]
      /\ cwd \in [Procs -> Slots] /\ file \in [Procs -> Slots \cup {NoSlot}]
      /\ pc \in [Procs -> Steps] /\ ip \in [Procs -> Slots \cup {NoSlot}]
      /\ dp \in [Procs -> Slots \cup {NoSlot}]
      /\ freeing \in [Procs -> {"no", "trunc", "unlock", "drop"}]
  BY ConstantFacts DEF Init, Steps
<1>4. path \in [Procs -> Seq(Names)] /\ puts \in [Procs -> Seq(Slots)]
  <2>1. <<>> \in Seq(Names) /\ <<>> \in Seq(Slots)
    OBVIOUS
  <2> QED BY <2>1 DEF Init
<1>5. call \in [Procs -> Calls \cup {NoCall}]
  BY DEF Init, NoCall
<1>6. load \in Loads /\ \A p \in Procs : \A c \in load.calls[p] : Avoids(c.path) /\ Avoids(c.new)
  <2>1. load \in Workloads
    BY DEF Init
  <2> QED BY <2>1, InodesAssumption DEF Loads, NoDotDot
<1> QED BY <1>1, <1>2, <1>3, <1>4, <1>5, <1>6 DEF Typed

LEMMA InitInv ==
    ASSUME NoDotDot
    PROVE  Init => IInv
<1> SUFFICES ASSUME Init PROVE IInv
  OBVIOUS
<1>1. Typed /\ DiskOK
  BY InitDisk, InitTyped
<1>2. \A s \in Slots : /\ ~inode[s].valid
                       /\ s = 1 => inode[s].ref = Cardinality(Procs) /\ inode[s].inum = Root
                       /\ s # 1 => inode[s].ref = 0
  BY DEF Init, NoInode
<1>3. \A p \in Procs :
         /\ pc[p] = "user" /\ puts[p] = <<>> /\ freeing[p] = "no"
         /\ cwd[p] = 1 /\ file[p] = NoSlot /\ ip[p] = NoSlot /\ dp[p] = NoSlot
  BY DEF Init
<1>4. \A p \in Procs, s \in Slots : lock[s] # p
  BY ConstantFacts DEF Init
<1> QED BY <1>1, <1>2, <1>3, <1>4, RestInv DEF AtRest

\* A crash, and the reclaiming of the inodes that have no link.
LEMMA CrashDisk ==
    ASSUME IInv, Crash
    PROVE  DiskOK' /\ dinode' \in [Inums -> Dinodes]
<1>0. Typed /\ DiskOK /\ dinode \in [Inums -> Dinodes]
  BY DEF IInv, Typed
<1>1. /\ \A i \in Inums : dinode'[i] = IF Orphan(i) THEN FreeInode ELSE dinode[i]
      /\ \A p \in Procs : pc'[p] = "user"
  BY DEF Crash, Booted, local, Ready
<1>2. FreeInode \in Dinodes /\ FreeInode.type = "FREE" /\ FreeInode.nlink = 0
  BY DEF FreeInode, Dinodes, Types, Empty
<1>3. dinode' \in [Inums -> Dinodes]
  <2>1. dinode' = [i \in Inums |-> IF Orphan(i) THEN FreeInode ELSE dinode[i]]
    BY DEF Crash
  <2> QED BY <1>0, <1>2, <2>1
<1>4. ASSUME NEW i \in Inums, Orphan(i) PROVE NamesOf(i) = {} /\ Parents(i) = {} /\ i # Root
  <2>1. Links(i) <= 0 /\ Links(i) \in Nat
    BY <1>0, <1>4, LinkCounts DEF DiskOK, Orphan
  <2>2. Links(i) = 0
    BY <2>1
  <2> QED BY <2>2, LinkCounts
<1>5. ASSUME NEW i \in Inums
      PROVE  NamesOf(i)' \subseteq NamesOf(i) /\ Pending(i)' = {}
  <2>1. ASSUME NEW d \in Inums, NEW n \in Names, dinode'[d].type = "DIR", dinode'[d].entries[n] = i
        PROVE  dinode[d].type = "DIR" /\ dinode[d].entries[n] = i
    BY <1>1, <1>2, <2>1
  <2> QED BY <1>1, <2>1 DEF NamesOf, Pending, Linking
<1>6. ASSUME NEW i \in Inums PROVE Parents(i)' \subseteq Parents(i)
  <2>1. ASSUME NEW d \in Inums, dinode'[d].type = "DIR", dinode'[d].entries[DotDot] = i, NamesOf(d)' # {}
        PROVE  dinode[d].type = "DIR" /\ dinode[d].entries[DotDot] = i /\ NamesOf(d) # {}
    BY <1>1, <1>2, <1>5, <2>1
  <2> QED BY <2>1 DEF Parents
<1>7. ASSUME NEW i \in Inums PROVE Links(i)' <= dinode'[i].nlink
  <2>1. PICK c \in Nat : c = dinode[i].nlink /\ Links(i) <= c
    BY <1>0 DEF DiskOK, Dinodes
  <2>2. PICK z \in Nat : z = dinode'[i].nlink /\ z = c
    BY <1>1, <1>2, <2>1 DEF Orphan
  <2>3. Cardinality(NamesOf(i)') <= Cardinality(NamesOf(i)) /\ Cardinality(NamesOf(i)') \in Nat
    <3>1. IsFiniteSet(NamesOf(i)) /\ NamesOf(i)' \subseteq NamesOf(i)
      BY <1>5, LinkCounts
    <3>2. PICK A, B : A = NamesOf(i) /\ B = NamesOf(i)'
      OBVIOUS
    <3>3. IsFiniteSet(B) /\ Cardinality(B) <= Cardinality(A)
      BY <3>1, <3>2, FS_Subset
    <3> QED BY <3>2, <3>3, FS_CardinalityType
  <2>4. Cardinality(Parents(i)') <= Cardinality(Parents(i)) /\ Cardinality(Parents(i)') \in Nat
    <3>1. IsFiniteSet(Parents(i)) /\ Parents(i)' \subseteq Parents(i)
      BY <1>6, LinkCounts
    <3>2. PICK A, B : A = Parents(i) /\ B = Parents(i)'
      OBVIOUS
    <3>3. IsFiniteSet(B) /\ Cardinality(B) <= Cardinality(A)
      BY <3>1, <3>2, FS_Subset
    <3> QED BY <3>2, <3>3, FS_CardinalityType
  <2>5. Cardinality(Pending(i)') = 0
    BY <1>5, FS_EmptySet
  <2>6. PICK a, b, d, e, aa, bb :
          /\ a = Cardinality(NamesOf(i)) /\ b = Cardinality(Parents(i)) /\ d = Cardinality(Pending(i))
          /\ e = Rooted(i) /\ aa = Cardinality(NamesOf(i)') /\ bb = Cardinality(Parents(i)')
    OBVIOUS
  <2>7. a \in Nat /\ b \in Nat /\ d \in Nat /\ e \in Nat
    BY <2>6, LinkCounts
  <2>8. a + b + e + d <= c
    BY <2>1, <2>6 DEF Links
  <2>9. Links(i)' = aa + bb + e + 0
    BY <2>5, <2>6 DEF Links, Rooted
  <2>10. aa <= a /\ bb <= b /\ aa \in Nat /\ bb \in Nat
    BY <2>3, <2>4, <2>6
  <2>11. Links(i)' <= z
    BY <2>2, <2>7, <2>8, <2>9, <2>10
  <2> QED BY <2>2, <2>11
<1>8. ASSUME NEW i \in Inums PROVE OneName(i)'
  <2>1. ASSUME dinode'[i].type = "DIR"
        PROVE  /\ \A f \in NamesOf(i)' : dinode'[i].entries[DotDot] = f[1] /\ f[1] # i
               /\ \A f, g \in NamesOf(i)' : f = g
    <3>1. dinode'[i] = dinode[i] /\ dinode[i].type = "DIR" /\ OneName(i)
      BY <1>0, <1>1, <1>2, <2>1 DEF DiskOK
    <3>2. /\ \A f \in NamesOf(i) : dinode[i].entries[DotDot] = f[1] /\ f[1] # i
          /\ \A f, g \in NamesOf(i) : f = g
      BY <3>1 DEF OneName
    <3> QED BY <1>5, <3>1, <3>2
  <2> QED BY <2>1 DEF OneName
<1>9. NamesOf(Root)' = {} /\ dinode'[Root].type = "DIR"
  <2>1. NamesOf(Root) = {} /\ dinode[Root].type = "DIR"
    BY <1>0 DEF DiskOK
  <2> QED BY <1>1, <1>4, <1>5, <2>1, ConstantFacts
<1>10. \A i \in Inums : dinode'[i].type = "FREE" => dinode'[i] = FreeInode
  BY <1>0, <1>1 DEF DiskOK
<1> QED BY <1>3, <1>7, <1>8, <1>9, <1>10 DEF DiskOK

LEMMA CrashStep ==
    ASSUME IInv, Crash
    PROVE  IInv'
<1>0. Typed /\ CallsOK /\ LocksOK
  BY DEF IInv
<1>1. /\ lock' = lock /\ pc' = pc /\ call' = call /\ ip' = ip /\ dp' = dp /\ path' = path
      /\ puts' = puts /\ freeing' = freeing
      /\ cwd' = [p \in Procs |-> 1] /\ file' = [p \in Procs |-> NoSlot]
      /\ load' = [load EXCEPT !.crashes = @ - 1] /\ load.crashes > 0
      /\ \A p \in Procs : pc[p] = "user" /\ puts[p] = <<>>
  BY DEF Crash, Booted, local, Ready
<1>2. \A p \in Procs : freeing[p] = "no" /\ ip[p] = NoSlot /\ dp[p] = NoSlot
  BY <1>1, ReadyFacts DEF WithIp, WithDp
<1>3. inode' \in Table
  <2>1. Cardinality(Procs) \in Nat
    BY ConstantFacts, FS_CardinalityType
  <2>2. NoInode \in [ref : Nat, inum : Inums \cup {NoInum}, valid : BOOLEAN, type : Types, nlink : Nat]
    BY DEF NoInode, Types
  <2>3. [NoInode EXCEPT !.ref = Cardinality(Procs), !.inum = Root]
           \in [ref : Nat, inum : Inums \cup {NoInum}, valid : BOOLEAN, type : Types, nlink : Nat]
    BY <2>1, ConstantFacts DEF NoInode, Types
  <2> QED BY <2>2, <2>3 DEF Crash, Booted, Table
<1>4. \A s \in Slots : /\ ~inode'[s].valid
                       /\ s = 1 => inode'[s].ref = Cardinality(Procs) /\ inode'[s].inum = Root
                       /\ s # 1 => inode'[s].ref = 0
  BY DEF Crash, Booted, NoInode
<1>5. load' \in Loads /\ load'.calls = load.calls
  <2>1. PICK l \in Loads : l = load
    BY <1>0 DEF Typed
  <2>2. PICK n \in Nat : n = l.crashes - 1
    BY <1>1, <2>1 DEF Loads
  <2>3. load' = [l EXCEPT !.crashes = n]
    BY <1>1, <2>1, <2>2
  <2> QED BY <2>1, <2>3 DEF Loads
<1>6. Typed'
  <2>1. dinode' \in [Inums -> Dinodes]
    BY CrashDisk
  <2>2. cwd' \in [Procs -> Slots] /\ file' \in [Procs -> Slots \cup {NoSlot}]
    BY <1>1, ConstantFacts
  <2> QED BY <1>0, <1>1, <1>3, <1>5, <2>1, <2>2 DEF Typed
<1>7. \A p \in Procs, s \in Slots : lock'[s] # p
  <2>1. \A p \in Procs, s \in Slots : ~Locks(p, s)
    BY <1>1, <1>2 DEF Locks, DpLocked, IpLocked
  <2> QED BY <1>0, <1>1, <2>1 DEF LocksOK
<1>8. \A p \in Procs :
         /\ pc'[p] = "user" /\ puts'[p] = <<>> /\ freeing'[p] = "no"
         /\ cwd'[p] = 1 /\ file'[p] = NoSlot /\ ip'[p] = NoSlot /\ dp'[p] = NoSlot
  BY <1>1, <1>2
<1>9. DiskOK'
  BY CrashDisk
<1>10. AtRest'
  BY <1>4, <1>6, <1>7, <1>8, <1>9 DEF AtRest
<1>11. (AtRest => IInv)'
  BY RestInv, PTL
<1> QED BY <1>10, <1>11

LEMMA KernelStep ==
    ASSUME IInv, NEW p \in Procs, Kernel(p)
    PROVE  IInv'
<1>1. CASE Iput(p) \/ Walk(p) \/ WalkEnd(p) \/ Open(p) \/ Chdir(p)
  BY <1>1, IputStep, WalkStep, WalkEndStep, OpenStep, ChdirStep
<1>2. CASE Create(p) \/ Exists(p) \/ Ialloc(p) \/ IallocGet(p) \/ Fill(p) \/ FillFails(p)
  BY <1>2, CreateStep, ExistsStep, IallocStep, IallocGetStep, FillStep, FillFailsStep
<1>3. CASE Undo(p) \/ Created(p)
  BY <1>3, UndoStep, CreatedStep
<1>4. CASE Unlink(p) \/ Erase(p) \/ DropLink(p)
  BY <1>4, UnlinkStep, EraseStep, DropLinkStep
<1>5. CASE Link(p) \/ LinkNew(p) \/ LinkUndo(p) \/ UnlinkOld(p)
  BY <1>5, LinkStep, LinkNewStep, LinkUndoStep, UnlinkOldStep
<1> QED BY <1>1, <1>2, <1>3, <1>4, <1>5 DEF Kernel

LEMMA NextInv == IInv /\ [Next]_vars => IInv'
<1> SUFFICES ASSUME IInv, [Next]_vars PROVE IInv'
  OBVIOUS
<1>1. CASE Crash
  BY <1>1, CrashStep
<1>2. ASSUME NEW p \in Procs, User(p) PROVE IInv'
  <2>1. CASE Close(p)
    BY <2>1, CloseStep
  <2>2. ASSUME NEW c \in load.calls[p], Start(p, c) PROVE IInv'
    <3>1. PICK cc : cc = c
      OBVIOUS
    <3>2. cc \in load.calls[p] /\ Start(p, cc)
      BY <2>2, <3>1
    <3> QED BY <3>2, StartStep
  <2> QED BY <1>2, <2>1, <2>2 DEF User
<1>3. ASSUME NEW p \in Procs, Kernel(p) PROVE IInv'
  BY <1>3, KernelStep
<1>4. CASE UNCHANGED vars
  <2>1. /\ dinode' = dinode /\ inode' = inode /\ lock' = lock /\ cwd' = cwd /\ file' = file
        /\ pc' = pc /\ call' = call /\ ip' = ip /\ dp' = dp /\ path' = path /\ puts' = puts
        /\ freeing' = freeing /\ load' = load
    BY <1>4 DEF vars, disk, memory, local
  <2>2. Typed' /\ Counted' /\ Once'
    BY <2>1 DEF IInv, Typed, Counted, References, Once, Held
  <2>3. \A p \in Procs, s \in Slots : /\ Has(p, s)' <=> Has(p, s)
                                      /\ Locks(p, s)' <=> Locks(p, s)
                                      /\ Leaves(p, s)' <=> Leaves(p, s)
    BY <2>1 DEF Has, Locks, Leaves
  <2>4. CallsOK'
    BY <2>1 DEF IInv, CallsOK, CallAt, Has, Name
  <2>5. LocksOK' /\ Agrees' /\ Live'
    BY <2>1, <2>3 DEF IInv, LocksOK, Agrees, Live, Held, Disk
  <2>6. \A p \in Procs : KnowsValid(p)' /\ KnowsKinds(p)' /\ KnowsEntry(p)'
    BY <2>1 DEF IInv, Known, Knows, KnowsValid, KnowsKinds, KnowsEntry, Disk, Entry, Name
  <2>7. \A p \in Procs : Reserves(p)'
    BY <2>1 DEF IInv, Known, Knows, Reserves, Has, Filling, Fresh, NewType
  <2>8. DiskOK'
    BY <2>1 DEF IInv, DiskOK, OneName, Links, NamesOf, Parents, Pending
  <2>9. Known'
    BY <2>6, <2>7 DEF Known, Knows
  <2> QED BY <2>2, <2>4, <2>5, <2>8, <2>9 DEF IInv
<1> QED BY <1>1, <1>2, <1>3, <1>4 DEF Next

\* What the invariant says of the table.
LEMMA InvTable == IInv => TableAgrees
<1> SUFFICES ASSUME IInv PROVE TableAgrees
  OBVIOUS
<1>0. Typed /\ Counted /\ Once /\ LocksOK /\ Agrees
  BY DEF IInv
<1>1. TypeOK
  BY <1>0, ConstantFacts DEF Typed, TypeOK, Dinodes, Table, Slot
<1>2. ASSUME NEW i \in Inums PROVE Cardinality(Cached(i)) <= 1
  <2>1. ASSUME NEW s \in Slots, NEW t \in Slots, s \in Cached(i), t \in Cached(i) PROVE s = t
    BY <1>0, <2>1 DEF Once, Held, Cached
  <2>2. CASE Cached(i) = {}
    <3>1. Cardinality({}) = 0
      BY FS_EmptySet
    <3> QED BY <2>2, <3>1
  <2>3. CASE Cached(i) # {}
    <3>1. PICK s \in Slots : s \in Cached(i)
      BY <2>3 DEF Cached
    <3>2. Cached(i) = {s}
      BY <2>1, <3>1 DEF Cached
    <3>3. Cardinality({s}) = 1
      BY FS_Singleton
    <3> QED BY <3>2, <3>3
  <2> QED BY <2>2, <2>3
<1>3. ASSUME NEW s \in Slots, inode[s].ref > 0, inode[s].valid, lock[s] = Nobody
      PROVE  /\ inode[s].type = Disk(s).type /\ inode[s].nlink = Disk(s).nlink
             /\ inode[s].type # "FREE"
  <2>1. \A p \in Procs : ~Locks(p, s)
    BY <1>0, <1>3, ConstantFacts DEF LocksOK
  <2>2. \A p \in Procs : ~Leaves(p, s)
    BY <2>1 DEF Leaves, Locks
  <2> QED BY <1>0, <1>3, <2>2 DEF Agrees, Held
<1> QED BY <1>0, <1>1, <1>2, <1>3 DEF TableAgrees, Counted

\* What it says of names and links.
LEMMA InvLinks == IInv => LinksAgree
<1> SUFFICES ASSUME IInv PROVE LinksAgree
  OBVIOUS
<1>0. Typed /\ DiskOK
  BY DEF IInv
<1>1. ASSUME NEW i \in Inums, NamesOf(i) # {} PROVE dinode[i].type # "FREE"
  <2> SUFFICES ASSUME dinode[i].type = "FREE" PROVE FALSE
    OBVIOUS
  <2>1. Links(i) <= 0 /\ Links(i) \in Nat
    BY <1>0, LinkCounts DEF DiskOK, FreeInode
  <2>2. Links(i) = 0
    BY <2>1
  <2> QED BY <1>1, <2>2, LinkCounts
<1> QED BY <1>0, <1>1 DEF LinksAgree, DiskOK

\* What the invariant says of the assertions.
LEMMA InvFinds == IInv => LockFindsType
<1> SUFFICES ASSUME IInv PROVE LockFindsType
  OBVIOUS
<1>0. Typed /\ Live
  BY DEF IInv
<1>1. ASSUME NEW p \in Procs, ToLock(p) # NoSlot PROVE ~NoType(ToLock(p))
  <2>1. PICK s : s = ToLock(p)
    OBVIOUS
  <2>2. s = ip[p] \/ s = dp[p]
    BY <1>1, <2>1 DEF ToLock
  <2>3. s \in Slots /\ Has(p, s)
    BY <1>0, <1>1, <2>1, <2>2 DEF Typed, Has
  <2> QED BY <1>0, <2>1, <2>3 DEF Live, NoType
<1> QED BY <1>1 DEF LockFindsType

LEMMA InvErase ==
    ASSUME IInv, NEW p \in Procs, Ready(p, "erase"), lock[ip[p]] = Nobody
    PROVE  Filled(ip[p]).nlink >= 1
<1>0. Typed /\ CallAt(p) /\ Knows(p) /\ Once /\ DiskOK /\ Live
  BY DEF IInv, CallsOK, Known
<1>1. PICK s, t, n : s = ip[p] /\ t = dp[p] /\ n = Name(p)
  OBVIOUS
<1>2. puts[p] = <<>> /\ pc[p] = "erase"
  BY DEF Ready
<1>3. s \in Slots /\ Held(s) /\ Has(p, s) /\ t \in Slots /\ Held(t)
  BY <1>1, <1>2, ReadyFacts DEF WithIp, WithDp
<1>4. PICK d \in Inums, j \in Inums : d = inode[t].inum /\ j = inode[s].inum
  BY <1>0, <1>3 DEF Once
<1>5. n \in Names \ {DotDot} /\ dinode[d].type = "DIR" /\ dinode[d].entries[n] = j
  <2>1. Len(path[p]) = 1 /\ n # DotDot
    BY <1>0, <1>1, <1>2 DEF CallAt, Named
  <2>2. PICK u \in Seq(Names) : u = path[p] /\ Len(u) = 1
    BY <1>0, <2>1 DEF Typed
  <2>3. u[1] \in Names
    BY <2>2
  <2>4. Disk(t).type = "DIR"
    BY <1>0, <1>1, <1>2 DEF Knows, KnowsKinds, WithDp
  <2>5. Disk(t).entries[n] = j
    BY <1>0, <1>1, <1>2, <1>4 DEF Knows, KnowsEntry, Entry
  <2> QED BY <1>1, <1>4, <2>1, <2>2, <2>3, <2>4, <2>5 DEF Name, Disk
<1>6. NamesOf(j) # {}
  <2>1. PICK e : e = <<d, n>>
    OBVIOUS
  <2>2. e \in Inums \X (Names \ {DotDot}) /\ e[1] = d /\ e[2] = n
    BY <1>5, <2>1
  <2>3. dinode[e[1]].type = "DIR" /\ dinode[e[1]].entries[e[2]] = j
    BY <1>5, <2>2
  <2>4. e \in NamesOf(j)
    BY <2>2, <2>3 DEF NamesOf
  <2> QED BY <2>4
<1>7. dinode[j].nlink >= 1
  <2>1. PICK c \in Nat : c = dinode[j].nlink /\ Links(j) <= c
    BY <1>0 DEF DiskOK, Typed, Dinodes
  <2>2. Links(j) # 0 /\ Links(j) \in Nat
    BY <1>6, LinkCounts
  <2> QED BY <2>1, <2>2
<1>8. MayLock(s)
  BY <1>0, <1>1, <1>3 DEF MayLock, NoType, Live
<1>9. Filled(s).nlink = Disk(s).nlink
  BY <1>3, <1>8, ReadFacts
<1> QED BY <1>1, <1>4, <1>7, <1>9 DEF Disk

\* Whoever has the lock of an inode has a pointer to it.
LEMMA InvIput ==
    ASSUME IInv, NEW p \in Procs, puts[p] # <<>>, freeing[p] = "no", LastPut(Head(puts[p]))
    PROVE  lock[Head(puts[p])] = Nobody
<1>0. Typed /\ CallsOK /\ Counted /\ LocksOK /\ CallAt(p)
  BY DEF IInv, CallsOK
<1>1. PICK s \in Slots : s = Head(puts[p]) /\ s = puts[p][1] /\ Has(p, s) /\ Len(puts[p]) >= 1
  BY PutFacts
<1>2. inode[s].ref = 1
  BY <1>1 DEF LastPut
<1>3. ASSUME NEW q \in Procs, Locks(q, s) PROVE FALSE
  <2>1. Own(q, s) > 0 /\ Own(q, s) \in Nat
    <3>1. Has(q, s) \/ (freeing[q] \in {"unlock", "drop"} /\ puts[q][1] = s)
      BY <1>0, <1>3, OwnHas DEF Locks, Has
    <3> QED BY <1>0, <3>1, OwnHas
  <2>2. Own(p, s) > 0 /\ Own(p, s) \in Nat
    BY <1>0, <1>1, OwnHas
  <2>3. CASE q # p
    <3>1. Covers(inode[s].ref, Own(p, s), Own(q, s))
      BY <1>0, <2>3, HasHeld
    <3> QED BY <1>2, <2>1, <2>2, <3>1 DEF Covers
  <2>4. CASE q = p
    <3>1. dp[p] = s \/ ip[p] = s
      BY <1>3, <2>4 DEF Locks
    <3>2. Covers(inode[s].ref, Own(p, s), 0)
      BY <1>0, HasHeld
    <3>3. Firsts(puts)[p] = s
      BY <1>1 DEF Firsts
    <3>4. PICK a, b, c, d, e : /\ a = Is(cwd[p], s) /\ b = Is(file[p], s) /\ c = Is(ip[p], s)
                               /\ d = Is(dp[p], s) /\ e = Is(Seconds(puts)[p], s)
      OBVIOUS
    <3>5. a \in {0, 1} /\ b \in {0, 1} /\ c \in {0, 1} /\ d \in {0, 1} /\ e \in {0, 1}
      BY <3>4 DEF Is
    <3>6. c = 1 \/ d = 1
      BY <3>1, <3>4 DEF Is
    <3>7. Own(p, s) = a + b + c + d + (1 + e)
      BY <3>3, <3>4 DEF Own, Share, Is
    <3>8. Own(p, s) >= 2
      BY <3>5, <3>6, <3>7
    <3> QED BY <1>2, <3>2, <3>8 DEF Covers
  <2> QED BY <2>3, <2>4
<1>4. lock[s] \in Procs \cup {Nobody}
  BY <1>0 DEF Typed
<1> QED BY <1>0, <1>1, <1>3, <1>4 DEF LocksOK

LEMMA InvAssertions == IInv => AssertionsHold
<1> SUFFICES ASSUME IInv PROVE AssertionsHold
  OBVIOUS
<1>1. LockFindsType
  BY InvFinds
<1>2. ASSUME NEW p \in Procs
      PROVE  /\ Ready(p, "erase") /\ lock[ip[p]] = Nobody => Filled(ip[p]).nlink >= 1
             /\ puts[p] # <<>> /\ freeing[p] = "no" /\ LastPut(Head(puts[p])) =>
                   lock[Head(puts[p])] = Nobody
  BY InvErase, InvIput
<1> QED BY <1>1, <1>2 DEF AssertionsHold

\* The inductive invariant holds in every state of a workload without "..".
THEOREM InodesInvariant ==
    ASSUME NoDotDot
    PROVE  Spec => []IInv
BY InitInv, NextInv, PTL DEF Spec

\* The table of inodes agrees with the references and with the disk (fs.c:129-148), for any
\* number of processes and inodes: also while iput frees an inode and others look it up.
THEOREM TableIsRight ==
    ASSUME NoDotDot
    PROVE  Spec => []TableAgrees
BY InodesInvariant, InvTable, PTL

\* A name never leads to a free inode, and an inode has a link for every name, and for those
\* that link and unlink have in hand, through create, link, unlink and their error paths, in
\* any order and with crashes between them.
THEOREM LinksAreRight ==
    ASSUME NoDotDot
    PROVE  Spec => []LinksAgree
BY InodesInvariant, InvLinks, PTL

\* The assertions of the inode layer hold, with a table of any size: ilock finds a type
\* (fs.c:315), unlink a link (sysfile.c:215), and iput a free lock (fs.c:345).
THEOREM InodeAssertions ==
    ASSUME NoDotDot
    PROVE  Spec => []AssertionsHold
BY InodesInvariant, InvAssertions, PTL
=============================================================================
