------------------------- MODULE BufferCacheProofs ---------------------------
(***************************************************************************)
(* Proofs about BufferCache and the disk driver under it, for every set of *)
(* processes, buffers and blocks, every size of the descriptor table and   *)
(* every workload: the cache and the descriptors stay consistent, and the  *)
(* cache implements BlockCache.                                            *)
(***************************************************************************)
EXTENDS BufferCache, FiniteSetTheorems, SequenceTheorems, TLAPS

\* A process that waits for the device in virtio_disk_rw, and one that has the sleep-lock
\* of the buffer of its call.
InDriver(p) == pc[p] \in {"reading", "writing"}
HasLock(p) == pc[p] \in {"read", "reading", "write", "writing"}

\* The buffers that a process has a reference to.
Mine(p) == held[p] \cup (IF pc[p] = "user" THEN {} ELSE {cur[p]})

\* The workload, and the list of buffers.
LoadFits ==
    /\ load \in [num : 3..MaxDesc, bufs : SUBSET Buffers, blocks : SUBSET Blocks,
                 pins : Nat, calls : [Procs -> Nat], kills : Nat]
    /\ Cardinality(load.bufs) >=
          load.pins + MaxHeld * Cardinality({p \in Procs : load.calls[p] > 0})

\* A block has one buffer; only the buffers of the workload have blocks.
OneBuffer ==
    /\ \A b, c \in Buffers : blockno[b] = blockno[c] /\ blockno[b] # NoBlock => b = c
    /\ \A b \in Buffers : blockno[b] # NoBlock => b \in load.bufs
    /\ \A b \in valid \cup pinned : blockno[b] # NoBlock

\* Every reference is counted.
Counted ==
    /\ \A b \in Buffers : refcnt[b] = Cardinality(Users(b)) + (IF b \in pinned THEN 1 ELSE 0)
    /\ Cardinality(pinned) <= load.pins

\* The buffer of a call is held before bwrite and not before bread and after brelse; the
\* sleep-lock of a buffer is with the process that holds it or reads it.
Hands ==
    \A p \in Procs :
        /\ pc[p] = "user" <=> cur[p] = NoBuf
        /\ \A b \in Mine(p) : blockno[b] # NoBlock
        /\ pc[p] \in {"lock", "read", "reading", "put"} => cur[p] \notin held[p]
        /\ pc[p] \in {"write", "writing"} => cur[p] \in held[p]
        /\ pc[p] \in {"read", "reading"} => cur[p] \notin valid
        /\ held[p] \subseteq valid
        /\ \A b \in Buffers : owner[b] = p <=> b \in held[p] \/ (HasLock(p) /\ cur[p] = b)

\* A process has no more buffers than there is room for.
Room ==
    \A p \in Procs :
        /\ Cardinality(Mine(p)) <= MaxHeld
        /\ left[p] > 0 \/ Mine(p) # {} => load.calls[p] > 0

\* The request of a process in the driver says what the process asked for.
Requests ==
    \A p \in Procs :
        /\ head[p] # NoDesc <=> InDriver(p)
        /\ InDriver(p) =>
              /\ info[head[p]] = cur[p]
              /\ request[head[p]] = [write |-> pc[p] = "writing", sector |-> blockno[cur[p]]]

\* Chains of three descriptors, apart from one another and from the free ones.
Chains ==
    /\ \A p \in Procs : InDriver(p) =>
          /\ next[head[p]] # NoDesc /\ next[next[head[p]]] # NoDesc
          /\ head[p] # next[head[p]] /\ head[p] # next[next[head[p]]]
          /\ next[head[p]] # next[next[head[p]]]
          /\ Chain(head[p]) \cap free = {}
          /\ \A q \in Procs \ {p} : InDriver(q) => Chain(head[p]) \cap Chain(head[q]) = {}
    /\ Cardinality(free) + 3 * Cardinality({p \in Procs : InDriver(p)}) = load.num

\* A request is with the device or in the used ring, once, as long as its buffer is the
\* device's; a read that the device has finished has brought the block.
Rings ==
    /\ \A i \in DOMAIN used : used[i] \notin avail
    /\ \A i, j \in DOMAIN used : used[i] = used[j] => i = j
    /\ \A i \in avail \cup Range(used) : \E p \in Procs : InDriver(p) /\ head[p] = i
    /\ \A b \in disk : \E p \in Procs : InDriver(p) /\ cur[p] = b
    /\ \A p \in Procs : InDriver(p) =>
          /\ cur[p] \in disk <=> head[p] \in avail \cup Range(used)
          /\ pc[p] = "reading" /\ head[p] \notin avail => data[cur[p]] = store[blockno[cur[p]]]

IInv ==
    CacheTypeOK /\ LoadFits /\ OneBuffer /\ Counted /\ Hands /\ Room /\ Requests /\ Chains /\ Rings

-----------------------------------------------------------------------------
(* The operators of the model.                                             *)

\* A set of numbers has a least element, so alloc_desc finds its descriptor.
LEMMA FirstIsLeast ==
    ASSUME NEW S \in SUBSET Nat, S # {}
    PROVE  First(S) \in S /\ \A j \in S : First(S) <= j
<1>1. PICK x \in S : \A y \in S : ~ (<<y, x>> \in OpToRel(<, Nat))
  BY NatLessThanWellFounded, WFMin
<1>2. ASSUME NEW y \in S
      PROVE  x <= y
  <2>1. x \in Nat /\ y \in Nat
    OBVIOUS
  <2>2. ~ (<<y, x>> \in {r \in Nat \X Nat : r[1] < r[2]})
    BY <1>1 DEF OpToRel
  <2>3. QED
    BY <2>1, <2>2
<1>3. QED
  BY <1>2 DEF First

\* A set of numbers with a bound has a greatest element, the place of the buffer that bget
\* recycles.
LEMMA GreatestExists ==
    ASSUME NEW n \in Nat, NEW S \in SUBSET (1..n), S # {}
    PROVE  \E i \in S : \A j \in S : j <= i
<1> DEFINE T == {n - i : i \in S}
<1>1. T \in SUBSET Nat /\ T # {}
  <2>1. \A i \in S : n - i \in Nat
    OBVIOUS
  <2>2. QED
    BY <2>1
<1>2. First(T) \in T /\ \A j \in T : First(T) <= j
  BY <1>1, FirstIsLeast
<1>3. PICK i \in S : First(T) = n - i
  BY <1>2
<1>4. ASSUME NEW j \in S
      PROVE  j <= i
  <2>1. n - j \in T
    OBVIOUS
  <2>2. n - i <= n - j
    BY <1>2, <1>3, <2>1
  <2>3. i \in Int /\ j \in Int
    OBVIOUS
  <2>4. QED
    BY <2>2, <2>3
<1>5. QED
  BY <1>4

\* Three descriptors out of a set.
LEMMA RemoveThree ==
    ASSUME NEW S, IsFiniteSet(S), NEW i \in S, NEW j \in S, NEW k \in S, i # j, i # k, j # k
    PROVE  Cardinality(S \ {i, j, k}) = Cardinality(S) - 3
<1>1. PICK a : a = S \ {i}
  OBVIOUS
<1>2. PICK b : b = a \ {j}
  OBVIOUS
<1>3. PICK c : c = b \ {k}
  OBVIOUS
<1>4. Cardinality(S) \in Nat
  BY FS_CardinalityType
<1>5. IsFiniteSet(a) /\ Cardinality(a) = Cardinality(S) - 1
  BY <1>1, FS_RemoveElement
<1>6. IsFiniteSet(b) /\ Cardinality(b) = Cardinality(a) - 1
  <2>1. j \in a
    BY <1>1
  <2>2. QED
    BY <1>2, <1>5, <2>1, FS_RemoveElement
<1>7. Cardinality(c) = Cardinality(b) - 1
  <2>1. k \in b
    BY <1>1, <1>2
  <2>2. QED
    BY <1>3, <1>6, <2>1, FS_RemoveElement
<1>8. c = S \ {i, j, k}
  BY <1>1, <1>2, <1>3
<1>9. QED
  BY <1>4, <1>5, <1>6, <1>7, <1>8

LEMMA ThreeElements ==
    ASSUME NEW i, NEW j, NEW k, i # j, i # k, j # k
    PROVE  IsFiniteSet({i, j, k}) /\ Cardinality({i, j, k}) = 3
<1>1. IsFiniteSet({i}) /\ IsFiniteSet({i} \cup {j}) /\ IsFiniteSet(({i} \cup {j}) \cup {k})
  BY FS_Singleton, FS_AddElement
<1>2. ({i} \cup {j}) \cup {k} = {i, j, k} /\ {i, j, k} \ {i, j, k} = {}
  OBVIOUS
<1>3. Cardinality({i, j, k}) \in Nat /\ IsFiniteSet({i, j, k})
  BY <1>1, <1>2, FS_CardinalityType
<1>4. Cardinality({i, j, k} \ {i, j, k}) = Cardinality({i, j, k}) - 3
  <2>1. PICK S : S = {i, j, k}
    OBVIOUS
  <2>2. i \in S /\ j \in S /\ k \in S /\ IsFiniteSet(S)
    BY <1>3, <2>1
  <2>3. Cardinality(S \ {i, j, k}) = Cardinality(S) - 3
    BY <2>2, RemoveThree
  <2>4. QED
    BY <2>1, <2>3
<1>5. Cardinality({i, j, k} \ {i, j, k}) = 0
  BY <1>2, FS_EmptySet
<1>6. QED
  BY <1>3, <1>4, <1>5

LEMMA DescsAreFinite == Descs \subseteq Nat /\ IsFiniteSet(Descs)
BY DiskAssumption, FS_Interval DEF Descs

\* alloc3_desc takes three different descriptors.
LEMMA SubmitStep ==
    ASSUME NEW p, NEW b, NEW write, NEW sector, free \subseteq Descs, Submit(p, b, write, sector)
    PROVE  \E i, j, k \in free :
              /\ i # j /\ i # k /\ j # k
              /\ free' = free \ {i, j, k}
              /\ next' = [next EXCEPT ![i] = j, ![j] = k, ![k] = NoDesc]
              /\ request' = [request EXCEPT ![i] = [write |-> write, sector |-> sector]]
              /\ info' = [info EXCEPT ![i] = b]
              /\ avail' = avail \cup {i}
              /\ head' = [head EXCEPT ![p] = i]
<1>0. IsFiniteSet(free) /\ free \subseteq Nat /\ Cardinality(free) \in Nat /\ Cardinality(free) >= 3
  BY DescsAreFinite, FS_Subset, FS_CardinalityType DEF Submit, CanAlloc3
<1>1. PICK i : i = First(free)
  OBVIOUS
<1>2. PICK j : j = First(free \ {i})
  OBVIOUS
<1>3. PICK k : k = First(free \ {i, j})
  OBVIOUS
<1>4. i \in free
  BY <1>0, <1>1, FirstIsLeast, FS_EmptySet
<1>5. IsFiniteSet(free \ {i}) /\ Cardinality(free \ {i}) = Cardinality(free) - 1
  BY <1>0, <1>4, FS_RemoveElement
<1>6. j \in free \ {i}
  BY <1>0, <1>5, <1>2, FirstIsLeast, FS_EmptySet
<1>7. IsFiniteSet((free \ {i}) \ {j}) /\ Cardinality((free \ {i}) \ {j}) = Cardinality(free) - 2
  <2>1. /\ IsFiniteSet((free \ {i}) \ {j})
        /\ Cardinality((free \ {i}) \ {j}) = Cardinality(free \ {i}) - 1
    BY <1>5, <1>6, FS_RemoveElement
  <2>2. QED
    BY <1>0, <1>5, <2>1
<1>8. (free \ {i}) \ {j} = free \ {i, j}
  OBVIOUS
<1>9. k \in free \ {i, j}
  BY <1>0, <1>7, <1>8, <1>3, FirstIsLeast, FS_EmptySet
<1>10. QED
  BY <1>1, <1>2, <1>3, <1>4, <1>6, <1>9 DEF Submit

\* brelse moves a buffer of the list to its front and keeps the others.
LEMMA MoveToFrontKeeps ==
    ASSUME NEW n \in Nat, NEW S, lru \in [1..n -> S], Range(lru) = S, NEW b \in S
    PROVE  MoveToFront(b) \in [1..n -> S] /\ Range(MoveToFront(b)) = S
<1>1. PICK k : k = CHOOSE i \in DOMAIN lru : lru[i] = b
  OBVIOUS
<1>2. k \in 1..n /\ lru[k] = b
  BY <1>1 DEF Range
<1>3. PICK f : f = MoveToFront(b)
  OBVIOUS
<1>4. f = [i \in 1..n |-> IF i = 1 THEN b ELSE IF i <= k THEN lru[i - 1] ELSE lru[i]]
  BY <1>1, <1>3 DEF MoveToFront
<1>5. f \in [1..n -> S]
  BY <1>2, <1>4
<1>6. ASSUME NEW x \in S
      PROVE  \E i \in 1..n : f[i] = x
  <2>1. PICK i \in 1..n : lru[i] = x
    BY DEF Range
  <2>2. CASE i = k
    BY <1>2, <1>4, <2>1, <2>2
  <2>3. CASE i < k
    <3>1. i + 1 \in 1..n /\ i + 1 <= k /\ i + 1 # 1 /\ (i + 1) - 1 = i
      BY <1>2, <2>3
    <3>2. f[i + 1] = x
      BY <1>4, <2>1, <3>1
    <3>3. QED
      BY <3>1, <3>2
  <2>4. CASE i > k
    BY <1>2, <1>4, <2>1, <2>4
  <2>5. QED
    BY <1>2, <2>2, <2>3, <2>4
<1>7. QED
  BY <1>3, <1>5, <1>6 DEF Range

-----------------------------------------------------------------------------
(* The invariant.                                                          *)

LEMMA Finite ==
    /\ \A S \in SUBSET Procs : IsFiniteSet(S)
    /\ \A S \in SUBSET Buffers : IsFiniteSet(S)
BY DiskAssumption, FS_Subset

LEMMA ChannelFacts ==
    /\ Awake \in Channels /\ FreeDesc \in Channels
    /\ \A b \in Buffers : Done(b) \in Channels /\ Lock(b) \in Channels
    /\ \A c \in Channels : CacheTypeOK => Wakeup(c) \in [Procs -> Channels]
BY DEF Channels, Wakeup, CacheTypeOK, DiskTypeOK

\* A process in a call has the buffer of the call, which has a block.
LEMMA InCallFacts ==
    ASSUME IInv, NEW p \in Procs
    PROVE  /\ pc[p] # "user" => cur[p] \in Buffers /\ blockno[cur[p]] \in Blocks
           /\ \A b \in held[p] : b \in Buffers /\ blockno[b] \in Blocks
           /\ HasLock(p) => owner[cur[p]] = p
           /\ Mine(p) \in SUBSET Buffers
<1> USE DEF IInv, Hands, CacheTypeOK
<1>1. pc[p] # "user" => cur[p] \in Buffers /\ cur[p] \in Mine(p)
  BY DEF Mine
<1>2. \A b \in held[p] : b \in Buffers /\ b \in Mine(p)
  BY DEF Mine
<1>3. \A b \in Buffers : b \in Mine(p) => blockno[b] \in Blocks
  OBVIOUS
<1>4. HasLock(p) => pc[p] # "user"
  BY DEF HasLock
<1>5. HasLock(p) => owner[cur[p]] = p
  BY <1>1, <1>4
<1>6. Mine(p) \in SUBSET Buffers
  BY <1>1 DEF Mine
<1>7. QED
  BY <1>1, <1>2, <1>3, <1>5, <1>6

\* A descriptor that the device has or has given back belongs to a process in the driver.
LEMMA RequestFacts ==
    ASSUME IInv, NEW i \in avail \cup Range(used)
    PROVE  \E p \in Procs :
              /\ InDriver(p) /\ head[p] = i /\ info[i] = cur[p] /\ cur[p] \in disk
              /\ request[i] = [write |-> pc[p] = "writing", sector |-> blockno[cur[p]]]
BY DEF IInv, Rings, Requests

LEMMA UsedFacts ==
    ASSUME CacheTypeOK, used # <<>>
    PROVE  /\ Head(used) \in Range(used) /\ Head(used) = used[1] /\ 1 \in DOMAIN used
           /\ Tail(used) \in Seq(Descs)
           /\ DOMAIN Tail(used) = 1..(Len(used) - 1)
           /\ \A i \in 1..(Len(used) - 1) : Tail(used)[i] = used[i + 1]
           /\ Len(used) \in Nat \ {0} /\ DOMAIN used = 1..Len(used)
BY DEF CacheTypeOK, DiskTypeOK, Range

LEMMA InitHolds == Init => IInv
<1> SUFFICES ASSUME Init PROVE IInv
  OBVIOUS
<1>1. PICK w \in Workloads :
        /\ DiskInit(w.num)
        /\ load = w
        /\ lru = CHOOSE s \in [1..Cardinality(w.bufs) -> w.bufs] : Range(s) = w.bufs
        /\ left = w.calls
  BY DEF Init
<1>2. LoadFits
  BY <1>1, CacheAssumption DEF LoadFits
<1>3. \E s \in [1..Cardinality(w.bufs) -> w.bufs] : Range(s) = w.bufs
  <2>1. ExistsBijection(1..Cardinality(w.bufs), w.bufs)
    BY <1>1, <1>2, Finite, FS_CardinalityType DEF LoadFits
  <2>2. QED
    <3>1. PICK s \in [1..Cardinality(w.bufs) -> w.bufs] :
            \A b \in w.bufs : \E i \in 1..Cardinality(w.bufs) : s[i] = b
      BY <2>1 DEF ExistsBijection, Bijection, Surjection
    <3>2. Range(s) = w.bufs
      BY <3>1 DEF Range
    <3>3. QED
      BY <3>2
<1>4. lru \in [1..Cardinality(load.bufs) -> load.bufs] /\ Range(lru) = load.bufs
  BY <1>1, <1>3
<1>5. left \in [Procs -> Nat] /\ load.num \in 3..MaxDesc /\ load.kills \in Nat
  BY <1>1, <1>2 DEF LoadFits
<1>6. 1..load.num \subseteq Descs /\ Cardinality(1..load.num) = load.num
  <2>1. load.num \in Nat /\ load.num >= 3 /\ load.num <= MaxDesc
    BY <1>5, DiskAssumption
  <2>2. Cardinality(1..load.num) = load.num - 1 + 1
    BY <2>1, FS_Interval
  <2>3. QED
    BY <2>1, <2>2, DiskAssumption DEF Descs
<1>7. DiskTypeOK
  <2>1. free \subseteq Descs
    BY <1>1, <1>6 DEF DiskInit
  <2>2. used \in Seq(Descs)
    BY <1>1 DEF DiskInit
  <2>3. request \in [Descs -> [write : BOOLEAN, sector : Blocks \cup {NoBlock}]]
    BY <1>1 DEF DiskInit
  <2>4. chan \in [Procs -> Channels]
    BY <1>1, ChannelFacts DEF DiskInit
  <2>5. QED
    BY <1>1, <2>1, <2>2, <2>3, <2>4, DiskAssumption DEF DiskInit, DiskTypeOK
<1>8. CacheTypeOK
  BY <1>4, <1>5, <1>7 DEF Init, CacheTypeOK
<1>9. \A p \in Procs : /\ pc[p] = "user" /\ cur[p] = NoBuf /\ held[p] = {} /\ Mine(p) = {}
                       /\ head[p] = NoDesc /\ ~InDriver(p) /\ ~HasLock(p)
  BY <1>1 DEF Init, DiskInit, Mine, InDriver, HasLock
<1>10. \A b \in Buffers : Users(b) = {}
  BY <1>9, DiskAssumption DEF Users
<1>11. OneBuffer
  BY DEF Init, OneBuffer
<1>12. Counted
  <2>1. pinned = {} /\ \A b \in Buffers : refcnt[b] = 0
    BY DEF Init
  <2>2. load.pins \in Nat
    BY <1>2 DEF LoadFits
  <2>3. QED
    BY <1>10, <2>1, <2>2, FS_EmptySet DEF Counted
<1>13. Hands
  BY <1>9, CacheAssumption DEF Init, Hands
<1>14. Room
  <2>1. MaxHeld \in Nat
    BY CacheAssumption
  <2>2. left = load.calls
    BY <1>1
  <2>3. QED
    BY <1>9, <2>1, <2>2, FS_EmptySet DEF Room
<1>15. Requests
  BY <1>9 DEF Requests
<1>16. Chains
  <2>1. {p \in Procs : InDriver(p)} = {}
    BY <1>9
  <2>2. Cardinality(free) = load.num
    BY <1>1, <1>6 DEF DiskInit
  <2>3. QED
    <3>1. load.num \in Nat
      BY <1>5, DiskAssumption
    <3>2. Cardinality(free) + 3 * Cardinality({p \in Procs : InDriver(p)}) = load.num
      BY <2>1, <2>2, <3>1, FS_EmptySet
    <3>3. QED
      BY <1>9, <3>2 DEF Chains
<1>17. Rings
  BY <1>1, <1>9 DEF DiskInit, Rings, Range
<1>18. QED
  BY <1>2, <1>8, <1>11, <1>12, <1>13, <1>14, <1>15, <1>16, <1>17 DEF IInv

LEMMA LoadStep ==
    ASSUME IInv, [Next]_vars
    PROVE  /\ LoadFits'
           /\ load'.num = load.num /\ load'.bufs = load.bufs /\ load'.blocks = load.blocks
           /\ load'.pins = load.pins /\ load'.calls = load.calls /\ load'.kills \in Nat
<1>1. CASE UNCHANGED load
  BY <1>1 DEF IInv, LoadFits
<1>2. CASE \E p \in Procs : CountedKill(p)
  <2>1. load.kills > 0 /\ load' = [load EXCEPT !.kills = @ - 1]
    BY <1>2 DEF CountedKill
  <2>2. QED
    BY <2>1 DEF IInv, LoadFits
<1>3. QED
  BY <1>1, <1>2 DEF Next, vars, User, InCall, BgetHit, BgetRecycle, Enter, AcquireSleep, StartIO,
                    AwaitIO, EndIO, Modify, Bwrite, Bpin, Bunpin, BrelseUnlock, BrelsePut

\* The references of a buffer: one for each process that uses it.
LEMMA UsersFacts ==
    ASSUME IInv, NEW b \in Buffers
    PROVE  /\ Cardinality(Users(b)) \in Nat /\ IsFiniteSet(Users(b))
           /\ \A p \in Procs : p \in Users(b) <=> b \in Mine(p)
           /\ refcnt[b] = 0 <=> Users(b) = {} /\ b \notin pinned
           /\ Users(b) # {} => Cardinality(Users(b)) >= 1
<1>1. IsFiniteSet(Users(b)) /\ Cardinality(Users(b)) \in Nat
  BY Finite, FS_CardinalityType DEF Users
<1>2. Cardinality(Users(b)) = 0 <=> Users(b) = {}
  BY <1>1, FS_EmptySet
<1>3. \A p \in Procs : p \in Users(b) <=> b \in Mine(p)
  BY DiskAssumption DEF Users, Mine, IInv, Hands
<1>4. refcnt[b] = Cardinality(Users(b)) + (IF b \in pinned THEN 1 ELSE 0)
  BY DEF IInv, Counted
<1>5. QED
  BY <1>1, <1>2, <1>3, <1>4

-----------------------------------------------------------------------------
(* What the steps inside a call do, with the block, the buffer and the     *)
(* descriptors of the call named.                                          *)

Recycles(p, n, b) ==
    /\ MayRead(p, n) /\ ~Cached(n)
    /\ b \in load.bufs /\ Users(b) = {} /\ b \notin pinned
    /\ blockno' = [blockno EXCEPT ![b] = n]
    /\ valid' = valid \ {b}
    /\ refcnt' = [refcnt EXCEPT ![b] = 1]
    /\ Enter(p, b)

\* acquiresleep sleeps, finds the lock free and the buffer valid, or free and not valid.
Sleeps(p, b) ==
    /\ pc[p] = "lock" /\ b = cur[p]
    /\ chan' = [chan EXCEPT ![p] = Lock(b)]
    /\ UNCHANGED <<device, driver, data, head, load, lru, blockno, valid, refcnt, pinned, left>>
    /\ UNCHANGED <<owner, pc, cur, held>>

Gets(p, b) ==
    /\ pc[p] = "lock" /\ b = cur[p] /\ owner[b] = Nobody /\ b \in valid
    /\ owner' = [owner EXCEPT ![b] = p]
    /\ pc' = [pc EXCEPT ![p] = "user"]
    /\ cur' = [cur EXCEPT ![p] = NoBuf]
    /\ held' = [held EXCEPT ![p] = held[p] \cup {b}]
    /\ UNCHANGED <<device, driver, data, head, load, lru, blockno, valid, refcnt, pinned, left>>
    /\ UNCHANGED chan

Misses(p, b) ==
    /\ pc[p] = "lock" /\ b = cur[p] /\ owner[b] = Nobody /\ b \notin valid
    /\ owner' = [owner EXCEPT ![b] = p]
    /\ pc' = [pc EXCEPT ![p] = "read"]
    /\ UNCHANGED <<device, driver, data, head, load, lru, blockno, valid, refcnt, pinned, left>>
    /\ UNCHANGED <<cur, held, chan>>

\* virtio_disk_rw to its sleep, for bread or bwrite.
Starts(p, b, n, i, j, k) ==
    /\ b = cur[p] /\ n = blockno[b]
    /\ i # j /\ i # k /\ j # k
    /\ free' = free \ {i, j, k}
    /\ next' = [next EXCEPT ![i] = j, ![j] = k, ![k] = NoDesc]
    /\ request' = [request EXCEPT ![i] = [write |-> pc[p] = "write", sector |-> n]]
    /\ info' = [info EXCEPT ![i] = b]
    /\ avail' = avail \cup {i}
    /\ disk' = disk \cup {b}
    /\ head' = [head EXCEPT ![p] = i]
    /\ chan' = [chan EXCEPT ![p] = Done(b)]
    /\ UNCHANGED <<store, used, irq, intr, data, load, cache, cur, held, left>>
    /\ \/ pc[p] = "read" /\ pc' = [pc EXCEPT ![p] = "reading"]
       \/ pc[p] = "write" /\ pc' = [pc EXCEPT ![p] = "writing"]

\* The end of virtio_disk_rw.
Ends(p, b, i) ==
    /\ InDriver(p) /\ b = cur[p] /\ i = head[p] /\ b \notin disk
    /\ Chain(i) \subseteq Descs
    /\ info' = [info EXCEPT ![i] = NoBuf]
    /\ free' = free \cup Chain(i)
    /\ next' = [d \in Descs |-> IF d \in Chain(i) THEN NoDesc ELSE next[d]]
    /\ chan' = Wakeup(FreeDesc)
    /\ head' = [head EXCEPT ![p] = NoDesc]
    /\ valid' = valid \cup {b}
    /\ pc' = [pc EXCEPT ![p] = "user"]
    /\ cur' = [cur EXCEPT ![p] = NoBuf]
    /\ held' = [held EXCEPT ![p] = held[p] \cup {b}]
    /\ UNCHANGED <<device, request, intr, disk, data>>
    /\ UNCHANGED <<load, lru, blockno, refcnt, owner, pinned, left>>

\* The device serves the request of a process, and the handler takes it from the ring.
Serves(p, b, n, i) ==
    /\ InDriver(p) /\ b = cur[p] /\ i = head[p] /\ n = blockno[b] /\ b \in disk
    /\ i \in avail
    /\ \/ /\ pc[p] = "writing"
          /\ store' = [store EXCEPT ![n] = data[b]] /\ UNCHANGED data
       \/ /\ pc[p] = "reading"
          /\ data' = [data EXCEPT ![b] = store[n]] /\ UNCHANGED store
    /\ avail' = avail \ {i}
    /\ used' = Append(used, i)
    /\ irq' = TRUE
    /\ UNCHANGED <<driver, chan, head>>

Takes(p, b) ==
    /\ InDriver(p) /\ b = cur[p] /\ used # <<>> /\ head[p] = used[1] /\ b \in disk
    /\ disk' = disk \ {b}
    /\ chan' = Wakeup(Done(b))
    /\ used' = Tail(used)
    /\ UNCHANGED <<store, avail, irq, free, next, info, request, intr, data, head>>

LEMMA RecycleStep ==
    ASSUME IInv, NEW p \in Procs, NEW n \in Blocks, BgetRecycle(p, n)
    PROVE  \E b \in Buffers : Recycles(p, n, b)
<1>1. PICK k : k = CHOOSE i \in Unused : \A j \in Unused : j <= i
  OBVIOUS
<1>2. lru \in [1..Cardinality(load.bufs) -> load.bufs] /\ load.bufs \subseteq Buffers
  BY DEF IInv, CacheTypeOK, LoadFits
<1>3. Cardinality(load.bufs) \in Nat
  BY <1>2, Finite, FS_CardinalityType
<1>4. Unused \in SUBSET (1..Cardinality(load.bufs)) /\ Unused # {}
  BY <1>2 DEF Unused, BgetRecycle
<1>5. k \in Unused
  BY <1>1, <1>3, <1>4, GreatestExists
<1>6. PICK b \in Buffers : b = lru[k] /\ b \in load.bufs /\ refcnt[b] = 0
  BY <1>2, <1>4, <1>5 DEF Unused
<1>7. Users(b) = {} /\ b \notin pinned
  BY <1>6, UsersFacts
<1>8. Recycles(p, n, b)
  BY <1>1, <1>6, <1>7 DEF BgetRecycle, Recycles
<1>9. QED
  BY <1>8

LEMMA AcquireStep ==
    ASSUME IInv, NEW p \in Procs, AcquireSleep(p)
    PROVE  \E b \in Buffers : Sleeps(p, b) \/ Gets(p, b) \/ Misses(p, b)
<1>1. PICK b \in Buffers : b = cur[p]
  BY InCallFacts DEF AcquireSleep
<1>2. Sleeps(p, b) \/ Gets(p, b) \/ Misses(p, b)
  BY <1>1 DEF AcquireSleep, Sleeps, Gets, Misses
<1>3. QED
  BY <1>2

LEMMA StartStep ==
    ASSUME IInv, NEW p \in Procs, StartIO(p)
    PROVE  \E b \in Buffers, n \in Blocks, i, j, k \in free : Starts(p, b, n, i, j, k)
<1>1. PICK b \in Buffers : b = cur[p] /\ blockno[b] \in Blocks
  BY InCallFacts DEF StartIO
<1>2. PICK n \in Blocks : n = blockno[b]
  BY <1>1
<1>3. PICK w \in BOOLEAN : w = (pc[p] = "write")
  OBVIOUS
<1>4. Submit(p, b, w, n)
  BY <1>1, <1>2, <1>3 DEF StartIO
<1>5. free \subseteq Descs
  BY DEF IInv, CacheTypeOK, DiskTypeOK
<1>6. PICK i, j, k \in free :
              /\ i # j /\ i # k /\ j # k
              /\ free' = free \ {i, j, k}
              /\ next' = [next EXCEPT ![i] = j, ![j] = k, ![k] = NoDesc]
              /\ request' = [request EXCEPT ![i] = [write |-> w, sector |-> n]]
              /\ info' = [info EXCEPT ![i] = b]
              /\ avail' = avail \cup {i}
              /\ head' = [head EXCEPT ![p] = i]
  BY <1>4, <1>5, SubmitStep
<1>7. /\ disk' = disk \cup {b}
      /\ chan' = [chan EXCEPT ![p] = Done(b)]
      /\ UNCHANGED <<store, used, irq, intr, data>>
  BY <1>4 DEF Submit
<1>8. /\ UNCHANGED <<load, cache, cur, held, left>>
      /\ \/ pc[p] = "read" /\ pc' = [pc EXCEPT ![p] = "reading"]
         \/ pc[p] = "write" /\ pc' = [pc EXCEPT ![p] = "writing"]
  BY DEF StartIO
<1>9. Starts(p, b, n, i, j, k)
  BY <1>1, <1>2, <1>3, <1>6, <1>7, <1>8 DEF Starts
<1>10. QED
  BY <1>9

LEMMA EndStep ==
    ASSUME IInv, NEW p \in Procs, EndIO(p)
    PROVE  \E b \in Buffers, i \in Descs : Ends(p, b, i)
<1>1. InDriver(p) /\ pc[p] # "user"
  BY DEF EndIO, InDriver
<1>2. PICK b \in Buffers : b = cur[p]
  BY <1>1, InCallFacts
<1>3. PICK i \in Descs : i = head[p]
  BY <1>1 DEF IInv, Requests, CacheTypeOK, DiskTypeOK
<1>4. Chain(i) \subseteq Descs
  BY DEF Chain, IInv, CacheTypeOK, DiskTypeOK
<1>5. Ends(p, b, i)
  BY <1>1, <1>2, <1>3, <1>4 DEF EndIO, Finish, Ends
<1>6. QED
  BY <1>5

LEMMA TransferStep ==
    ASSUME IInv, NEW i \in Descs, Transfer(i)
    PROVE  \E p \in Procs, b \in Buffers, n \in Blocks : Serves(p, b, n, i)
<1>1. i \in avail \cup Range(used)
  BY DEF Transfer
<1>2. PICK p \in Procs : /\ InDriver(p) /\ head[p] = i /\ info[i] = cur[p] /\ cur[p] \in disk
                         /\ request[i] = [write |-> pc[p] = "writing", sector |-> blockno[cur[p]]]
  BY <1>1, RequestFacts
<1>3. PICK b \in Buffers : b = cur[p] /\ blockno[b] \in Blocks
  BY <1>2, InCallFacts DEF InDriver
<1>4. PICK n \in Blocks : n = blockno[b]
  BY <1>3
<1>5. info[i] = b /\ request[i].sector = n /\ request[i].write = (pc[p] = "writing")
  BY <1>2, <1>3, <1>4
<1>6. Serves(p, b, n, i)
  BY <1>2, <1>3, <1>4, <1>5 DEF Transfer, InDriver, Serves
<1>7. QED
  BY <1>6

LEMMA IntrStep ==
    ASSUME IInv, IntrNext
    PROVE  \E p \in Procs, b \in Buffers : Takes(p, b)
<1>1. used # <<>> /\ CacheTypeOK
  BY DEF IntrNext, IInv
<1>2. PICK i : i = Head(used)
  OBVIOUS
<1>3. i \in avail \cup Range(used) /\ i = used[1]
  BY <1>1, <1>2, UsedFacts
<1>4. PICK p \in Procs : /\ InDriver(p) /\ head[p] = i /\ info[i] = cur[p] /\ cur[p] \in disk
  BY <1>3, RequestFacts
<1>5. PICK b \in Buffers : b = cur[p]
  BY <1>4, InCallFacts DEF InDriver
<1>6. Takes(p, b)
  BY <1>1, <1>2, <1>3, <1>4, <1>5 DEF IntrNext, Takes
<1>7. QED
  BY <1>6

-----------------------------------------------------------------------------
(* The types.                                                              *)

LEMMA TypeStep ==
    ASSUME IInv, [Next]_vars
    PROVE  CacheTypeOK'
<1> USE DEF IInv
<1>0. CacheTypeOK /\ load'.num \in 3..MaxDesc /\ load'.kills \in Nat /\ load'.bufs = load.bufs
  BY LoadStep DEF LoadFits
<1>1. ASSUME NEW p \in Procs, NEW n \in Blocks, BgetHit(p, n)
      PROVE  CacheTypeOK'
  BY <1>0, <1>1 DEF BgetHit, Enter, MayRead, CacheTypeOK, DiskTypeOK, dvars, device, driver
<1>2. ASSUME NEW p \in Procs, NEW n \in Blocks, BgetRecycle(p, n)
      PROVE  CacheTypeOK'
  <2>1. PICK b \in Buffers : Recycles(p, n, b)
    BY <1>2, RecycleStep
  <2>2. QED
    BY <1>0, <2>1 DEF Recycles, Enter, MayRead, CacheTypeOK, DiskTypeOK, dvars, device, driver
<1>3. ASSUME NEW p \in Procs, AcquireSleep(p)
      PROVE  CacheTypeOK'
  <2>1. PICK b \in Buffers : Sleeps(p, b) \/ Gets(p, b) \/ Misses(p, b)
    BY <1>3, AcquireStep
  <2>2. Lock(b) \in Channels
    BY ChannelFacts
  <2>3. DiskTypeOK'
    BY <1>0, <2>1, <2>2 DEF Sleeps, Gets, Misses, CacheTypeOK, DiskTypeOK, device, driver
  <2>4. QED
    <3>1. CASE Sleeps(p, b)
      BY <1>0, <2>3, <3>1 DEF Sleeps, CacheTypeOK
    <3>2. CASE Gets(p, b)
      BY <1>0, <2>3, <3>2 DEF Gets, CacheTypeOK
    <3>3. CASE Misses(p, b)
      BY <1>0, <2>3, <3>3 DEF Misses, CacheTypeOK
    <3>4. QED
      BY <2>1, <3>1, <3>2, <3>3
<1>4. ASSUME NEW p \in Procs, StartIO(p)
      PROVE  CacheTypeOK'
  <2>1. PICK b \in Buffers, n \in Blocks, i, j, k \in free : Starts(p, b, n, i, j, k)
    BY <1>4, StartStep
  <2>2. i \in Descs /\ j \in Descs /\ k \in Descs /\ Done(b) \in Channels
    BY <1>0, ChannelFacts DEF CacheTypeOK, DiskTypeOK
  <2>3. /\ free' \subseteq Descs /\ avail' \subseteq Descs /\ disk' \subseteq Buffers
        /\ next' \in [Descs -> Descs \cup {NoDesc}] /\ info' \in [Descs -> Buffers \cup {NoBuf}]
        /\ head' \in [Procs -> Descs \cup {NoDesc}] /\ chan' \in [Procs -> Channels]
    BY <1>0, <2>1, <2>2 DEF Starts, CacheTypeOK, DiskTypeOK
  <2>4. request' \in [Descs -> [write : BOOLEAN, sector : Blocks \cup {NoBlock}]]
    BY <1>0, <2>1, <2>2 DEF Starts, CacheTypeOK, DiskTypeOK
  <2>5. DiskTypeOK'
    BY <1>0, <2>1, <2>3, <2>4 DEF Starts, CacheTypeOK, DiskTypeOK
  <2>6. QED
    BY <1>0, <2>1, <2>5 DEF Starts, CacheTypeOK, cache
<1>5. ASSUME NEW p \in Procs, AwaitIO(p)
      PROVE  CacheTypeOK'
  <2>1. chan' \in [Procs -> Channels]
    <3>1. CASE NoDescriptors(p)
      BY <1>0, <3>1, ChannelFacts DEF NoDescriptors, CacheTypeOK, DiskTypeOK
    <3>2. CASE pc[p] \in {"reading", "writing"} /\ StillBusy(p, cur[p])
      BY <1>0, <3>2, ChannelFacts, InCallFacts DEF StillBusy, CacheTypeOK, DiskTypeOK
    <3>3. QED
      BY <1>5, <3>1, <3>2 DEF AwaitIO
  <2>2. UNCHANGED <<device, driver, data, head>>
    BY <1>5 DEF AwaitIO, NoDescriptors, StillBusy
  <2>3. QED
    BY <1>0, <1>5, <2>1, <2>2 DEF AwaitIO, CacheTypeOK, DiskTypeOK, cache, procs, device, driver
<1>6. ASSUME NEW p \in Procs, EndIO(p)
      PROVE  CacheTypeOK'
  <2>1. PICK b \in Buffers, i \in Descs : Ends(p, b, i)
    BY <1>6, EndStep
  <2>2. chan' \in [Procs -> Channels]
    BY <1>0, <2>1, ChannelFacts DEF Ends
  <2>3. DiskTypeOK'
    BY <1>0, <2>1, <2>2 DEF Ends, CacheTypeOK, DiskTypeOK, device
  <2>4. QED
    BY <1>0, <2>1, <2>3 DEF Ends, CacheTypeOK
<1>7. ASSUME NEW p \in Procs, NEW b \in Buffers,
             Modify(p, b) \/ Bwrite(p, b) \/ Bpin(p, b) \/ Bunpin(p, b) \/ BrelseUnlock(p, b)
      PROVE  CacheTypeOK'
  <2>1. CASE Modify(p, b)
    BY <1>0, <2>1 DEF Modify, CacheTypeOK, DiskTypeOK, device, driver, cache, procs
  <2>2. CASE Bwrite(p, b)
    BY <1>0, <2>2 DEF Bwrite, CacheTypeOK, DiskTypeOK, dvars, device, driver, cache
  <2>3. CASE Bpin(p, b)
    BY <1>0, <2>3 DEF Bpin, CacheTypeOK, DiskTypeOK, dvars, device, driver, procs
  <2>4. CASE Bunpin(p, b)
    <3>1. refcnt[b] \in Nat \ {0}
      BY <1>0, <2>4, UsersFacts DEF Bunpin, CacheTypeOK
    <3>2. QED
      BY <1>0, <2>4, <3>1 DEF Bunpin, CacheTypeOK, DiskTypeOK, dvars, device, driver, procs
  <2>5. CASE BrelseUnlock(p, b)
    BY <1>0, <2>5, ChannelFacts DEF BrelseUnlock, CacheTypeOK, DiskTypeOK, device, driver
  <2>6. QED
    BY <1>7, <2>1, <2>2, <2>3, <2>4, <2>5
<1>8. ASSUME NEW p \in Procs, BrelsePut(p)
      PROVE  CacheTypeOK'
  <2>1. cur[p] \in Buffers /\ cur[p] \in load.bufs /\ cur[p] \in Mine(p)
    BY <1>8, InCallFacts, DiskAssumption DEF BrelsePut, OneBuffer, Mine
  <2>2. refcnt[cur[p]] \in Nat \ {0}
    BY <1>0, <2>1, UsersFacts DEF CacheTypeOK
  <2>3. MoveToFront(cur[p]) \in [1..Cardinality(load.bufs) -> load.bufs]
        /\ Range(MoveToFront(cur[p])) = load.bufs
    <3>1. Cardinality(load.bufs) \in Nat
      BY Finite, FS_CardinalityType DEF LoadFits
    <3>2. PICK n \in Nat, S \in {load.bufs}, b \in load.bufs : n = Cardinality(load.bufs) /\ b = cur[p]
      BY <2>1, <3>1
    <3>3. lru \in [1..n -> S] /\ Range(lru) = S
      BY <1>0, <3>2 DEF CacheTypeOK
    <3>4. QED
      BY <3>2, <3>3, MoveToFrontKeeps
  <2>4. lru' \in [1..Cardinality(load.bufs) -> load.bufs] /\ Range(lru') = load.bufs
    BY <1>0, <1>8, <2>3 DEF BrelsePut, CacheTypeOK
  <2>5. QED
    BY <1>0, <1>8, <2>1, <2>2, <2>4
       DEF BrelsePut, CacheTypeOK, DiskTypeOK, dvars, device, driver
<1>9. ASSUME NEW p \in Procs, CountedKill(p)
      PROVE  CacheTypeOK'
  BY <1>0, <1>9, ChannelFacts
     DEF CountedKill, Kill, CacheTypeOK, DiskTypeOK, device, driver, cache, procs
<1>10. ASSUME NEW i \in Descs, Transfer(i), UNCHANGED <<load, cache, procs>>
       PROVE  CacheTypeOK'
  <2>1. PICK p \in Procs, b \in Buffers, n \in Blocks : Serves(p, b, n, i)
    BY <1>10, TransferStep
  <2>3. store' \in [Blocks -> Values] /\ data' \in [Buffers -> Values]
    BY <1>0, <2>1 DEF Serves, CacheTypeOK, DiskTypeOK
  <2>4. used' \in Seq(Descs)
    BY <1>0, <1>10 DEF Transfer, CacheTypeOK, DiskTypeOK
  <2>5. QED
    BY <1>0, <1>10, <2>3, <2>4 DEF Transfer, CacheTypeOK, DiskTypeOK, driver, cache, procs
<1>11. ASSUME IntrBegin \/ IntrNext \/ IntrEnd, UNCHANGED <<load, cache, procs>>
       PROVE  CacheTypeOK'
  <2>1. CASE IntrBegin \/ IntrEnd
    BY <1>0, <1>11, <2>1
       DEF IntrBegin, IntrEnd, CacheTypeOK, DiskTypeOK, device, cache, procs
  <2>2. CASE IntrNext
    <3>0. PICK p \in Procs, b \in Buffers : Takes(p, b)
      BY <2>2, IntrStep
    <3>1. used' \in Seq(Descs)
      BY <1>0, <3>0, UsedFacts DEF Takes
    <3>2. Done(b) \in Channels
      BY ChannelFacts
    <3>3. disk' \subseteq Buffers /\ chan' \in [Procs -> Channels]
      BY <1>0, <3>0, <3>2, ChannelFacts DEF Takes, CacheTypeOK, DiskTypeOK
    <3>4. QED
      BY <1>0, <1>11, <2>2, <3>1, <3>3 DEF IntrNext, CacheTypeOK, DiskTypeOK, cache, procs
  <2>3. QED
    BY <1>11, <2>1, <2>2
<1>12. CASE UNCHANGED vars
  BY <1>0, <1>12 DEF vars, CacheTypeOK, DiskTypeOK, dvars, device, driver, cache, procs
<1>13. QED
  BY <1>1, <1>2, <1>3, <1>4, <1>5, <1>6, <1>7, <1>8, <1>9, <1>10, <1>11, <1>12
     DEF Next, User, InCall, Machine

-----------------------------------------------------------------------------
(* The buffers and who uses them.                                          *)

LEMMA OneBufferStep ==
    ASSUME IInv, [Next]_vars
    PROVE  OneBuffer'
<1> USE DEF IInv, OneBuffer
<1>0. CacheTypeOK /\ load'.bufs = load.bufs
  BY LoadStep
<1>1. CASE UNCHANGED <<blockno, valid, pinned>>
  BY <1>0, <1>1
<1>2. ASSUME NEW p \in Procs, NEW n \in Blocks, BgetRecycle(p, n)
      PROVE  OneBuffer'
  <2>1. PICK b \in Buffers : Recycles(p, n, b)
    BY <1>2, RecycleStep
  <2>2. pinned' = pinned
    BY <2>1 DEF Recycles, Enter
  <2>3. QED
    BY <1>0, <2>1, <2>2, DiskAssumption DEF Recycles, Cached, CacheTypeOK
<1>3. ASSUME NEW p \in Procs, EndIO(p)
      PROVE  OneBuffer'
  <2>1. PICK b \in Buffers, i \in Descs : Ends(p, b, i)
    BY <1>3, EndStep
  <2>2. blockno[b] # NoBlock
    BY <2>1, InCallFacts, DiskAssumption DEF Ends, InDriver
  <2>3. QED
    BY <1>0, <2>1, <2>2 DEF Ends
<1>4. ASSUME NEW p \in Procs, NEW b \in Buffers, Bpin(p, b) \/ Bunpin(p, b)
      PROVE  OneBuffer'
  <2>1. blockno[b] # NoBlock
    BY <1>4, InCallFacts, DiskAssumption DEF Bpin, Bunpin, Holds
  <2>2. QED
    BY <1>0, <1>4, <2>1 DEF Bpin, Bunpin
<1>5. ASSUME NEW p \in Procs, \/ \E n \in Blocks : BgetHit(p, n)
                              \/ AcquireSleep(p) \/ StartIO(p) \/ AwaitIO(p) \/ BrelsePut(p)
                              \/ CountedKill(p)
      PROVE  UNCHANGED <<blockno, valid, pinned>>
  BY <1>5 DEF BgetHit, Enter, AcquireSleep, StartIO, AwaitIO, BrelsePut, CountedKill, cache
<1>6. ASSUME NEW p \in Procs, NEW b \in Buffers, Modify(p, b) \/ Bwrite(p, b) \/ BrelseUnlock(p, b)
      PROVE  UNCHANGED <<blockno, valid, pinned>>
  BY <1>6 DEF Modify, Bwrite, BrelseUnlock, cache
<1>7. ASSUME (Machine /\ UNCHANGED <<load, cache, procs>>) \/ UNCHANGED vars
      PROVE  UNCHANGED <<blockno, valid, pinned>>
  BY <1>7 DEF cache, vars
<1>8. QED
  BY <1>1, <1>2, <1>3, <1>4, <1>5, <1>6, <1>7 DEF Next, User, InCall

\* A call of bget gives the process a reference to one more buffer.
LEMMA EnterUses ==
    ASSUME IInv, NEW p \in Procs, NEW n \in Blocks, NEW b \in Buffers, MayRead(p, n), Enter(p, b)
    PROVE  /\ cur[p] = NoBuf /\ Mine(p) = held[p] /\ Mine(p)' = held[p] \cup {b}
           /\ \A q \in Procs \ {p} : Mine(q)' = Mine(q)
           /\ \A c \in Buffers \ {b} : Users(c)' = Users(c)
           /\ Users(b)' = Users(b) \cup {p}
           /\ blockno[b] = n \/ Users(b) = {} => b \notin held[p] /\ p \notin Users(b)
<1> USE DEF IInv, CacheTypeOK
<1>1. pc[p] = "user" /\ cur[p] = NoBuf /\ \A c \in held[p] : blockno[c] < n /\ c \in Buffers
  BY DEF MayRead, Hands
<1>2. /\ pc' = [pc EXCEPT ![p] = "lock"] /\ cur' = [cur EXCEPT ![p] = b] /\ held' = held
  BY DEF Enter
<1>3. /\ Mine(p) = held[p] /\ Mine(p)' = held[p] \cup {b}
      /\ \A q \in Procs \ {p} : Mine(q)' = Mine(q)
  BY <1>1, <1>2 DEF Mine
<1>4. /\ \A c \in Buffers \ {b} : Users(c)' = Users(c)
      /\ Users(b)' = Users(b) \cup {p}
  BY <1>1, <1>2, DiskAssumption DEF Users
<1>5. \A c \in held[p] : blockno[c] # n
  BY <1>1, DiskAssumption
<1>6. QED
  BY <1>1, <1>3, <1>4, <1>5, DiskAssumption DEF Users

\* The calls that a process is in keep its references, except for the end of brelse.
LEMMA CallUses ==
    ASSUME IInv, NEW p \in Procs, NEW b \in Buffers, b = cur[p] \/ b \in held[p],
           \/ cur' = cur /\ held' = held /\ (pc[p] = "user" <=> pc'[p] = "user")
           \/ cur' = [cur EXCEPT ![p] = NoBuf] /\ held' = [held EXCEPT ![p] = held[p] \cup {b}]
              /\ b = cur[p] /\ pc'[p] = "user"
           \/ cur' = [cur EXCEPT ![p] = b] /\ held' = held /\ b \in held[p]
              /\ pc[p] = "user" /\ pc'[p] # "user"
           \/ cur' = [cur EXCEPT ![p] = b] /\ held' = [held EXCEPT ![p] = held[p] \ {b}]
              /\ b \in held[p] /\ pc[p] = "user" /\ pc'[p] # "user",
           \A q \in Procs \ {p} : pc'[q] = pc[q]
    PROVE  (\A q \in Procs : Mine(q)' = Mine(q)) /\ (\A c \in Buffers : Users(c)' = Users(c))
<1> USE DEF IInv, CacheTypeOK
<1>1. pc[p] = "user" <=> cur[p] = NoBuf
  BY DEF Hands
<1>2. \A q \in Procs : Mine(q)' = Mine(q)
  BY <1>1, DiskAssumption DEF Mine
<1>3. \A c \in Buffers : Users(c)' = Users(c)
  BY <1>1, DiskAssumption DEF Users
<1>4. QED
  BY <1>2, <1>3

\* One reference count changes, as the users of the buffer do.
LEMMA Recount ==
    ASSUME IInv, NEW b \in Buffers, NEW r, refcnt' = [refcnt EXCEPT ![b] = r],
           \A c \in Buffers \ {b} : Users(c)' = Users(c),
           r = Cardinality(Users(b)') + (IF b \in pinned THEN 1 ELSE 0),
           pinned' = pinned, load'.pins = load.pins
    PROVE  Counted'
<1> USE DEF IInv
<1>1. ASSUME NEW c \in Buffers
      PROVE  refcnt'[c] = Cardinality(Users(c)') + (IF c \in pinned THEN 1 ELSE 0)
  <2>1. CASE c = b
    BY <2>1 DEF CacheTypeOK
  <2>2. CASE c # b
    <3>1. Users(c)' = Users(c) /\ refcnt'[c] = refcnt[c]
      BY <2>2 DEF CacheTypeOK
    <3>2. QED
      BY <3>1 DEF Counted
  <2>3. QED
    BY <2>1, <2>2
<1>2. Cardinality(pinned') <= load'.pins
  BY DEF Counted
<1>3. QED
  BY <1>1, <1>2 DEF Counted

LEMMA CountedStep ==
    ASSUME IInv, [Next]_vars
    PROVE  Counted'
<1> USE DEF IInv
<1>0. CacheTypeOK /\ load'.pins = load.pins
  BY LoadStep
<1>1. ASSUME \A c \in Buffers : Users(c)' = Users(c), UNCHANGED <<refcnt, pinned>>
      PROVE  Counted'
  BY <1>0, <1>1 DEF Counted
<1>2. ASSUME NEW p \in Procs, NEW n \in Blocks, BgetHit(p, n)
      PROVE  Counted'
  <2>1. PICK b \in Buffers : blockno[b] = n /\ refcnt' = [refcnt EXCEPT ![b] = @ + 1] /\ Enter(p, b)
    BY <1>2 DEF BgetHit
  <2>2. /\ \A c \in Buffers \ {b} : Users(c)' = Users(c)
        /\ Users(b)' = Users(b) \cup {p} /\ p \notin Users(b)
    BY <1>2, <2>1, EnterUses DEF BgetHit
  <2>3. Cardinality(Users(b)') = Cardinality(Users(b)) + 1
    BY <2>2, UsersFacts, FS_AddElement
  <2>4. pinned' = pinned
    BY <2>1 DEF Enter
  <2>5. refcnt[b] + 1 = Cardinality(Users(b)') + (IF b \in pinned THEN 1 ELSE 0)
    BY <2>3, UsersFacts DEF Counted
  <2>6. QED
    BY <1>0, <2>1, <2>2, <2>4, <2>5, Recount
<1>3. ASSUME NEW p \in Procs, NEW n \in Blocks, BgetRecycle(p, n)
      PROVE  Counted'
  <2>1. PICK b \in Buffers : Recycles(p, n, b)
    BY <1>3, RecycleStep
  <2>2. /\ \A c \in Buffers \ {b} : Users(c)' = Users(c)
        /\ Users(b)' = {p}
    BY <2>1, EnterUses DEF Recycles
  <2>3. Cardinality(Users(b)') = 1
    BY <2>2, FS_Singleton
  <2>4. pinned' = pinned
    BY <2>1 DEF Recycles, Enter
  <2>5. 1 = Cardinality(Users(b)') + (IF b \in pinned THEN 1 ELSE 0)
    BY <2>1, <2>3 DEF Recycles
  <2>6. refcnt' = [refcnt EXCEPT ![b] = 1]
    BY <2>1 DEF Recycles
  <2>7. QED
    BY <1>0, <2>2, <2>4, <2>5, <2>6, Recount
<1>4. ASSUME NEW p \in Procs, AcquireSleep(p)
      PROVE  Counted'
  <2>1. PICK b \in Buffers : Sleeps(p, b) \/ Gets(p, b) \/ Misses(p, b)
    BY <1>4, AcquireStep
  <2>2. \A c \in Buffers : Users(c)' = Users(c)
    <3>1. CASE Sleeps(p, b)
      BY <3>1 DEF Sleeps, Users
    <3>2. CASE Gets(p, b)
      BY <1>0, <3>2, CallUses DEF Gets, CacheTypeOK
    <3>3. CASE Misses(p, b)
      BY <3>3 DEF Misses, Users
    <3>4. QED
      BY <2>1, <3>1, <3>2, <3>3
  <2>3. QED
    BY <1>1, <2>1, <2>2 DEF Sleeps, Gets, Misses
<1>5. ASSUME NEW p \in Procs, EndIO(p)
      PROVE  Counted'
  <2>1. PICK b \in Buffers, i \in Descs : Ends(p, b, i)
    BY <1>5, EndStep
  <2>2. \A c \in Buffers : Users(c)' = Users(c)
    BY <1>0, <2>1, CallUses DEF Ends, CacheTypeOK
  <2>3. QED
    BY <1>1, <2>1, <2>2 DEF Ends
<1>6. ASSUME NEW p \in Procs, NEW b \in Buffers, Bwrite(p, b) \/ BrelseUnlock(p, b)
      PROVE  Counted'
  <2>1. \A c \in Buffers : Users(c)' = Users(c)
    <3>1. CASE Bwrite(p, b)
      BY <1>0, <3>1, CallUses DEF Bwrite, Holds, CacheTypeOK
    <3>2. CASE BrelseUnlock(p, b)
      BY <1>0, <3>2, CallUses DEF BrelseUnlock, Holds, CacheTypeOK
    <3>3. QED
      BY <1>6, <3>1, <3>2
  <2>2. QED
    BY <1>1, <1>6, <2>1 DEF Bwrite, BrelseUnlock, cache
<1>7. ASSUME NEW p \in Procs, NEW b \in Buffers, Bpin(p, b) \/ Bunpin(p, b)
      PROVE  Counted'
  <2>1. \A c \in Buffers : Users(c)' = Users(c)
    BY <1>7 DEF Bpin, Bunpin, Users, procs
  <2>2. IsFiniteSet(pinned) /\ Cardinality(pinned) \in Nat /\ load.pins \in Nat
    BY <1>0, Finite, FS_CardinalityType DEF CacheTypeOK, LoadFits
  <2>3. CASE Bpin(p, b)
    <3>1. Cardinality(pinned') = Cardinality(pinned) + 1
      BY <2>2, <2>3, FS_AddElement DEF Bpin
    <3>2. QED
      BY <1>0, <2>1, <2>2, <2>3, <3>1, UsersFacts DEF Bpin, Counted, CacheTypeOK
  <2>4. CASE Bunpin(p, b)
    <3>1. Cardinality(pinned') = Cardinality(pinned) - 1
      BY <2>2, <2>4, FS_RemoveElement DEF Bunpin
    <3>2. QED
      BY <1>0, <2>1, <2>2, <2>4, <3>1, UsersFacts DEF Bunpin, Counted, CacheTypeOK
  <2>5. QED
    BY <1>7, <2>3, <2>4
<1>8. ASSUME NEW p \in Procs, BrelsePut(p)
      PROVE  Counted'
  <2>1. PICK b \in Buffers : b = cur[p]
    BY <1>8, InCallFacts DEF BrelsePut
  <2>2. /\ pc[p] = "put" /\ b \notin held[p] /\ b # NoBuf
        /\ refcnt' = [refcnt EXCEPT ![b] = @ - 1] /\ cur' = [cur EXCEPT ![p] = NoBuf]
        /\ UNCHANGED <<held, pinned>>
    BY <1>8, <2>1, DiskAssumption DEF BrelsePut, Hands
  <2>3. /\ p \in Users(b) /\ Users(b)' = Users(b) \ {p}
        /\ \A c \in Buffers \ {b} : Users(c)' = Users(c)
    BY <1>0, <2>1, <2>2, DiskAssumption DEF Users, CacheTypeOK
  <2>4. Cardinality(Users(b)') = Cardinality(Users(b)) - 1
    BY <2>3, UsersFacts, FS_RemoveElement
  <2>5. refcnt[b] - 1 = Cardinality(Users(b)') + (IF b \in pinned THEN 1 ELSE 0)
    BY <2>4, UsersFacts DEF Counted
  <2>6. QED
    BY <1>0, <2>2, <2>3, <2>5, Recount
<1>9. ASSUME NEW p \in Procs, StartIO(p) \/ AwaitIO(p) \/ CountedKill(p)
      PROVE  Counted'
  <2>1. UNCHANGED <<cur, held, refcnt, pinned>>
    BY <1>9 DEF StartIO, AwaitIO, CountedKill, cache, procs
  <2>2. QED
    BY <1>1, <2>1 DEF Users
<1>10. ASSUME NEW p \in Procs, NEW b \in Buffers, Modify(p, b)
       PROVE  Counted'
  <2>1. UNCHANGED <<cur, held, refcnt, pinned>>
    BY <1>10 DEF Modify, cache, procs
  <2>2. QED
    BY <1>1, <2>1 DEF Users
<1>11. ASSUME (Machine /\ UNCHANGED <<load, cache, procs>>) \/ UNCHANGED vars
       PROVE  Counted'
  <2>1. UNCHANGED <<cur, held, refcnt, pinned>>
    BY <1>11 DEF cache, procs, vars
  <2>2. QED
    BY <1>1, <2>1 DEF Users
<1>12. QED
  BY <1>2, <1>3, <1>4, <1>5, <1>6, <1>7, <1>8, <1>9, <1>10, <1>11 DEF Next, User, InCall

LEMMA HandsStep ==
    ASSUME IInv, [Next]_vars
    PROVE  Hands'
<1> USE DEF IInv
<1>0. CacheTypeOK
  OBVIOUS
<1>1. ASSUME NEW p \in Procs, NEW n \in Blocks, BgetHit(p, n)
      PROVE  Hands'
  <2>1. PICK b \in Buffers : blockno[b] = n /\ Enter(p, b)
    BY <1>1 DEF BgetHit
  <2>2. /\ cur[p] = NoBuf /\ pc[p] = "user" /\ b \notin held[p]
        /\ Mine(p) = held[p] /\ Mine(p)' = held[p] \cup {b}
        /\ \A q \in Procs \ {p} : Mine(q)' = Mine(q)
    BY <1>1, <2>1, EnterUses DEF BgetHit, Hands
  <2>3. UNCHANGED <<blockno, valid, owner, held>>
    BY <1>1, <2>1 DEF BgetHit, Enter
  <2>4. QED
    BY <1>0, <2>1, <2>2, <2>3, DiskAssumption DEF Enter, Hands, HasLock, CacheTypeOK
<1>2. ASSUME NEW p \in Procs, NEW n \in Blocks, BgetRecycle(p, n)
      PROVE  Hands'
  <2>1. PICK b \in Buffers : Recycles(p, n, b)
    BY <1>2, RecycleStep
  <2>2. /\ cur[p] = NoBuf /\ pc[p] = "user" /\ b \notin held[p]
        /\ Mine(p) = held[p] /\ Mine(p)' = held[p] \cup {b}
        /\ \A q \in Procs \ {p} : Mine(q)' = Mine(q)
    BY <2>1, EnterUses DEF Recycles, Hands
  <2>3. \A q \in Procs : b \notin Mine(q) /\ b \notin held[q] /\ cur[q] # b
    BY <2>1, UsersFacts DEF Recycles, Users
  <2>4. QED
    BY <1>0, <2>1, <2>2, <2>3, DiskAssumption DEF Recycles, Enter, Hands, HasLock, CacheTypeOK
<1>3. ASSUME NEW p \in Procs, AcquireSleep(p)
      PROVE  Hands'
  <2>1. PICK b \in Buffers : Sleeps(p, b) \/ Gets(p, b) \/ Misses(p, b)
    BY <1>3, AcquireStep
  <2>2. CASE Sleeps(p, b)
    BY <2>2 DEF Sleeps, Hands, HasLock, Mine
  <2>3. CASE Gets(p, b)
    <3>1. \A q \in Procs : Mine(q)' = Mine(q)
      BY <1>0, <2>3, CallUses DEF Gets, CacheTypeOK
    <3>2. QED
      BY <1>0, <2>3, <3>1, CacheAssumption, DiskAssumption DEF Gets, Hands, HasLock, CacheTypeOK
  <2>4. CASE Misses(p, b)
    <3>1. \A q \in Procs : Mine(q)' = Mine(q)
      BY <1>0, <2>4 DEF Misses, Mine, CacheTypeOK
    <3>2. QED
      BY <1>0, <2>4, <3>1, CacheAssumption DEF Misses, Hands, HasLock, CacheTypeOK
  <2>5. QED
    BY <2>1, <2>2, <2>3, <2>4
<1>4. ASSUME NEW p \in Procs, StartIO(p)
      PROVE  Hands'
  <2>1. PICK b \in Buffers, n \in Blocks, i, j, k \in free : Starts(p, b, n, i, j, k)
    BY <1>4, StartStep
  <2>2. \A q \in Procs : Mine(q)' = Mine(q)
    BY <1>0, <2>1 DEF Starts, Mine, CacheTypeOK
  <2>3. QED
    BY <1>0, <2>1, <2>2 DEF Starts, cache, Hands, HasLock, CacheTypeOK
<1>5. ASSUME NEW p \in Procs, EndIO(p)
      PROVE  Hands'
  <2>1. PICK b \in Buffers, i \in Descs : Ends(p, b, i)
    BY <1>5, EndStep
  <2>2. \A q \in Procs : Mine(q)' = Mine(q)
    BY <1>0, <2>1, CallUses DEF Ends, CacheTypeOK
  <2>3. owner[b] = p
    BY <2>1, InCallFacts DEF Ends, InDriver, HasLock
  <2>4. QED
    BY <1>0, <2>1, <2>2, <2>3, DiskAssumption DEF Ends, Hands, HasLock, InDriver, CacheTypeOK
<1>6. ASSUME NEW p \in Procs, NEW b \in Buffers, Bwrite(p, b)
      PROVE  Hands'
  <2>1. \A q \in Procs : Mine(q)' = Mine(q)
    BY <1>0, <1>6, CallUses DEF Bwrite, Holds, CacheTypeOK
  <2>2. QED
    BY <1>0, <1>6, <2>1, DiskAssumption DEF Bwrite, Holds, cache, Hands, HasLock, CacheTypeOK
<1>7. ASSUME NEW p \in Procs, NEW b \in Buffers, BrelseUnlock(p, b)
      PROVE  Hands'
  <2>1. \A q \in Procs : Mine(q)' = Mine(q)
    BY <1>0, <1>7, CallUses DEF BrelseUnlock, Holds, CacheTypeOK
  <2>2. QED
    BY <1>0, <1>7, <2>1, CacheAssumption, DiskAssumption
       DEF BrelseUnlock, Holds, Hands, HasLock, CacheTypeOK
<1>8. ASSUME NEW p \in Procs, BrelsePut(p)
      PROVE  Hands'
  <2>1. /\ \A q \in Procs \ {p} : Mine(q)' = Mine(q)
        /\ Mine(p)' \subseteq Mine(p)
    BY <1>0, <1>8 DEF BrelsePut, Mine, CacheTypeOK
  <2>2. QED
    BY <1>0, <1>8, <2>1, DiskAssumption DEF BrelsePut, Hands, HasLock, CacheTypeOK
<1>9. ASSUME UNCHANGED <<pc, cur, held, blockno, valid, owner>>
      PROVE  Hands'
  BY <1>9 DEF Hands, HasLock, Mine
<1>10. ASSUME NEW p \in Procs, AwaitIO(p) \/ CountedKill(p)
       PROVE  UNCHANGED <<pc, cur, held, blockno, valid, owner>>
  BY <1>10 DEF AwaitIO, CountedKill, cache, procs
<1>11. ASSUME NEW p \in Procs, NEW b \in Buffers, Modify(p, b) \/ Bpin(p, b) \/ Bunpin(p, b)
       PROVE  UNCHANGED <<pc, cur, held, blockno, valid, owner>>
  BY <1>11 DEF Modify, Bpin, Bunpin, cache, procs
<1>12. ASSUME (Machine /\ UNCHANGED <<load, cache, procs>>) \/ UNCHANGED vars
       PROVE  UNCHANGED <<pc, cur, held, blockno, valid, owner>>
  BY <1>12 DEF cache, procs, vars
<1>13. QED
  BY <1>1, <1>2, <1>3, <1>4, <1>5, <1>6, <1>7, <1>8, <1>9, <1>10, <1>11, <1>12
     DEF Next, User, InCall

LEMMA RoomStep ==
    ASSUME IInv, [Next]_vars
    PROVE  Room'
<1> USE DEF IInv
<1>0. /\ CacheTypeOK /\ load'.calls = load.calls /\ load.calls \in [Procs -> Nat]
      /\ MaxHeld \in Nat
      /\ \A q \in Procs : Mine(q) \in SUBSET Buffers
  BY LoadStep, InCallFacts, CacheAssumption DEF LoadFits
<1>1. ASSUME \A q \in Procs : Mine(q)' \subseteq Mine(q) /\ left'[q] <= left[q] /\ left'[q] \in Nat
      PROVE  Room'
  <2>1. ASSUME NEW q \in Procs
        PROVE  Cardinality(Mine(q)') <= MaxHeld
    <3>1. IsFiniteSet(Mine(q)) /\ Cardinality(Mine(q)) \in Nat
      BY <1>0, Finite, FS_CardinalityType
    <3>2. Cardinality(Mine(q)') <= Cardinality(Mine(q)) /\ Cardinality(Mine(q)') \in Nat
      BY <1>1, <3>1, FS_Subset, FS_CardinalityType
    <3>3. QED
      BY <1>0, <3>1, <3>2 DEF Room
  <2>2. ASSUME NEW q \in Procs, left'[q] > 0 \/ Mine(q)' # {}
        PROVE  load'.calls[q] > 0
    <3>1. left[q] > 0 \/ Mine(q) # {}
      BY <1>0, <1>1, <2>2 DEF CacheTypeOK
    <3>2. QED
      BY <1>0, <3>1 DEF Room
  <2>3. QED
    BY <2>1, <2>2 DEF Room
<1>2. ASSUME NEW p \in Procs, NEW n \in Blocks, NEW b \in Buffers, MayRead(p, n), Enter(p, b)
      PROVE  Room'
  <2>1. /\ Mine(p)' = held[p] \cup {b} /\ \A q \in Procs \ {p} : Mine(q)' = Mine(q)
        /\ held[p] \in SUBSET Buffers
    BY <1>0, <1>2, EnterUses DEF CacheTypeOK
  <2>2. Cardinality(Mine(p)') <= MaxHeld
    <3>1. IsFiniteSet(held[p]) /\ Cardinality(held[p]) \in Nat
      BY <2>1, Finite, FS_CardinalityType
    <3>2. Cardinality(held[p] \cup {b}) \in {Cardinality(held[p]), Cardinality(held[p]) + 1}
      BY <3>1, FS_AddElement
    <3>3. Cardinality(held[p]) < MaxHeld
      BY <1>2 DEF MayRead
    <3>4. QED
      BY <1>0, <2>1, <3>1, <3>2, <3>3
  <2>3. left[p] > 0 /\ left' = [left EXCEPT ![p] = @ - 1]
    BY <1>2 DEF MayRead, Enter
  <2>4. load'.calls[p] > 0
    BY <1>0, <2>3 DEF Room
  <2>5. QED
    BY <1>0, <2>1, <2>2, <2>3, <2>4 DEF Room, CacheTypeOK
<1>3. ASSUME NEW p \in Procs, NEW n \in Blocks, BgetHit(p, n)
      PROVE  Room'
  BY <1>2, <1>3 DEF BgetHit
<1>4. ASSUME NEW p \in Procs, NEW n \in Blocks, BgetRecycle(p, n)
      PROVE  Room'
  BY <1>2, <1>4, RecycleStep DEF Recycles
<1>5. ASSUME NEW p \in Procs, AcquireSleep(p)
      PROVE  Room'
  <2>1. PICK b \in Buffers : Sleeps(p, b) \/ Gets(p, b) \/ Misses(p, b)
    BY <1>5, AcquireStep
  <2>2. left' = left
    BY <2>1 DEF Sleeps, Gets, Misses
  <2>3. \A q \in Procs : Mine(q)' = Mine(q)
    <3>1. CASE Sleeps(p, b)
      BY <3>1 DEF Sleeps, Mine
    <3>2. CASE Gets(p, b)
      BY <1>0, <3>2, CallUses DEF Gets, CacheTypeOK
    <3>3. CASE Misses(p, b)
      BY <1>0, <3>3 DEF Misses, Mine, CacheTypeOK
    <3>4. QED
      BY <2>1, <3>1, <3>2, <3>3
  <2>4. QED
    BY <1>0, <1>1, <2>2, <2>3 DEF CacheTypeOK
<1>6. ASSUME NEW p \in Procs, StartIO(p)
      PROVE  Room'
  <2>1. PICK b \in Buffers, n \in Blocks, i, j, k \in free : Starts(p, b, n, i, j, k)
    BY <1>6, StartStep
  <2>2. left' = left /\ \A q \in Procs : Mine(q)' = Mine(q)
    BY <1>0, <2>1 DEF Starts, Mine, CacheTypeOK
  <2>3. QED
    BY <1>0, <1>1, <2>2 DEF CacheTypeOK
<1>7. ASSUME NEW p \in Procs, EndIO(p)
      PROVE  Room'
  <2>1. PICK b \in Buffers, i \in Descs : Ends(p, b, i)
    BY <1>7, EndStep
  <2>2. \A q \in Procs : Mine(q)' = Mine(q)
    BY <1>0, <2>1, CallUses DEF Ends, CacheTypeOK
  <2>3. left' = left
    BY <2>1 DEF Ends
  <2>4. QED
    BY <1>0, <1>1, <2>2, <2>3 DEF CacheTypeOK
<1>8. ASSUME NEW p \in Procs, NEW b \in Buffers, Bwrite(p, b) \/ BrelseUnlock(p, b)
      PROVE  Room'
  <2>1. \A q \in Procs : Mine(q)' = Mine(q)
    <3>1. CASE Bwrite(p, b)
      BY <1>0, <3>1, CallUses DEF Bwrite, Holds, CacheTypeOK
    <3>2. CASE BrelseUnlock(p, b)
      BY <1>0, <3>2, CallUses DEF BrelseUnlock, Holds, CacheTypeOK
    <3>3. QED
      BY <1>8, <3>1, <3>2
  <2>2. left' = left \/ (left[p] > 0 /\ left' = [left EXCEPT ![p] = @ - 1])
    BY <1>8 DEF Bwrite, BrelseUnlock
  <2>3. \A q \in Procs : left'[q] <= left[q] /\ left'[q] \in Nat
    BY <1>0, <2>2 DEF CacheTypeOK
  <2>4. QED
    BY <1>1, <2>1, <2>3
<1>9. ASSUME NEW p \in Procs, BrelsePut(p)
      PROVE  Room'
  <2>1. left' = left /\ \A q \in Procs : Mine(q)' \subseteq Mine(q)
    BY <1>0, <1>9 DEF BrelsePut, Mine, CacheTypeOK
  <2>2. QED
    BY <1>0, <1>1, <2>1 DEF CacheTypeOK
<1>10. ASSUME UNCHANGED procs
       PROVE  Room'
  <2>1. left' = left /\ \A q \in Procs : Mine(q)' = Mine(q)
    BY <1>10 DEF procs, Mine
  <2>2. QED
    BY <1>0, <1>1, <2>1 DEF CacheTypeOK
<1>11. ASSUME NEW p \in Procs, AwaitIO(p) \/ CountedKill(p)
       PROVE  UNCHANGED procs
  BY <1>11 DEF AwaitIO, CountedKill
<1>12. ASSUME NEW p \in Procs, NEW b \in Buffers, Modify(p, b) \/ Bpin(p, b) \/ Bunpin(p, b)
       PROVE  UNCHANGED procs
  BY <1>12 DEF Modify, Bpin, Bunpin
<1>13. ASSUME (Machine /\ UNCHANGED <<load, cache, procs>>) \/ UNCHANGED vars
       PROVE  UNCHANGED procs
  BY <1>13 DEF vars
<1>14. QED
  BY <1>3, <1>4, <1>5, <1>6, <1>7, <1>8, <1>9, <1>10, <1>11, <1>12, <1>13
     DEF Next, User, InCall

-----------------------------------------------------------------------------
(* The driver.                                                             *)

\* A step that leaves the requests as they are.
Still ==
    /\ UNCHANGED <<store, avail, used, free, next, info, request, disk, head>>
    /\ \A q \in Procs :
          /\ InDriver(q)' <=> InDriver(q)
          /\ InDriver(q) => /\ pc'[q] = pc[q] /\ cur'[q] = cur[q]
                            /\ blockno'[cur[q]] = blockno[cur[q]]
                            /\ pc[q] = "reading" => data'[cur[q]] = data[cur[q]]

\* The cache, the sleep-locks and the users of buffers do not touch a request.
LEMMA StillSteps ==
    ASSUME IInv, [Next]_vars
    PROVE  \/ Still
           \/ \E p \in Procs : StartIO(p) \/ EndIO(p)
           \/ \E i \in Descs : Transfer(i) /\ UNCHANGED <<load, cache, procs>>
           \/ IntrNext /\ UNCHANGED <<load, cache, procs>>
<1> USE DEF IInv
<1>0. CacheTypeOK
  OBVIOUS
<1>1. ASSUME NEW p \in Procs, NEW n \in Blocks, BgetHit(p, n)
      PROVE  Still
  <2>1. PICK b \in Buffers : Enter(p, b)
    BY <1>1 DEF BgetHit
  <2>2. QED
    BY <1>0, <1>1, <2>1
       DEF BgetHit, MayRead, Enter, Still, InDriver, dvars, device, driver, CacheTypeOK
<1>2. ASSUME NEW p \in Procs, NEW n \in Blocks, BgetRecycle(p, n)
      PROVE  Still
  <2>1. PICK b \in Buffers : Recycles(p, n, b)
    BY <1>2, RecycleStep
  <2>2. \A q \in Procs : cur[q] # b
    BY <2>1, UsersFacts DEF Recycles, Users
  <2>3. QED
    BY <1>0, <2>1, <2>2
       DEF Recycles, MayRead, Enter, Still, InDriver, dvars, device, driver, CacheTypeOK
<1>3. ASSUME NEW p \in Procs, AcquireSleep(p)
      PROVE  Still
  <2>1. PICK b \in Buffers : Sleeps(p, b) \/ Gets(p, b) \/ Misses(p, b)
    BY <1>3, AcquireStep
  <2>2. CASE Sleeps(p, b)
    BY <1>0, <2>2 DEF Sleeps, Still, InDriver, device, driver, CacheTypeOK
  <2>3. CASE Gets(p, b)
    BY <1>0, <2>3 DEF Gets, Still, InDriver, device, driver, CacheTypeOK
  <2>4. CASE Misses(p, b)
    BY <1>0, <2>4 DEF Misses, Still, InDriver, device, driver, CacheTypeOK
  <2>5. QED
    BY <2>1, <2>2, <2>3, <2>4
<1>4. ASSUME NEW p \in Procs, AwaitIO(p)
      PROVE  Still
  BY <1>4 DEF AwaitIO, NoDescriptors, StillBusy, Still, InDriver, device, driver, cache, procs
<1>5. ASSUME NEW p \in Procs, NEW b \in Buffers, Modify(p, b)
      PROVE  Still
  <2>1. \A q \in Procs : InDriver(q) => cur[q] # b
    BY <1>5, InCallFacts DEF Modify, Holds, Hands, HasLock, InDriver
  <2>2. QED
    BY <1>0, <1>5, <2>1
       DEF Modify, Still, InDriver, device, driver, cache, procs, CacheTypeOK, DiskTypeOK
<1>6. ASSUME NEW p \in Procs, NEW b \in Buffers,
             Bwrite(p, b) \/ Bpin(p, b) \/ Bunpin(p, b) \/ BrelseUnlock(p, b)
      PROVE  Still
  <2>1. CASE Bwrite(p, b)
    BY <1>0, <2>1
       DEF Bwrite, Holds, Still, InDriver, dvars, device, driver, cache, CacheTypeOK
  <2>2. CASE Bpin(p, b) \/ Bunpin(p, b)
    BY <1>0, <2>2 DEF Bpin, Bunpin, Still, InDriver, dvars, device, driver, procs
  <2>3. CASE BrelseUnlock(p, b)
    BY <1>0, <2>3 DEF BrelseUnlock, Holds, Still, InDriver, device, driver, CacheTypeOK
  <2>4. QED
    BY <1>6, <2>1, <2>2, <2>3
<1>7. ASSUME NEW p \in Procs, BrelsePut(p)
      PROVE  Still
  BY <1>0, <1>7 DEF BrelsePut, Still, InDriver, dvars, device, driver, CacheTypeOK
<1>8. ASSUME NEW p \in Procs, CountedKill(p)
      PROVE  Still
  BY <1>8 DEF CountedKill, Kill, Still, InDriver, device, driver, cache, procs
<1>9. ASSUME IntrBegin \/ IntrEnd, UNCHANGED <<load, cache, procs>>
      PROVE  Still
  BY <1>9 DEF IntrBegin, IntrEnd, Still, InDriver, device, cache, procs
<1>10. CASE UNCHANGED vars
  BY <1>10 DEF Still, InDriver, vars, dvars, device, driver, cache, procs
<1>11. QED
  BY <1>1, <1>2, <1>3, <1>4, <1>5, <1>6, <1>7, <1>8, <1>9, <1>10
     DEF Next, User, InCall, Machine

LEMMA StillDriver ==
    ASSUME IInv, [Next]_vars, Still
    PROVE  Requests' /\ Chains' /\ Rings'
<1> USE DEF IInv
<1>1. Requests'
  <2>1. ASSUME NEW p \in Procs
        PROVE  head'[p] # NoDesc <=> InDriver(p)'
    BY <2>1 DEF Still, Requests
  <2>2. ASSUME NEW p \in Procs, InDriver(p)'
        PROVE  /\ info'[head'[p]] = cur'[p]
               /\ request'[head'[p]] = [write |-> pc'[p] = "writing", sector |-> blockno'[cur'[p]]]
    BY <2>2 DEF Still, Requests
  <2>3. QED
    BY <2>1, <2>2 DEF Requests
<1>2. Chains'
  <2>1. {p \in Procs : InDriver(p)}' = {p \in Procs : InDriver(p)}
    BY DEF Still
  <2>2. \A i : Chain(i)' = Chain(i)
    BY DEF Still, Chain
  <2>3. load'.num = load.num
    BY LoadStep
  <2>4. QED
    BY <2>1, <2>2, <2>3 DEF Still, Chains
<1>3. Rings'
  BY DEF Still, Rings, InDriver, Range
<1>4. QED
  BY <1>1, <1>2, <1>3

\* The chain of a request has three descriptors, and requests share nothing.
LEMMA ChainFacts ==
    ASSUME IInv, NEW p \in Procs, InDriver(p)
    PROVE  /\ head[p] \in Descs /\ next[head[p]] \in Descs /\ next[next[head[p]]] \in Descs
           /\ Chain(head[p]) = {head[p], next[head[p]], next[next[head[p]]]}
           /\ Cardinality(Chain(head[p])) = 3 /\ IsFiniteSet(Chain(head[p]))
           /\ Chain(head[p]) \cap free = {}
           /\ \A q \in Procs \ {p} : InDriver(q) =>
                 /\ head[q] # head[p] /\ cur[q] # cur[p]
                 /\ Chain(head[p]) \cap Chain(head[q]) = {}
<1> USE DEF IInv
<1>1. /\ head[p] \in Descs /\ next[head[p]] \in Descs /\ next[next[head[p]]] \in Descs
      /\ next[head[p]] # NoDesc /\ next[next[head[p]]] # NoDesc
  <2>1. next[head[p]] # NoDesc /\ next[next[head[p]]] # NoDesc /\ head[p] # NoDesc
    BY DEF Chains, Requests
  <2>2. head \in [Procs -> Descs \cup {NoDesc}] /\ next \in [Descs -> Descs \cup {NoDesc}]
    BY DEF CacheTypeOK, DiskTypeOK
  <2>3. QED
    BY <2>1, <2>2
<1>2. \A q \in Procs : InDriver(q) => Chain(head[q]) = {head[q], next[head[q]], next[next[head[q]]]}
  BY DEF Chains, Chain
<1>3. PICK i, j, k \in Descs : i = head[p] /\ j = next[head[p]] /\ k = next[next[head[p]]]
  BY <1>1
<1>4. i # j /\ i # k /\ j # k
  BY <1>3 DEF Chains
<1>5. Cardinality({i, j, k}) = 3 /\ IsFiniteSet({i, j, k})
  BY <1>4, ThreeElements
<1>6. Chain(head[p]) \cap free = {}
  BY DEF Chains
<1>7. ASSUME NEW q \in Procs \ {p}, InDriver(q)
      PROVE  head[q] # head[p] /\ cur[q] # cur[p] /\ Chain(head[p]) \cap Chain(head[q]) = {}
  <2>1. Chain(head[p]) \cap Chain(head[q]) = {}
    BY <1>7 DEF Chains
  <2>2. cur[q] # cur[p]
    BY <1>7, InCallFacts DEF InDriver, HasLock
  <2>3. QED
    BY <1>2, <1>7, <2>1, <2>2
<1>8. QED
  BY <1>1, <1>2, <1>3, <1>5, <1>6, <1>7

LEMMA DriverCount ==
    ASSUME IInv
    PROVE  /\ IsFiniteSet(free) /\ Cardinality(free) \in Nat
           /\ IsFiniteSet({q \in Procs : InDriver(q)})
           /\ Cardinality({q \in Procs : InDriver(q)}) \in Nat
<1>1. free \subseteq Descs
  BY DEF IInv, CacheTypeOK, DiskTypeOK
<1>2. QED
  BY <1>1, DescsAreFinite, Finite, FS_Subset, FS_CardinalityType

LEMMA StartDriver ==
    ASSUME IInv, [Next]_vars, NEW p \in Procs, StartIO(p)
    PROVE  Requests' /\ Chains' /\ Rings'
<1> USE DEF IInv
<1>0. CacheTypeOK /\ DiskTypeOK
  BY DEF CacheTypeOK
<1>1. PICK b \in Buffers, n \in Blocks, i, j, k \in free : Starts(p, b, n, i, j, k)
  BY StartStep
<1>2. i \in Descs /\ j \in Descs /\ k \in Descs
  BY <1>0 DEF DiskTypeOK
<1>3. /\ ~InDriver(p) /\ HasLock(p) /\ InDriver(p)' /\ pc'[p] = (IF pc[p] = "write" THEN "writing" ELSE "reading")
      /\ \A q \in Procs \ {p} : InDriver(q)' = InDriver(q) /\ pc'[q] = pc[q]
      /\ UNCHANGED <<cur, blockno, load, used, store, data>>
  BY <1>0, <1>1 DEF Starts, InDriver, HasLock, CacheTypeOK, cache
<1>4. ASSUME NEW q \in Procs \ {p}, InDriver(q)
      PROVE  /\ Chain(head[q])' = Chain(head[q]) /\ head'[q] = head[q] /\ head[q] \in Descs
             /\ next'[head[q]] = next[head[q]] /\ next'[next[head[q]]] = next[next[head[q]]]
             /\ head[q] \notin {i, j, k} /\ cur[q] # b
             /\ Chain(head[q]) \cap {i, j, k} = {}
  <2>1. /\ Chain(head[q]) = {head[q], next[head[q]], next[next[head[q]]]}
        /\ Chain(head[q]) \cap free = {}
        /\ head[q] \in Descs /\ next[head[q]] \in Descs /\ next[next[head[q]]] \in Descs
    BY <1>4, ChainFacts
  <2>2. head'[q] = head[q]
    BY <1>0, <1>1 DEF Starts, DiskTypeOK
  <2>3. \A d \in Descs \ {i, j, k} : next'[d] = next[d]
    BY <1>0, <1>1 DEF Starts, DiskTypeOK
  <2>4. /\ next'[head[q]] = next[head[q]] /\ next'[next[head[q]]] = next[next[head[q]]]
        /\ head[q] \notin {i, j, k} /\ Chain(head[q]) \cap {i, j, k} = {}
    BY <2>1, <2>3
  <2>5. Chain(head[q])' = Chain(head[q])
    BY <2>2, <2>4 DEF Chain
  <2>6. cur[q] # b
    BY <1>1, <1>3, <1>4, InCallFacts DEF InDriver, HasLock, Starts
  <2>7. QED
    BY <2>1, <2>2, <2>4, <2>5, <2>6
<1>5. /\ head'[p] = i /\ cur[p] = b /\ n = blockno[b]
      /\ next'[i] = j /\ next'[j] = k /\ i # j /\ i # k /\ j # k
  BY <1>0, <1>1, <1>2 DEF Starts, DiskTypeOK
<1>6. i # NoDesc /\ j # NoDesc /\ k # NoDesc
  BY <1>2 DEF Descs, NoDesc
<1>7. Chain(head[p])' = {i, j, k}
  BY <1>5, <1>6 DEF Chain
<1>8. Requests'
  <2>1. ASSUME NEW q \in Procs
        PROVE  head'[q] # NoDesc <=> InDriver(q)'
    <3>1. CASE q = p
      BY <1>3, <1>5, <1>6, <3>1
    <3>2. CASE q # p
      BY <1>0, <1>1, <1>3, <3>2 DEF Requests, Starts, DiskTypeOK
    <3>3. QED
      BY <3>1, <3>2
  <2>2. ASSUME NEW q \in Procs, InDriver(q)'
        PROVE  /\ info'[head'[q]] = cur'[q]
               /\ request'[head'[q]] = [write |-> pc'[q] = "writing", sector |-> blockno'[cur'[q]]]
    <3>1. CASE q = p
      <4>1. info'[i] = b /\ request'[i] = [write |-> pc[p] = "write", sector |-> n]
        BY <1>0, <1>1, <1>2 DEF Starts, DiskTypeOK
      <4>2. (pc[p] = "write") = (pc'[p] = "writing")
        BY <1>3
      <4>3. QED
        BY <1>3, <1>5, <3>1, <4>1, <4>2
    <3>2. CASE q # p
      <4>1. InDriver(q) /\ head[q] # i /\ head'[q] = head[q] /\ head[q] \in Descs
        BY <1>3, <1>4, <2>2, <3>2
      <4>2. info'[head[q]] = info[head[q]] /\ request'[head[q]] = request[head[q]]
        BY <1>0, <1>1, <4>1 DEF Starts, DiskTypeOK
      <4>3. QED
        BY <1>3, <3>2, <4>1, <4>2 DEF Requests
    <3>3. QED
      BY <3>1, <3>2
  <2>3. QED
    BY <2>1, <2>2 DEF Requests
<1>9. Chains'
  <2>1. Cardinality(free') = Cardinality(free) - 3
    <3>1. free' = free \ {i, j, k}
      BY <1>1 DEF Starts
    <3>2. QED
      BY <1>5, <3>1, DriverCount, RemoveThree
  <2>2. Cardinality({q \in Procs : InDriver(q)}') = Cardinality({q \in Procs : InDriver(q)}) + 1
    <3>1. {q \in Procs : InDriver(q)}' = {q \in Procs : InDriver(q)} \cup {p}
      BY <1>3
    <3>2. p \notin {q \in Procs : InDriver(q)}
      BY <1>3
    <3>3. QED
      BY <3>1, <3>2, DriverCount, FS_AddElement
  <2>3. Cardinality(free') + 3 * Cardinality({q \in Procs : InDriver(q)}') = load'.num
    BY <1>3, <2>1, <2>2, DriverCount DEF Chains
  <2>4. ASSUME NEW q \in Procs, InDriver(q)'
        PROVE  /\ next'[head'[q]] # NoDesc /\ next'[next'[head'[q]]] # NoDesc
               /\ head'[q] # next'[head'[q]] /\ head'[q] # next'[next'[head'[q]]]
               /\ next'[head'[q]] # next'[next'[head'[q]]]
               /\ Chain(head[q])' \cap free' = {}
               /\ \A r \in Procs \ {q} : InDriver(r)' => Chain(head[q])' \cap Chain(head[r])' = {}
    <3>0. free' = free \ {i, j, k}
      BY <1>1 DEF Starts
    <3>1. CASE q = p
      <4>1. \A r \in Procs \ {p} : InDriver(r)' => Chain(head[r])' \cap {i, j, k} = {}
        BY <1>3, <1>4
      <4>2. QED
        BY <1>5, <1>6, <1>7, <3>0, <3>1, <4>1
    <3>2. CASE q # p
      <4>1. InDriver(q)
        BY <1>3, <2>4, <3>2
      <4>2. /\ Chain(head[q])' = Chain(head[q]) /\ head'[q] = head[q]
            /\ next'[head[q]] = next[head[q]] /\ next'[next[head[q]]] = next[next[head[q]]]
            /\ Chain(head[q]) \cap {i, j, k} = {}
        BY <1>4, <3>2, <4>1
      <4>3. \A r \in Procs \ {q} : InDriver(r)' => Chain(head[q])' \cap Chain(head[r])' = {}
        <5>1. ASSUME NEW r \in Procs \ {q}, InDriver(r)'
              PROVE  Chain(head[q])' \cap Chain(head[r])' = {}
          <6>1. CASE r = p
            BY <1>7, <4>2, <6>1
          <6>2. CASE r # p
            <7>1. InDriver(r) /\ Chain(head[r])' = Chain(head[r])
              BY <1>3, <1>4, <5>1, <6>2
            <7>2. QED
              BY <4>1, <4>2, <7>1 DEF Chains
          <6>3. QED
            BY <6>1, <6>2
        <5>2. QED
          BY <5>1
      <4>4. QED
        BY <3>0, <4>1, <4>2, <4>3 DEF Chains
    <3>3. QED
      BY <3>1, <3>2
  <2>5. QED
    BY <2>3, <2>4 DEF Chains
<1>10. Rings'
  <2>1. \A d \in avail \cup Range(used) : d \notin {i, j, k}
    BY <1>3, <1>4 DEF Rings
  <2>2. avail' = avail \cup {i} /\ used' = used /\ disk' = disk \cup {b}
    BY <1>1 DEF Starts
  <2>3. \A d \in DOMAIN used : used[d] \in Range(used)
    BY DEF Range
  <2>4. \A d \in DOMAIN used' : used'[d] \notin avail'
    BY <2>1, <2>2, <2>3 DEF Rings
  <2>5. \A d \in avail' \cup Range(used') : \E q \in Procs : InDriver(q)' /\ head'[q] = d
    <3>1. ASSUME NEW d \in avail \cup Range(used)
          PROVE  \E q \in Procs : InDriver(q)' /\ head'[q] = d
      <4>1. PICK q \in Procs : InDriver(q) /\ head[q] = d
        BY <3>1 DEF Rings
      <4>2. q # p
        BY <1>3, <4>1
      <4>3. QED
        BY <1>3, <1>4, <4>1, <4>2
    <3>2. InDriver(p)' /\ head'[p] = i
      BY <1>3, <1>5
    <3>3. QED
      BY <2>2, <3>1, <3>2
  <2>6. \A c \in disk' : \E q \in Procs : InDriver(q)' /\ cur'[q] = c
    <3>1. ASSUME NEW c \in disk
          PROVE  \E q \in Procs : InDriver(q)' /\ cur'[q] = c
      <4>1. PICK q \in Procs : InDriver(q) /\ cur[q] = c
        BY <3>1 DEF Rings
      <4>2. QED
        BY <1>3, <4>1
    <3>2. InDriver(p)' /\ cur'[p] = b
      BY <1>3, <1>5
    <3>3. QED
      BY <2>2, <3>1, <3>2
  <2>7. ASSUME NEW q \in Procs, InDriver(q)'
        PROVE  /\ cur'[q] \in disk' <=> head'[q] \in avail' \cup Range(used')
               /\ pc'[q] = "reading" /\ head'[q] \notin avail' =>
                    data'[cur'[q]] = store'[blockno'[cur'[q]]]
    <3>1. CASE q = p
      BY <1>3, <1>5, <2>2, <3>1
    <3>2. CASE q # p
      <4>1. InDriver(q) /\ pc'[q] = pc[q] /\ head'[q] = head[q] /\ head[q] # i /\ cur[q] # b
        BY <1>3, <1>4, <2>7, <3>2
      <4>2. QED
        BY <1>3, <2>2, <4>1 DEF Rings
    <3>3. QED
      BY <3>1, <3>2
  <2>8. QED
    BY <2>2, <2>4, <2>5, <2>6, <2>7 DEF Rings
<1>11. QED
  BY <1>8, <1>9, <1>10

LEMMA EndDriver ==
    ASSUME IInv, [Next]_vars, NEW p \in Procs, EndIO(p)
    PROVE  Requests' /\ Chains' /\ Rings'
<1> USE DEF IInv
<1>0. CacheTypeOK /\ DiskTypeOK
  BY DEF CacheTypeOK
<1>1. PICK b \in Buffers, i \in Descs : Ends(p, b, i)
  BY EndStep
<1>2. /\ InDriver(p) /\ ~InDriver(p)' /\ head'[p] = NoDesc /\ i = head[p] /\ b = cur[p]
      /\ \A q \in Procs \ {p} : /\ InDriver(q)' = InDriver(q) /\ pc'[q] = pc[q]
                                /\ cur'[q] = cur[q] /\ head'[q] = head[q]
      /\ UNCHANGED <<blockno, load, store, avail, used, data, disk, request>>
      /\ free' = free \cup Chain(i)
  BY <1>0, <1>1 DEF Ends, InDriver, CacheTypeOK, DiskTypeOK, device
<1>3. ASSUME NEW q \in Procs \ {p}, InDriver(q)
      PROVE  /\ Chain(head[q])' = Chain(head[q]) /\ head[q] \in Descs /\ head[q] # i
             /\ next'[head[q]] = next[head[q]] /\ next'[next[head[q]]] = next[next[head[q]]]
             /\ Chain(head[q]) \cap Chain(i) = {} /\ Chain(head[q]) \cap free = {}
             /\ info'[head[q]] = info[head[q]]
  <2>1. /\ Chain(head[q]) = {head[q], next[head[q]], next[next[head[q]]]}
        /\ head[q] \in Descs /\ next[head[q]] \in Descs /\ next[next[head[q]]] \in Descs
        /\ Chain(head[q]) \cap Chain(i) = {} /\ Chain(head[q]) \cap free = {} /\ head[q] # i
    BY <1>2, <1>3, ChainFacts
  <2>2. next'[head[q]] = next[head[q]] /\ next'[next[head[q]]] = next[next[head[q]]]
    BY <1>1, <2>1 DEF Ends
  <2>3. Chain(head[q])' = Chain(head[q])
    BY <1>2, <1>3, <2>2 DEF Chain
  <2>4. info'[head[q]] = info[head[q]]
    BY <1>0, <1>1, <2>1 DEF Ends, DiskTypeOK
  <2>5. QED
    BY <2>1, <2>2, <2>3, <2>4
<1>4. Requests'
  <2>1. ASSUME NEW q \in Procs
        PROVE  head'[q] # NoDesc <=> InDriver(q)'
    BY <1>2 DEF Requests
  <2>2. ASSUME NEW q \in Procs, InDriver(q)'
        PROVE  /\ info'[head'[q]] = cur'[q]
               /\ request'[head'[q]] = [write |-> pc'[q] = "writing", sector |-> blockno'[cur'[q]]]
    <3>1. q # p /\ InDriver(q)
      BY <1>2, <2>2
    <3>2. QED
      BY <1>2, <1>3, <3>1 DEF Requests
  <2>3. QED
    BY <2>1, <2>2 DEF Requests
<1>5. Chains'
  <2>1. Cardinality(free') = Cardinality(free) + 3
    <3>1. /\ Cardinality(Chain(i)) = 3 /\ IsFiniteSet(Chain(i)) /\ free \cap Chain(i) = {}
          /\ Cardinality(free) \in Nat /\ IsFiniteSet(free)
      BY <1>2, ChainFacts, DriverCount
    <3>2. Cardinality(free \cup Chain(i))
            = Cardinality(free) + Cardinality(Chain(i)) - Cardinality(free \cap Chain(i))
      BY <3>1, FS_Union
    <3>3. Cardinality(free \cap Chain(i)) = 0
      BY <3>1, FS_EmptySet
    <3>4. QED
      BY <1>2, <3>1, <3>2, <3>3
  <2>2. Cardinality({q \in Procs : InDriver(q)}') = Cardinality({q \in Procs : InDriver(q)}) - 1
    <3>1. {q \in Procs : InDriver(q)}' = {q \in Procs : InDriver(q)} \ {p}
      BY <1>2
    <3>2. p \in {q \in Procs : InDriver(q)}
      BY <1>2
    <3>3. QED
      BY <3>1, <3>2, DriverCount, FS_RemoveElement
  <2>3. Cardinality(free') + 3 * Cardinality({q \in Procs : InDriver(q)}') = load'.num
    <3>1. /\ Cardinality(free) + 3 * Cardinality({q \in Procs : InDriver(q)}) = load.num
          /\ load' = load
      BY <1>2 DEF Chains
    <3>2. Cardinality(free) \in Nat /\ Cardinality({q \in Procs : InDriver(q)}) \in Nat
      BY DriverCount
    <3>3. QED
      BY <2>1, <2>2, <3>1, <3>2
  <2>4. ASSUME NEW q \in Procs, InDriver(q)'
        PROVE  /\ next'[head'[q]] # NoDesc /\ next'[next'[head'[q]]] # NoDesc
               /\ head'[q] # next'[head'[q]] /\ head'[q] # next'[next'[head'[q]]]
               /\ next'[head'[q]] # next'[next'[head'[q]]]
               /\ Chain(head[q])' \cap free' = {}
               /\ \A r \in Procs \ {q} : InDriver(r)' => Chain(head[q])' \cap Chain(head[r])' = {}
    <3>1. q # p /\ InDriver(q) /\ head'[q] = head[q]
      BY <1>2, <2>4
    <3>2. /\ Chain(head[q])' = Chain(head[q])
          /\ next'[head[q]] = next[head[q]] /\ next'[next[head[q]]] = next[next[head[q]]]
          /\ Chain(head[q]) \cap Chain(i) = {} /\ Chain(head[q]) \cap free = {}
      BY <1>3, <3>1
    <3>3. Chain(head[q])' \cap free' = {}
      BY <1>2, <3>2
    <3>4. \A r \in Procs \ {q} : InDriver(r)' => Chain(head[q])' \cap Chain(head[r])' = {}
      <4>1. ASSUME NEW r \in Procs \ {q}, InDriver(r)'
            PROVE  Chain(head[q])' \cap Chain(head[r])' = {}
        <5>1. r # p /\ InDriver(r)
          BY <1>2, <4>1
        <5>2. Chain(head[r])' = Chain(head[r])
          BY <1>3, <5>1
        <5>3. QED
          BY <3>1, <3>2, <5>1, <5>2 DEF Chains
      <4>2. QED
        BY <4>1
    <3>5. QED
      BY <3>1, <3>2, <3>3, <3>4 DEF Chains
  <2>5. QED
    BY <2>3, <2>4 DEF Chains
<1>6. Rings'
  <2>1. i \notin avail \cup Range(used) /\ b \notin disk
    BY <1>1, <1>2 DEF Ends, Rings
  <2>2. Range(used)' = Range(used)
    BY <1>2
  <2>3. \A d \in avail' \cup Range(used)' : \E q \in Procs : InDriver(q)' /\ head'[q] = d
    BY <1>2, <2>1, <2>2 DEF Rings
  <2>4. \A c \in disk' : \E q \in Procs : InDriver(q)' /\ cur'[q] = c
    BY <1>2, <2>1 DEF Rings
  <2>5. ASSUME NEW q \in Procs, InDriver(q)'
        PROVE  /\ cur'[q] \in disk' <=> head'[q] \in avail' \cup Range(used)'
               /\ pc'[q] = "reading" /\ head'[q] \notin avail' =>
                    data'[cur'[q]] = store'[blockno'[cur'[q]]]
    <3>1. q # p /\ InDriver(q)
      BY <1>2, <2>5
    <3>2. QED
      BY <1>2, <2>2, <3>1 DEF Rings
  <2>6. QED
    BY <1>2, <2>3, <2>4, <2>5 DEF Rings
<1>7. QED
  BY <1>4, <1>5, <1>6

\* The device and the interrupt handler do not change who waits for what.
LEMMA MachineDriver ==
    ASSUME IInv, UNCHANGED <<load, cache, procs, free, next, info, request, head>>
    PROVE  Requests' /\ Chains'
<1>1. Requests'
  BY DEF IInv, Requests, InDriver, cache, procs
<1>2. Chains'
  BY DEF IInv, Chains, Chain, InDriver, procs
<1>3. QED
  BY <1>1, <1>2

LEMMA TransferDriver ==
    ASSUME IInv, NEW i \in Descs, Transfer(i), UNCHANGED <<load, cache, procs>>
    PROVE  Rings'
<1> USE DEF IInv
<1>0. CacheTypeOK /\ DiskTypeOK
  BY DEF CacheTypeOK
<1>1. PICK p \in Procs, b \in Buffers, n \in Blocks : Serves(p, b, n, i)
  BY TransferStep
<1>2. /\ InDriver(p) /\ b = cur[p] /\ i = head[p] /\ n = blockno[b] /\ b \in disk /\ i \in avail
      /\ avail' = avail \ {i} /\ used' = Append(used, i)
      /\ UNCHANGED <<pc, cur, head, disk, blockno>>
      /\ \A q \in Procs : InDriver(q)' = InDriver(q)
  BY <1>1 DEF Serves, driver, procs, cache, InDriver
<1>3. /\ Len(used) \in Nat /\ DOMAIN used = 1..Len(used) /\ DOMAIN used' = 1..(Len(used) + 1)
      /\ \A k \in 1..Len(used) : used'[k] = used[k]
      /\ used'[Len(used) + 1] = i
  BY <1>0, <1>2 DEF DiskTypeOK
<1>4. Range(used') = Range(used) \cup {i} /\ \A k \in 1..Len(used) : used[k] # i
  BY <1>2, <1>3 DEF Range, Rings
<1>5. avail' \cup Range(used') = avail \cup Range(used)
  BY <1>2, <1>4
<1>6. \A q \in Procs \ {p} : InDriver(q) => head[q] # i /\ cur[q] # b
  BY <1>2, ChainFacts
<1>7. \A k \in DOMAIN used' : used'[k] \notin avail'
  BY <1>2, <1>3 DEF Rings
<1>8. \A k, l \in DOMAIN used' : used'[k] = used'[l] => k = l
  BY <1>3, <1>4 DEF Rings
<1>9. ASSUME NEW q \in Procs, InDriver(q), pc[q] = "reading", head[q] \notin avail'
      PROVE  data'[cur[q]] = store'[blockno[cur[q]]]
  <2>1. cur[q] \in Buffers /\ blockno[cur[q]] \in Blocks
    BY <1>9, InCallFacts
  <2>2. CASE q = p
    BY <1>0, <1>1, <1>2, <1>9, <2>2 DEF Serves, DiskTypeOK
  <2>3. CASE q # p
    <3>1. head[q] # i /\ cur[q] # b /\ head[q] \notin avail
      BY <1>2, <1>6, <1>9, <2>3
    <3>2. blockno[cur[q]] # n
      BY <1>2, <2>1, <3>1, DiskAssumption DEF OneBuffer
    <3>3. data'[cur[q]] = data[cur[q]] /\ store'[blockno[cur[q]]] = store[blockno[cur[q]]]
      BY <1>0, <1>1, <2>1, <3>1, <3>2 DEF Serves, DiskTypeOK
    <3>4. QED
      BY <1>9, <3>1, <3>3 DEF Rings
  <2>4. QED
    BY <2>2, <2>3
<1>10. /\ \A d \in avail' \cup Range(used') : \E q \in Procs : InDriver(q)' /\ head'[q] = d
       /\ \A c \in disk' : \E q \in Procs : InDriver(q)' /\ cur'[q] = c
  BY <1>2, <1>5 DEF Rings
<1>11. ASSUME NEW q \in Procs, InDriver(q)'
       PROVE  /\ cur'[q] \in disk' <=> head'[q] \in avail' \cup Range(used')
              /\ pc'[q] = "reading" /\ head'[q] \notin avail' =>
                   data'[cur'[q]] = store'[blockno'[cur'[q]]]
  BY <1>2, <1>5, <1>9, <1>11 DEF Rings
<1>12. QED
  BY <1>7, <1>8, <1>10, <1>11 DEF Rings

LEMMA IntrDriver ==
    ASSUME IInv, IntrNext, UNCHANGED <<load, cache, procs>>
    PROVE  Rings'
<1> USE DEF IInv
<1>0. CacheTypeOK /\ DiskTypeOK
  BY DEF CacheTypeOK
<1>1. PICK p \in Procs, b \in Buffers : Takes(p, b)
  BY IntrStep
<1>2. /\ InDriver(p) /\ b = cur[p] /\ used # <<>> /\ head[p] = used[1] /\ b \in disk
      /\ disk' = disk \ {b} /\ used' = Tail(used)
      /\ UNCHANGED <<pc, cur, head, avail, blockno, data, store>>
      /\ \A q \in Procs : InDriver(q)' = InDriver(q)
  BY <1>1 DEF Takes, procs, cache, InDriver
<1>3. PICK m \in Nat : m = Len(used) - 1
  <2>1. Len(used) \in Nat \ {0}
    BY <1>0, <1>2, UsedFacts
  <2>2. Len(used) - 1 \in Nat
    BY <2>1
  <2>3. QED
    BY <2>2
<1>4. /\ DOMAIN used = 1..(m + 1) /\ DOMAIN used' = 1..m
      /\ \A k \in 1..m : used'[k] = used[k + 1]
  BY <1>0, <1>2, <1>3, UsedFacts
<1>5. \A k \in 1..m : k + 1 \in DOMAIN used /\ used[k + 1] # used[1]
  <2>1. ASSUME NEW k \in 1..m
        PROVE  k + 1 \in DOMAIN used /\ 1 \in DOMAIN used /\ k + 1 # 1
    BY <1>4
  <2>2. QED
    BY <2>1 DEF Rings
<1>6. Range(used') = Range(used) \ {head[p]}
  <2>1. \A d \in Range(used') : d \in Range(used) /\ d # head[p]
    BY <1>2, <1>4, <1>5 DEF Range
  <2>2. ASSUME NEW d \in Range(used), d # head[p]
        PROVE  d \in Range(used')
    <3>1. PICK k \in 1..(m + 1) : used[k] = d
      BY <1>4 DEF Range
    <3>2. k # 1
      BY <1>2, <2>2, <3>1
    <3>3. k - 1 \in 1..m /\ (k - 1) + 1 = k
      BY <3>1, <3>2
    <3>4. used'[k - 1] = d
      BY <1>4, <3>1, <3>3
    <3>5. QED
      BY <1>4, <3>3, <3>4 DEF Range
  <2>3. QED
    BY <2>1, <2>2
<1>7. head[p] \notin avail
  BY <1>2, <1>4 DEF Rings
<1>8. \A q \in Procs \ {p} : InDriver(q) => head[q] # head[p] /\ cur[q] # b
  BY <1>2, ChainFacts
<1>9. \A k \in DOMAIN used' : used'[k] \notin avail'
  BY <1>2, <1>4, <1>5 DEF Rings
<1>10. \A k, l \in DOMAIN used' : used'[k] = used'[l] => k = l
  <2>1. ASSUME NEW k \in 1..m, NEW l \in 1..m, used'[k] = used'[l]
        PROVE  k = l
    <3>1. k + 1 \in DOMAIN used /\ l + 1 \in DOMAIN used /\ used[k + 1] = used[l + 1]
      BY <1>4, <1>5, <2>1
    <3>2. k + 1 = l + 1
      BY <3>1 DEF Rings
    <3>3. QED
      BY <3>2
  <2>2. QED
    BY <1>4, <2>1
<1>11. /\ \A d \in avail' \cup Range(used') : \E q \in Procs : InDriver(q)' /\ head'[q] = d
       /\ \A c \in disk' : \E q \in Procs : InDriver(q)' /\ cur'[q] = c
  BY <1>2, <1>6 DEF Rings
<1>12. ASSUME NEW q \in Procs, InDriver(q)'
       PROVE  /\ cur'[q] \in disk' <=> head'[q] \in avail' \cup Range(used')
              /\ pc'[q] = "reading" /\ head'[q] \notin avail' =>
                   data'[cur'[q]] = store'[blockno'[cur'[q]]]
  <2>1. CASE q = p
    BY <1>2, <1>6, <1>7, <1>12, <2>1 DEF Rings
  <2>2. CASE q # p
    BY <1>2, <1>6, <1>8, <1>12, <2>2 DEF Rings
  <2>3. QED
    BY <2>1, <2>2
<1>13. QED
  BY <1>9, <1>10, <1>11, <1>12 DEF Rings

LEMMA StepHolds ==
    ASSUME IInv, [Next]_vars
    PROVE  IInv'
<1>1. CacheTypeOK' /\ LoadFits' /\ OneBuffer' /\ Counted' /\ Hands' /\ Room'
  BY TypeStep, LoadStep, OneBufferStep, CountedStep, HandsStep, RoomStep
<1>2. Requests' /\ Chains' /\ Rings'
  <2>1. CASE Still
    BY <2>1, StillDriver
  <2>2. ASSUME NEW p \in Procs, StartIO(p) \/ EndIO(p)
        PROVE  Requests' /\ Chains' /\ Rings'
    BY <2>2, StartDriver, EndDriver
  <2>3. ASSUME NEW i \in Descs, Transfer(i), UNCHANGED <<load, cache, procs>>
        PROVE  Requests' /\ Chains' /\ Rings'
    <3>1. UNCHANGED <<free, next, info, request, head>>
      BY <2>3 DEF Transfer, driver
    <3>2. QED
      BY <2>3, <3>1, MachineDriver, TransferDriver
  <2>4. ASSUME IntrNext, UNCHANGED <<load, cache, procs>>
        PROVE  Requests' /\ Chains' /\ Rings'
    <3>1. UNCHANGED <<free, next, info, request, head>>
      BY <2>4 DEF IntrNext
    <3>2. QED
      BY <2>4, <3>1, MachineDriver, IntrDriver
  <2>5. QED
    BY <2>1, <2>2, <2>3, <2>4, StillSteps
<1>3. QED
  BY <1>1, <1>2 DEF IInv

-----------------------------------------------------------------------------
(* The cache stays consistent.                                             *)

LEMMA DescriptorsHold == ASSUME IInv PROVE DescriptorsAreKept(load.num)
<1> USE DEF IInv
<1>1. \A p \in Procs : head[p] # NoDesc <=> InDriver(p)
  BY DEF Requests
<1>2. ASSUME NEW p \in Procs, head[p] # NoDesc
      PROVE  /\ Cardinality(Chain(head[p])) = 3
             /\ Chain(head[p]) \cap free = {}
             /\ \A q \in Procs \ {p} :
                   head[q] # NoDesc => Chain(head[p]) \cap Chain(head[q]) = {}
  <2>1. InDriver(p)
    BY <1>1, <1>2
  <2>2. QED
    BY <1>1, <2>1, ChainFacts
<1>3. Cardinality(free) + 3 * Cardinality({p \in Procs : head[p] # NoDesc}) = load.num
  <2>1. {p \in Procs : head[p] # NoDesc} = {p \in Procs : InDriver(p)}
    BY <1>1
  <2>2. QED
    BY <2>1 DEF Chains
<1>4. ASSUME NEW i \in Descs
      PROVE  (i \in avail \/ \E k \in DOMAIN used : used[k] = i)
                <=> \E p \in Procs : head[p] = i /\ info[i] \in disk
  <2>1. (\E k \in DOMAIN used : used[k] = i) <=> i \in Range(used)
    BY DEF Range
  <2>2. ASSUME i \in avail \cup Range(used)
        PROVE  \E p \in Procs : head[p] = i /\ info[i] \in disk
    BY <2>2, RequestFacts
  <2>3. ASSUME NEW p \in Procs, head[p] = i, info[i] \in disk
        PROVE  i \in avail \cup Range(used)
    <3>1. InDriver(p)
      BY <1>1, <2>3, DescsAreFinite DEF Descs, NoDesc
    <3>2. info[i] = cur[p]
      BY <2>3, <3>1 DEF Requests
    <3>3. QED
      BY <2>3, <3>1, <3>2 DEF Rings
  <2>4. QED
    BY <2>1, <2>2, <2>3
<1>5. QED
  BY <1>2, <1>3, <1>4 DEF DescriptorsAreKept

\* A set of which each member has an owner and a number up to n, no two the same ones, has at
\* most n members for each owner, and one fewer when a number of an owner is free.
LEMMA Pigeons ==
    ASSUME NEW n \in Nat, NEW A, IsFiniteSet(A), NEW B, NEW f \in [B -> A \X (1..n)],
           \A b, c \in B : f[b] = f[c] => b = c,
           NEW x \in A \X (1..n), \A b \in B : f[b] # x
    PROVE  IsFiniteSet(B) /\ Cardinality(B) < n * Cardinality(A)
<1>1. PICK S : S = A \X (1..n)
  OBVIOUS
<1>2. IsFiniteSet(S) /\ Cardinality(S) = Cardinality(A) * n
  <2>1. IsFiniteSet(1..n) /\ Cardinality(1..n) = n
    <3>1. IsFiniteSet(1..n) /\ Cardinality(1..n) = IF 1 > n THEN 0 ELSE n - 1 + 1
      BY FS_Interval
    <3>2. QED
      BY <3>1
  <2>2. QED
    BY <1>1, <2>1, FS_Product
<1>3. Cardinality(A) \in Nat
  BY FS_CardinalityType
<1>4. PICK T : T = S \ {x}
  OBVIOUS
<1>5. IsFiniteSet(T) /\ Cardinality(T) = Cardinality(S) - 1
  BY <1>1, <1>2, <1>4, FS_RemoveElement
<1>6. f \in Injection(B, T)
  <2>1. f \in [B -> T]
    BY <1>1, <1>4
  <2>2. QED
    BY <2>1 DEF Injection, IsInjective
<1>7. IsFiniteSet(B) /\ Cardinality(B) <= Cardinality(T)
  BY <1>5, <1>6, FS_Injection
<1>8. Cardinality(B) \in Nat
  BY <1>7, FS_CardinalityType
<1>9. PICK a \in Nat : a = Cardinality(A)
  BY <1>3
<1>10. n * a \in Nat /\ a * n = n * a
  OBVIOUS
<1>11. QED
  BY <1>2, <1>5, <1>7, <1>8, <1>9, <1>10

\* A process that may read has room for another buffer, so not every buffer has a user.
LEMMA BufferForBread ==
    ASSUME IInv, NEW p \in Procs, NEW n \in Blocks
    PROVE  ~BgetPanics(p, n)
<1> SUFFICES ASSUME MayRead(p, n), Unused = {} PROVE FALSE
  BY DEF BgetPanics
<1> USE DEF IInv
<1> DEFINE Room1 == {q \in Procs : load.calls[q] > 0}
<1> HIDE DEF Room1
<1>1. IsFiniteSet(Room1) /\ Cardinality(Room1) \in Nat
  BY Finite, FS_CardinalityType DEF Room1
<1>2. MaxHeld \in Nat /\ MaxHeld \in 1..MaxHeld
  BY CacheAssumption
<1>3. \A q \in Procs : Mine(q) \in SUBSET Buffers /\ IsFiniteSet(Mine(q))
  BY InCallFacts, Finite
\* every buffer without a pin has a user
<1>4. ASSUME NEW b \in load.bufs, b \notin pinned
      PROVE  \E q \in Room1 : b \in Mine(q)
  <2>1. b \in Buffers /\ refcnt[b] # 0
    <3>1. PICK i \in DOMAIN lru : lru[i] = b
      BY DEF CacheTypeOK, Range
    <3>2. QED
      BY <3>1 DEF Unused, LoadFits
  <2>2. Users(b) # {}
    <3>1. refcnt[b] = Cardinality(Users(b)) + 0
      BY <1>4, <2>1 DEF Counted
    <3>2. QED
      BY <2>1, <3>1, FS_EmptySet
  <2>3. PICK q \in Procs : b \in held[q] \/ cur[q] = b
    BY <2>2 DEF Users
  <2>4. b \in Mine(q)
    <3>1. b # NoBuf
      BY <2>1, DiskAssumption
    <3>2. QED
      BY <2>3, <3>1 DEF Mine, Hands
  <2>5. QED
    BY <2>3, <2>4 DEF Room, Room1
\* the numbers of the buffers of a process
<1>5. \A q \in Procs : \E g \in [Mine(q) -> 1..MaxHeld] :
         /\ \A b, c \in Mine(q) : g[b] = g[c] => b = c
         /\ \A b \in Mine(q) : g[b] <= Cardinality(Mine(q))
  <2>1. ASSUME NEW q \in Procs
        PROVE  \E g \in [Mine(q) -> 1..MaxHeld] :
                  /\ \A b, c \in Mine(q) : g[b] = g[c] => b = c
                  /\ \A b \in Mine(q) : g[b] <= Cardinality(Mine(q))
    <3>1. PICK k \in Nat : k = Cardinality(Mine(q))
      BY <1>3, FS_CardinalityType
    <3>2. PICK h \in Bijection(1..k, Mine(q)) : TRUE
      BY <1>3, <3>1, FS_CardinalityType DEF ExistsBijection
    <3>3. /\ h \in [1..k -> Mine(q)]
          /\ \A b \in Mine(q) : \E i \in 1..k : h[i] = b
      BY <3>2 DEF Bijection, Injection, Surjection
    <3>4. k <= MaxHeld
      BY <3>1 DEF Room
    <3>5. PICK g : g = [b \in Mine(q) |-> CHOOSE i \in 1..k : h[i] = b]
      OBVIOUS
    <3>6. \A b \in Mine(q) : g[b] \in 1..k /\ h[g[b]] = b
      BY <3>3, <3>5
    <3>7. \A i \in 1..k : i \in 1..MaxHeld /\ i <= k
      BY <1>2, <3>4
    <3>8. g \in [Mine(q) -> 1..MaxHeld]
      BY <3>5, <3>6, <3>7
    <3>9. \A b, c \in Mine(q) : g[b] = g[c] => b = c
      BY <3>6
    <3>10. QED
      BY <3>1, <3>6, <3>7, <3>8, <3>9
  <2>2. QED
    BY <2>1
<1>6. PICK g : g = [q \in Procs |-> CHOOSE h \in [Mine(q) -> 1..MaxHeld] :
                       /\ \A b, c \in Mine(q) : h[b] = h[c] => b = c
                       /\ \A b \in Mine(q) : h[b] <= Cardinality(Mine(q))]
  OBVIOUS
<1>7. \A q \in Procs : /\ g[q] \in [Mine(q) -> 1..MaxHeld]
                       /\ \A b, c \in Mine(q) : g[q][b] = g[q][c] => b = c
                       /\ \A b \in Mine(q) : g[q][b] <= Cardinality(Mine(q))
  BY <1>5, <1>6
<1>8. PICK B : B = load.bufs \ pinned
  OBVIOUS
<1>9. PICK u : u = [b \in B |-> CHOOSE q \in Room1 : b \in Mine(q)]
  OBVIOUS
<1>10. \A b \in B : u[b] \in Room1 /\ b \in Mine(u[b])
  BY <1>4, <1>8, <1>9
<1>11. PICK f : f = [b \in B |-> <<u[b], g[u[b]][b]>>]
  OBVIOUS
<1>12. f \in [B -> Room1 \X (1..MaxHeld)]
  BY <1>7, <1>10, <1>11 DEF Room1
<1>13. \A b, c \in B : f[b] = f[c] => b = c
  <2>1. ASSUME NEW b \in B, NEW c \in B, f[b] = f[c]
        PROVE  b = c
    <3>1. u[b] = u[c] /\ g[u[b]][b] = g[u[b]][c]
      BY <1>11, <2>1
    <3>2. u[b] \in Procs /\ b \in Mine(u[b]) /\ c \in Mine(u[b])
      BY <1>10, <3>1 DEF Room1
    <3>3. QED
      BY <1>7, <3>1, <3>2
  <2>2. QED
    BY <2>1
\* the last number of p is free
<1>14. <<p, MaxHeld>> \in Room1 \X (1..MaxHeld)
  BY <1>2 DEF MayRead, Room, Room1
<1>15. \A b \in B : f[b] # <<p, MaxHeld>>
  <2>1. ASSUME NEW b \in B, f[b] = <<p, MaxHeld>>
        PROVE  FALSE
    <3>1. u[b] = p /\ g[p][b] = MaxHeld /\ b \in Mine(p)
      BY <1>10, <1>11, <2>1
    <3>2. Mine(p) = held[p] /\ Cardinality(held[p]) < MaxHeld
      BY DEF MayRead, Mine
    <3>3. Cardinality(held[p]) \in Nat /\ MaxHeld <= Cardinality(held[p])
      BY <1>3, <1>7, <3>1, <3>2, FS_CardinalityType
    <3>4. QED
      BY <1>2, <3>2, <3>3
  <2>2. QED
    BY <2>1
<1>16. IsFiniteSet(B) /\ Cardinality(B) < MaxHeld * Cardinality(Room1)
  <2>1. PICK x : x = <<p, MaxHeld>>
    OBVIOUS
  <2>2. x \in Room1 \X (1..MaxHeld) /\ \A b \in B : f[b] # x
    BY <1>14, <1>15, <2>1
  <2>3. QED
    BY <1>1, <1>2, <1>12, <1>13, <2>2, Pigeons
<1>17. Cardinality(load.bufs) = Cardinality(B) + Cardinality(pinned)
  <2>1. pinned \subseteq load.bufs /\ IsFiniteSet(pinned) /\ IsFiniteSet(load.bufs)
    BY Finite DEF OneBuffer, CacheTypeOK, LoadFits
  <2>2. B \cup pinned = load.bufs /\ B \cap pinned = {}
    BY <1>8, <2>1
  <2>3. Cardinality(B \cup pinned)
          = Cardinality(B) + Cardinality(pinned) - Cardinality(B \cap pinned)
    BY <1>16, <2>1, FS_Union
  <2>4. Cardinality(B \cap pinned) = 0
    BY <2>2, FS_EmptySet
  <2>5. Cardinality(B) \in Nat /\ Cardinality(pinned) \in Nat
    BY <1>16, <2>1, FS_CardinalityType
  <2>6. Cardinality(B) + Cardinality(pinned) - 0 = Cardinality(B) + Cardinality(pinned)
    BY <2>5
  <2>7. QED
    BY <2>2, <2>3, <2>4, <2>6
<1>18. PICK w \in Nat : w = MaxHeld * Cardinality(Room1)
  <2>1. \A i, j \in Nat : i * j \in Nat
    OBVIOUS
  <2>2. QED
    BY <1>1, <1>2, <2>1
<1>19. Cardinality(load.bufs) >= load.pins + w /\ load.pins \in Nat
  BY <1>18 DEF LoadFits, Room1
<1>20. Cardinality(pinned) <= load.pins
  BY DEF Counted
<1>21. Cardinality(B) \in Nat /\ Cardinality(pinned) \in Nat
  BY <1>16, Finite, FS_CardinalityType DEF CacheTypeOK
<1>22. QED
  BY <1>16, <1>17, <1>18, <1>19, <1>20, <1>21

LEMMA ConsistentHolds == IInv => CacheConsistent
<1> SUFFICES ASSUME IInv PROVE CacheConsistent
  OBVIOUS
<1> USE DEF IInv
<1>1. ASSUME NEW p \in Procs, NEW b \in Buffers
      PROVE  /\ b \in held[p] => owner[b] = p /\ b \in valid
             /\ owner[b] = p => b \in held[p] \/ cur[p] = b
  BY DEF Hands
<1>2. ASSUME NEW b \in disk
      PROVE  \E p \in Procs : owner[b] = p /\ cur[p] = b
  <2>1. PICK p \in Procs : InDriver(p) /\ cur[p] = b
    BY <1>2 DEF Rings
  <2>2. owner[b] = p
    BY <2>1, InCallFacts DEF InDriver, HasLock
  <2>3. QED
    BY <2>1, <2>2
<1>3. \A p \in Procs, n \in Blocks : ~BgetPanics(p, n)
  BY BufferForBread
<1>4. \A b, c \in Buffers : blockno[b] = blockno[c] /\ blockno[b] # NoBlock => b = c
  BY DEF OneBuffer
<1>5. \A b \in Buffers : refcnt[b] = Cardinality(Users(b)) + (IF b \in pinned THEN 1 ELSE 0)
  BY DEF Counted
<1>6. QED
  BY <1>1, <1>2, <1>3, <1>4, <1>5, DescriptorsHold DEF CacheConsistent

\* Between any two critical sections every reference is counted, no block has two buffers,
\* every descriptor is free or in one chain, and bget finds a buffer (bio.c, virtio_disk.c).
THEOREM CacheStaysConsistent == Spec => []CacheConsistent
<1>1. IInv /\ [Next]_vars => IInv'
  BY StepHolds
<1>2. QED
  BY <1>1, InitHolds, ConsistentHolds, PTL DEF Spec

-----------------------------------------------------------------------------
(* The cache over the driver and the device implements BlockCache.         *)

Kept == UNCHANGED <<store, View, Holder, PinnedBlocks>>

LEMMA InitIs ==
    ASSUME store = [n \in Blocks |-> Zero], View = store, Holder = [n \in Blocks |-> Nobody],
           PinnedBlocks = {}
    PROVE  Abstract!Init
BY DEF Abstract!Init

LEMMA ForgetIs ==
    ASSUME NEW n \in Blocks, Holder[n] = Nobody, n \notin PinnedBlocks,
           View' = [View EXCEPT ![n] = store[n]], UNCHANGED <<store, Holder, PinnedBlocks>>
    PROVE  Abstract!Next
BY DEF Abstract!Next, Abstract!Forget

LEMMA BreadIs ==
    ASSUME NEW n \in Blocks, NEW p \in Procs, Holder[n] = Nobody,
           Holder' = [Holder EXCEPT ![n] = p], UNCHANGED <<store, View, PinnedBlocks>>
    PROVE  Abstract!Next
BY DEF Abstract!Next, Abstract!Bread

LEMMA ModifyIs ==
    ASSUME NEW n \in Blocks, NEW p \in Procs, NEW v \in Values, Holder[n] = p,
           View' = [View EXCEPT ![n] = v], UNCHANGED <<store, Holder, PinnedBlocks>>
    PROVE  Abstract!Next
BY DEF Abstract!Next, Abstract!Modify

LEMMA BwriteIs ==
    ASSUME NEW n \in Blocks, NEW p \in Procs, Holder[n] = p,
           store' = [store EXCEPT ![n] = View[n]], UNCHANGED <<View, Holder, PinnedBlocks>>
    PROVE  Abstract!Next
BY DEF Abstract!Next, Abstract!Bwrite

LEMMA BrelseIs ==
    ASSUME NEW n \in Blocks, NEW p \in Procs, Holder[n] = p,
           Holder' = [Holder EXCEPT ![n] = Nobody], UNCHANGED <<store, View, PinnedBlocks>>
    PROVE  Abstract!Next
BY DEF Abstract!Next, Abstract!Brelse

LEMMA PinIs ==
    ASSUME NEW n \in Blocks, NEW p \in Procs, Holder[n] = p, UNCHANGED <<store, View, Holder>>,
           \/ n \notin PinnedBlocks /\ PinnedBlocks' = PinnedBlocks \cup {n}
           \/ n \in PinnedBlocks /\ PinnedBlocks' = PinnedBlocks \ {n}
    PROVE  Abstract!Next
BY DEF Abstract!Next, Abstract!Bpin, Abstract!Bunpin

\* A block is seen in its valid buffer, or on the disk; it is held by who holds its buffer.
LEMMA SeenFacts ==
    ASSUME IInv
    PROVE  /\ \A b \in valid : blockno[b] \in Blocks /\ View[blockno[b]] = data[b]
           /\ \A n \in Blocks : (\A b \in valid : blockno[b] # n) => View[n] = store[n]
           /\ View = [n \in Blocks |-> View[n]]
           /\ \A p \in Procs : \A b \in held[p] : blockno[b] \in Blocks /\ Holder[blockno[b]] = p
           /\ \A n \in Blocks :
                 (\A p \in Procs : \A b \in held[p] : blockno[b] # n) => Holder[n] = Nobody
           /\ Holder = [n \in Blocks |-> Holder[n]]
<1> USE DEF IInv
<1>1. ASSUME NEW b \in valid
      PROVE  blockno[b] \in Blocks /\ View[blockno[b]] = data[b]
  <2>1. b \in Buffers /\ blockno[b] \in Blocks
    BY DEF CacheTypeOK, OneBuffer
  <2>2. \A c \in valid : blockno[c] = blockno[b] => c = b
    BY <2>1, DiskAssumption DEF CacheTypeOK, OneBuffer
  <2>3. QED
    BY <2>1, <2>2 DEF View
<1>2. ASSUME NEW p \in Procs, NEW b \in held[p]
      PROVE  blockno[b] \in Blocks /\ Holder[blockno[b]] = p
  <2>1. b \in Buffers /\ blockno[b] \in Blocks /\ owner[b] = p
    BY InCallFacts DEF Hands
  <2>2. ASSUME NEW q \in Procs, NEW c \in held[q], blockno[c] = blockno[b]
        PROVE  q = p
    <3>1. c \in Buffers /\ owner[c] = q
      BY InCallFacts DEF Hands
    <3>2. c = b
      BY <2>1, <2>2, <3>1, DiskAssumption DEF OneBuffer
    <3>3. QED
      BY <2>1, <3>1, <3>2
  <2>3. QED
    BY <2>1, <2>2 DEF Holder
<1>3. \A n \in Blocks : (\A b \in valid : blockno[b] # n) => View[n] = store[n]
  BY DEF View
<1>4. \A n \in Blocks : (\A p \in Procs : \A b \in held[p] : blockno[b] # n) => Holder[n] = Nobody
  BY DEF Holder
<1>5. View = [n \in Blocks |-> View[n]] /\ Holder = [n \in Blocks |-> Holder[n]]
  BY DEF View, Holder
<1>6. QED
  BY <1>1, <1>2, <1>3, <1>4, <1>5

\* The view and the holders after a step.
LEMMA ViewIs ==
    ASSUME NEW w, w = [n \in Blocks |-> w[n]],
           \A b \in valid' : w[blockno'[b]] = data'[b],
           \A n \in Blocks : (\A b \in valid' : blockno'[b] # n) => w[n] = store'[n]
    PROVE  View' = w
<1>1. ASSUME NEW n \in Blocks
      PROVE  View'[n] = w[n]
  <2>1. CASE \E b \in valid' : blockno'[b] = n
    <3>1. PICK b : b = CHOOSE c \in valid' : blockno'[c] = n
      OBVIOUS
    <3>2. b \in valid' /\ blockno'[b] = n
      BY <2>1, <3>1
    <3>3. View'[n] = data'[b]
      BY <2>1, <3>1 DEF View
    <3>4. QED
      BY <3>2, <3>3
  <2>2. CASE \A b \in valid' : blockno'[b] # n
    BY <2>2 DEF View
  <2>3. QED
    BY <2>1, <2>2
<1>2. View' = [n \in Blocks |-> View'[n]]
  BY DEF View
<1>3. QED
  BY <1>1, <1>2

LEMMA HolderIs ==
    ASSUME NEW w, w = [n \in Blocks |-> w[n]],
           \A p \in Procs : \A b \in held'[p] : w[blockno'[b]] = p,
           \A n \in Blocks :
              (\A p \in Procs : \A b \in held'[p] : blockno'[b] # n) => w[n] = Nobody
    PROVE  Holder' = w
<1>1. ASSUME NEW n \in Blocks
      PROVE  Holder'[n] = w[n]
  <2>1. CASE \E p \in Procs : \E b \in held'[p] : blockno'[b] = n
    <3>1. PICK p : p = CHOOSE q \in Procs : \E b \in held'[q] : blockno'[b] = n
      OBVIOUS
    <3>2. p \in Procs /\ \E b \in held'[p] : blockno'[b] = n
      BY <2>1, <3>1
    <3>3. Holder'[n] = p
      BY <2>1, <3>1 DEF Holder
    <3>4. QED
      BY <3>2, <3>3
  <2>2. CASE \A p \in Procs : \A b \in held'[p] : blockno'[b] # n
    BY <2>2 DEF Holder
  <2>3. QED
    BY <2>1, <2>2
<1>2. Holder' = [n \in Blocks |-> Holder'[n]]
  BY DEF Holder
<1>3. QED
  BY <1>1, <1>2

\* A step that leaves the buffers, what is held, and the disk alone is not seen.
LEMMA NotSeen ==
    ASSUME UNCHANGED <<store, data, valid, blockno, held, pinned>>
    PROVE  Kept
BY DEF Kept, View, Holder, PinnedBlocks

\* bget gives an unused buffer to another block: what it had and did not write is lost.
LEMMA RecycleRefines ==
    ASSUME IInv, IInv', NEW p \in Procs, NEW n \in Blocks, BgetRecycle(p, n)
    PROVE  Abstract!Next \/ Kept
<1> USE DEF IInv
<1>1. PICK b \in Buffers : Recycles(p, n, b)
  BY RecycleStep
<1>2. /\ blockno' = [blockno EXCEPT ![b] = n] /\ valid' = valid \ {b}
      /\ UNCHANGED <<store, data, held, pinned>>
      /\ Users(b) = {} /\ b \notin pinned
  BY <1>1 DEF Recycles, Enter, dvars, device
<1>3. \A c \in Buffers \ {b} : blockno'[c] = blockno[c]
  BY <1>2 DEF CacheTypeOK
<1>4. valid \subseteq Buffers /\ pinned \subseteq Buffers
      /\ \A q \in Procs : held[q] \subseteq Buffers /\ b \notin held[q]
  BY <1>2 DEF CacheTypeOK, Users
<1>5. Holder' = Holder
  <2>1. PICK w : w = Holder
    OBVIOUS
  <2>2. \A q \in Procs : \A c \in held'[q] : w[blockno'[c]] = q
    BY <1>2, <1>3, <1>4, <2>1, SeenFacts
  <2>3. \A x \in Blocks : (\A q \in Procs : \A c \in held'[q] : blockno'[c] # x) => w[x] = Nobody
    BY <1>2, <1>3, <1>4, <2>1, SeenFacts
  <2>4. w = [x \in Blocks |-> w[x]]
    BY <2>1, SeenFacts
  <2>5. QED
    BY <2>1, <2>2, <2>3, <2>4, HolderIs
<1>6. PinnedBlocks' = PinnedBlocks
  BY <1>2, <1>3, <1>4 DEF PinnedBlocks
<1>7. CASE b \notin valid
  <2>1. View' = View
    <3>1. PICK w : w = View
      OBVIOUS
    <3>2. valid' = valid /\ \A c \in valid : blockno'[c] = blockno[c]
      BY <1>2, <1>3, <1>4, <1>7
    <3>3. \A c \in valid' : w[blockno'[c]] = data'[c]
      BY <1>2, <3>1, <3>2, SeenFacts
    <3>4. \A x \in Blocks : (\A c \in valid' : blockno'[c] # x) => w[x] = store'[x]
      BY <1>2, <3>1, <3>2, SeenFacts
    <3>5. w = [x \in Blocks |-> w[x]]
      BY <3>1, SeenFacts
    <3>6. QED
      BY <3>1, <3>3, <3>4, <3>5, ViewIs
  <2>2. QED
    BY <1>2, <1>5, <1>6, <2>1 DEF Kept
<1>8. CASE b \in valid
  <2>1. PICK m \in Blocks : m = blockno[b]
    BY <1>8, SeenFacts
  <2>2. \A c \in Buffers : blockno[c] = m => c = b
    BY <2>1, DiskAssumption DEF OneBuffer
  <2>3. PICK w : w = [View EXCEPT ![m] = store[m]]
    OBVIOUS
  <2>4. /\ w = [x \in Blocks |-> w[x]] /\ w[m] = store[m]
        /\ \A x \in Blocks : x # m => w[x] = View[x]
    BY <2>3 DEF View
  <2>5. \A c \in valid' : w[blockno'[c]] = data'[c]
    <3>1. ASSUME NEW c \in valid'
          PROVE  w[blockno'[c]] = data'[c]
      <4>1. c \in valid /\ c \in Buffers /\ c # b /\ blockno'[c] = blockno[c]
        BY <1>2, <1>3, <1>4
      <4>2. blockno[c] \in Blocks /\ blockno[c] # m /\ View[blockno[c]] = data[c]
        BY <2>2, <4>1, SeenFacts
      <4>3. QED
        BY <1>2, <2>4, <4>1, <4>2
    <3>2. QED
      BY <3>1
  <2>6. ASSUME NEW x \in Blocks, \A c \in valid' : blockno'[c] # x
        PROVE  w[x] = store'[x]
    <3>1. CASE x = m
      BY <1>2, <2>4, <3>1
    <3>2. CASE x # m
      <4>1. \A c \in valid : blockno[c] # x
        BY <1>2, <1>3, <1>4, <2>1, <2>6, <3>2
      <4>2. QED
        BY <1>2, <2>4, <3>2, <4>1, SeenFacts
    <3>3. QED
      BY <3>1, <3>2
  <2>7. View' = [View EXCEPT ![m] = store[m]]
    <3>1. View' = w
      BY <2>4, <2>5, <2>6, ViewIs
    <3>2. QED
      BY <2>3, <3>1
  <2>8. Holder[m] = Nobody
    BY <1>4, <2>2, SeenFacts
  <2>9. m \notin PinnedBlocks
    BY <1>2, <1>4, <2>2 DEF PinnedBlocks
  <2>10. QED
    BY <1>2, <1>5, <1>6, <2>7, <2>8, <2>9, ForgetIs
<1>9. QED
  BY <1>7, <1>8

\* A process takes a valid buffer: its first step outside bread.
LEMMA TakenIs ==
    ASSUME IInv, IInv', NEW p \in Procs, NEW b \in Buffers, NEW n \in Blocks, n = blockno[b],
           \A q \in Procs : b \notin held[q],
           held' = [held EXCEPT ![p] = held[p] \cup {b}],
           UNCHANGED <<store, View, blockno, pinned>>
    PROVE  Abstract!Next
<1> USE DEF IInv
<1>1. \A c \in Buffers : blockno[c] = n => c = b
  BY DiskAssumption DEF OneBuffer
<1>2. \A q \in Procs : held[q] \subseteq Buffers
  BY DEF CacheTypeOK
<1>3. /\ held'[p] = held[p] \cup {b}
      /\ \A q \in Procs : q # p => held'[q] = held[q]
  BY DEF CacheTypeOK
<1>4. Holder[n] = Nobody
  BY <1>1, <1>2, SeenFacts
<1>5. PICK w : w = [Holder EXCEPT ![n] = p]
  OBVIOUS
<1>6. /\ w = [x \in Blocks |-> w[x]] /\ w[n] = p
      /\ \A x \in Blocks : x # n => w[x] = Holder[x]
  BY <1>5 DEF Holder
<1>7. ASSUME NEW q \in Procs, NEW c \in held'[q]
      PROVE  w[blockno'[c]] = q
  <2>1. CASE c = b
    BY <1>3, <1>6, <1>7, <2>1
  <2>2. CASE c # b
    <3>1. c \in held[q] /\ blockno[c] # n
      BY <1>1, <1>2, <1>3, <1>7, <2>2
    <3>2. blockno[c] \in Blocks /\ Holder[blockno[c]] = q
      BY <3>1, SeenFacts
    <3>3. QED
      BY <1>6, <3>1, <3>2
  <2>3. QED
    BY <2>1, <2>2
<1>8. ASSUME NEW x \in Blocks, \A q \in Procs : \A c \in held'[q] : blockno'[c] # x
      PROVE  w[x] = Nobody
  <2>1. x # n
    BY <1>3, <1>8
  <2>2. \A q \in Procs : \A c \in held[q] : blockno[c] # x
    BY <1>3, <1>8
  <2>3. QED
    BY <1>6, <2>1, <2>2, SeenFacts
<1>9. Holder' = [Holder EXCEPT ![n] = p]
  <2>1. Holder' = w
    BY <1>6, <1>7, <1>8, HolderIs
  <2>2. QED
    BY <1>5, <2>1
<1>10. PinnedBlocks' = PinnedBlocks
  BY DEF PinnedBlocks
<1>11. QED
  BY <1>4, <1>9, <1>10, BreadIs

LEMMA AcquireRefines ==
    ASSUME IInv, IInv', NEW p \in Procs, AcquireSleep(p)
    PROVE  Abstract!Next \/ Kept
<1>1. PICK b \in Buffers : Sleeps(p, b) \/ Gets(p, b) \/ Misses(p, b)
  BY AcquireStep
<1>2. CASE Sleeps(p, b) \/ Misses(p, b)
  <2>1. UNCHANGED <<store, data, valid, blockno, held, pinned>>
    BY <1>2 DEF Sleeps, Misses, device
  <2>2. QED
    BY <2>1, NotSeen
<1>3. CASE Gets(p, b)
  <2>1. PICK n \in Blocks : n = blockno[b]
    BY <1>3, SeenFacts DEF Gets
  <2>2. \A q \in Procs : b \notin held[q]
    BY <1>3, CacheAssumption DEF Gets, IInv, Hands
  <2>3. /\ held' = [held EXCEPT ![p] = held[p] \cup {b}]
        /\ UNCHANGED <<store, data, valid, blockno, pinned>>
    BY <1>3 DEF Gets, device
  <2>4. View' = View
    BY <2>3 DEF View
  <2>5. QED
    BY <2>1, <2>2, <2>3, <2>4, TakenIs
<1>4. QED
  BY <1>1, <1>2, <1>3

\* The end of a read is the end of bread, with the block in the buffer; that of a write was
\* the device's transfer.
LEMMA EndRefines ==
    ASSUME IInv, IInv', NEW p \in Procs, EndIO(p)
    PROVE  Abstract!Next \/ Kept
<1> USE DEF IInv
<1>1. PICK b \in Buffers, i \in Descs : Ends(p, b, i)
  BY EndStep
<1>2. /\ InDriver(p) /\ b = cur[p] /\ i = head[p] /\ b \notin disk
      /\ valid' = valid \cup {b} /\ held' = [held EXCEPT ![p] = held[p] \cup {b}]
      /\ UNCHANGED <<store, data, blockno, pinned>>
  BY <1>1 DEF Ends, device
<1>3. CASE pc[p] = "writing"
  <2>1. b \in held[p] /\ b \in valid
    BY <1>2, <1>3 DEF Hands
  <2>2. valid' = valid /\ held' = held
    BY <1>2, <2>1 DEF CacheTypeOK
  <2>3. QED
    BY <1>2, <2>2, NotSeen
<1>4. CASE pc[p] = "reading"
  <2>1. PICK n \in Blocks : n = blockno[b]
    BY <1>2, <1>4, InCallFacts
  <2>2. b \notin valid /\ \A q \in Procs : b \notin held[q]
    BY <1>2, <1>4 DEF Hands
  <2>3. data[b] = store[n]
    BY <1>2, <1>4, <2>1 DEF Rings
  <2>4. \A c \in Buffers : blockno[c] = n => c = b
    BY <2>1, DiskAssumption DEF OneBuffer
  <2>5. View[n] = store[n]
    BY <2>2, <2>4, SeenFacts DEF CacheTypeOK
  <2>6. View' = View
    <3>1. PICK w : w = View
      OBVIOUS
    <3>2. \A c \in valid' : w[blockno'[c]] = data'[c]
      BY <1>2, <2>1, <2>3, <2>5, <3>1, SeenFacts
    <3>3. \A x \in Blocks : (\A c \in valid' : blockno'[c] # x) => w[x] = store'[x]
      BY <1>2, <3>1, SeenFacts
    <3>4. w = [x \in Blocks |-> w[x]]
      BY <3>1, SeenFacts
    <3>5. QED
      BY <3>1, <3>2, <3>3, <3>4, ViewIs
  <2>7. QED
    BY <1>2, <2>1, <2>2, <2>6, TakenIs
<1>5. QED
  BY <1>2, <1>3, <1>4 DEF InDriver

LEMMA ModifyRefines ==
    ASSUME IInv, IInv', NEW p \in Procs, NEW b \in Buffers, Modify(p, b)
    PROVE  Abstract!Next
<1> USE DEF IInv
<1>1. PICK v \in Values : data' = [data EXCEPT ![b] = v]
  BY DEF Modify
<1>2. b \in held[p] /\ UNCHANGED <<store, valid, blockno, held, pinned>>
  BY DEF Modify, Holds, device, cache, procs
<1>3. b \in valid
  BY <1>2 DEF Hands
<1>4. PICK n \in Blocks : n = blockno[b] /\ Holder[n] = p
  BY <1>2, SeenFacts
<1>5. \A c \in Buffers : blockno[c] = n => c = b
  BY <1>4, DiskAssumption DEF OneBuffer
<1>6. data'[b] = v /\ \A c \in Buffers : c # b => data'[c] = data[c]
  BY <1>1 DEF CacheTypeOK, DiskTypeOK
<1>7. PICK w : w = [View EXCEPT ![n] = v]
  OBVIOUS
<1>8. /\ w = [x \in Blocks |-> w[x]] /\ w[n] = v
      /\ \A x \in Blocks : x # n => w[x] = View[x]
  BY <1>7 DEF View
<1>9. ASSUME NEW c \in valid'
      PROVE  w[blockno'[c]] = data'[c]
  <2>1. c \in valid /\ c \in Buffers /\ blockno'[c] = blockno[c]
    BY <1>2, <1>9 DEF CacheTypeOK
  <2>2. CASE c = b
    BY <1>4, <1>6, <1>8, <2>1, <2>2
  <2>3. CASE c # b
    <3>1. blockno[c] \in Blocks /\ blockno[c] # n /\ View[blockno[c]] = data[c]
      BY <1>5, <2>1, <2>3, SeenFacts
    <3>2. QED
      BY <1>6, <1>8, <2>1, <2>3, <3>1
  <2>4. QED
    BY <2>2, <2>3
<1>10. ASSUME NEW x \in Blocks, \A c \in valid' : blockno'[c] # x
       PROVE  w[x] = store'[x]
  <2>1. x # n /\ \A c \in valid : blockno[c] # x
    BY <1>2, <1>3, <1>4, <1>10
  <2>2. QED
    BY <1>2, <1>8, <2>1, SeenFacts
<1>11. View' = [View EXCEPT ![n] = v]
  <2>1. View' = w
    BY <1>8, <1>9, <1>10, ViewIs
  <2>2. QED
    BY <1>7, <2>1
<1>12. Holder' = Holder /\ PinnedBlocks' = PinnedBlocks
  BY <1>2 DEF Holder, PinnedBlocks
<1>13. QED
  BY <1>2, <1>4, <1>11, <1>12, ModifyIs

LEMMA PinRefines ==
    ASSUME IInv, NEW p \in Procs, NEW b \in Buffers, Bpin(p, b) \/ Bunpin(p, b)
    PROVE  Abstract!Next
<1> USE DEF IInv
<1>1. /\ b \in held[p] /\ UNCHANGED <<store, data, valid, blockno, held>>
      /\ \/ b \notin pinned /\ pinned' = pinned \cup {b}
         \/ b \in pinned /\ pinned' = pinned \ {b}
  BY DEF Bpin, Bunpin, Holds, dvars, device, procs
<1>2. PICK n \in Blocks : n = blockno[b] /\ Holder[n] = p
  BY <1>1, SeenFacts
<1>3. \A c \in Buffers : blockno[c] = n => c = b
  BY <1>2, DiskAssumption DEF OneBuffer
<1>4. pinned \subseteq Buffers
  BY DEF CacheTypeOK
<1>5. n \in PinnedBlocks <=> b \in pinned
  BY <1>2, <1>3, <1>4 DEF PinnedBlocks
<1>6. \/ n \notin PinnedBlocks /\ PinnedBlocks' = PinnedBlocks \cup {n}
      \/ n \in PinnedBlocks /\ PinnedBlocks' = PinnedBlocks \ {n}
  <2>1. CASE b \notin pinned /\ pinned' = pinned \cup {b}
    <3>1. PinnedBlocks' = PinnedBlocks \cup {n}
      BY <1>1, <1>2, <2>1 DEF PinnedBlocks
    <3>2. QED
      BY <1>5, <2>1, <3>1
  <2>2. CASE b \in pinned /\ pinned' = pinned \ {b}
    <3>1. \A c \in pinned : blockno[c] = n <=> c = b
      BY <1>2, <1>3, <1>4
    <3>2. PinnedBlocks' = PinnedBlocks \ {n}
      BY <1>1, <2>2, <3>1 DEF PinnedBlocks
    <3>3. QED
      BY <1>5, <2>2, <3>2
  <2>3. QED
    BY <1>1, <2>1, <2>2
<1>7. View' = View /\ Holder' = Holder
  BY <1>1 DEF View, Holder
<1>8. QED
  BY <1>1, <1>2, <1>6, <1>7, PinIs

LEMMA UnlockRefines ==
    ASSUME IInv, NEW p \in Procs, NEW b \in Buffers, BrelseUnlock(p, b)
    PROVE  Abstract!Next
<1> USE DEF IInv
<1>1. /\ b \in held[p] /\ held' = [held EXCEPT ![p] = held[p] \ {b}]
      /\ UNCHANGED <<store, data, valid, blockno, pinned>>
  BY DEF BrelseUnlock, Holds, device
<1>2. PICK n \in Blocks : n = blockno[b] /\ Holder[n] = p
  BY <1>1, SeenFacts
<1>3. \A c \in Buffers : blockno[c] = n => c = b
  BY <1>2, DiskAssumption DEF OneBuffer
<1>4. /\ held'[p] = held[p] \ {b}
      /\ \A q \in Procs : held[q] \subseteq Buffers /\ (q # p => held'[q] = held[q])
  BY <1>1 DEF CacheTypeOK
<1>5. \A q \in Procs : q # p => b \notin held[q]
  BY <1>1 DEF Hands
<1>6. PICK w : w = [Holder EXCEPT ![n] = Nobody]
  OBVIOUS
<1>7. /\ w = [x \in Blocks |-> w[x]] /\ w[n] = Nobody
      /\ \A x \in Blocks : x # n => w[x] = Holder[x]
  BY <1>6 DEF Holder
<1>8. ASSUME NEW q \in Procs, NEW c \in held'[q]
      PROVE  w[blockno'[c]] = q
  <2>1. c \in held[q] /\ c # b /\ c \in Buffers
    BY <1>4, <1>5, <1>8
  <2>2. blockno[c] \in Blocks /\ blockno[c] # n /\ Holder[blockno[c]] = q
    BY <1>3, <2>1, SeenFacts
  <2>3. QED
    BY <1>1, <1>7, <2>2
<1>9. ASSUME NEW x \in Blocks, \A q \in Procs : \A c \in held'[q] : blockno'[c] # x
      PROVE  w[x] = Nobody
  <2>1. CASE x = n
    BY <1>7, <2>1
  <2>2. CASE x # n
    <3>1. \A q \in Procs : \A c \in held[q] : blockno[c] # x
      BY <1>1, <1>2, <1>4, <1>9, <2>2
    <3>2. QED
      BY <1>7, <2>2, <3>1, SeenFacts
  <2>3. QED
    BY <2>1, <2>2
<1>10. Holder' = [Holder EXCEPT ![n] = Nobody]
  <2>1. Holder' = w
    BY <1>7, <1>8, <1>9, HolderIs
  <2>2. QED
    BY <1>6, <2>1
<1>11. View' = View /\ PinnedBlocks' = PinnedBlocks
  BY <1>1 DEF View, PinnedBlocks
<1>12. QED
  BY <1>1, <1>2, <1>10, <1>11, BrelseIs

\* The device's transfer is where a block gets to the disk; a read puts it into a buffer
\* that nobody sees yet.
LEMMA TransferRefines ==
    ASSUME IInv, IInv', NEW i \in Descs, Transfer(i), UNCHANGED <<load, cache, procs>>
    PROVE  Abstract!Next \/ Kept
<1> USE DEF IInv
<1>1. PICK p \in Procs, b \in Buffers, n \in Blocks : Serves(p, b, n, i)
  BY TransferStep
<1>2. /\ InDriver(p) /\ b = cur[p] /\ n = blockno[b]
      /\ \/ pc[p] = "writing" /\ store' = [store EXCEPT ![n] = data[b]] /\ UNCHANGED data
         \/ pc[p] = "reading" /\ data' = [data EXCEPT ![b] = store[n]] /\ UNCHANGED store
      /\ UNCHANGED <<valid, blockno, held, pinned>>
  BY <1>1 DEF Serves, cache, procs
<1>3. Holder' = Holder /\ PinnedBlocks' = PinnedBlocks
  BY <1>2 DEF Holder, PinnedBlocks
<1>4. PICK w : w = View
  OBVIOUS
<1>5. w = [x \in Blocks |-> w[x]]
  BY <1>4, SeenFacts
<1>6. CASE pc[p] = "writing"
  <2>1. store' = [store EXCEPT ![n] = data[b]] /\ data' = data
    BY <1>2, <1>6
  <2>2. b \in held[p] /\ b \in valid
    BY <1>2, <1>6 DEF Hands
  <2>3. View[n] = data[b] /\ Holder[n] = p
    BY <1>2, <2>2, SeenFacts
  <2>4. \A c \in valid' : w[blockno'[c]] = data'[c]
    BY <1>2, <1>4, <2>1, SeenFacts
  <2>5. ASSUME NEW x \in Blocks, \A c \in valid' : blockno'[c] # x
        PROVE  w[x] = store'[x]
    <3>1. x # n /\ \A c \in valid : blockno[c] # x
      BY <1>2, <2>2, <2>5
    <3>2. store'[x] = store[x]
      BY <2>1, <3>1 DEF CacheTypeOK, DiskTypeOK
    <3>3. QED
      BY <1>4, <3>1, <3>2, SeenFacts
  <2>6. View' = w
    BY <1>5, <2>4, <2>5, ViewIs
  <2>7. View' = View /\ store' = [store EXCEPT ![n] = View[n]]
    BY <1>4, <2>1, <2>3, <2>6
  <2>8. QED
    BY <1>3, <2>3, <2>7, BwriteIs
<1>7. CASE pc[p] = "reading"
  <2>1. data' = [data EXCEPT ![b] = store[n]] /\ store' = store
    BY <1>2, <1>7
  <2>2. b \notin valid
    BY <1>2, <1>7 DEF Hands
  <2>3. \A c \in valid : data'[c] = data[c]
    BY <2>1, <2>2 DEF CacheTypeOK, DiskTypeOK
  <2>4. \A c \in valid' : w[blockno'[c]] = data'[c]
    BY <1>2, <1>4, <2>3, SeenFacts
  <2>5. \A x \in Blocks : (\A c \in valid' : blockno'[c] # x) => w[x] = store'[x]
    BY <1>2, <1>4, <2>1, SeenFacts
  <2>6. View' = w
    BY <1>5, <2>4, <2>5, ViewIs
  <2>7. QED
    BY <1>3, <1>4, <2>1, <2>6 DEF Kept
<1>8. QED
  BY <1>2, <1>6, <1>7 DEF InDriver

LEMMA InitRefines == Init => Abstract!Init
<1> SUFFICES ASSUME Init PROVE Abstract!Init
  OBVIOUS
<1>1. /\ store = [n \in Blocks |-> Zero] /\ valid = {} /\ pinned = {}
      /\ held = [p \in Procs |-> {}]
  BY DEF Init, DiskInit
<1>2. View = store /\ Holder = [n \in Blocks |-> Nobody] /\ PinnedBlocks = {}
  BY <1>1 DEF View, Holder, PinnedBlocks
<1>3. QED
  BY <1>1, <1>2, InitIs

LEMMA StepRefines ==
    ASSUME IInv, IInv', [Next]_vars
    PROVE  Abstract!Next \/ Kept
<1> USE DEF IInv
<1>1. ASSUME NEW p \in Procs, NEW n \in Blocks, BgetHit(p, n)
      PROVE  Kept
  <2>1. UNCHANGED <<store, data, valid, blockno, held, pinned>>
    BY <1>1 DEF BgetHit, Enter, dvars, device
  <2>2. QED
    BY <2>1, NotSeen
<1>2. ASSUME NEW p \in Procs, NEW b \in Buffers, Bwrite(p, b)
      PROVE  Kept
  BY <1>2, NotSeen DEF Bwrite, dvars, device, cache
<1>3. ASSUME NEW p \in Procs, BrelsePut(p) \/ AwaitIO(p) \/ CountedKill(p)
      PROVE  Kept
  <2>1. UNCHANGED <<store, data, valid, blockno, held, pinned>>
    BY <1>3 DEF BrelsePut, AwaitIO, NoDescriptors, StillBusy, CountedKill, Kill,
                dvars, device, cache, procs
  <2>2. QED
    BY <2>1, NotSeen
<1>4. ASSUME NEW p \in Procs, StartIO(p)
      PROVE  Kept
  <2>1. UNCHANGED <<store, data, valid, blockno, held, pinned>>
    BY <1>4 DEF StartIO, Submit, cache
  <2>2. QED
    BY <2>1, NotSeen
<1>5. ASSUME IntrBegin \/ IntrNext \/ IntrEnd, UNCHANGED <<load, cache, procs>>
      PROVE  Kept
  <2>1. UNCHANGED <<store, data, valid, blockno, held, pinned>>
    BY <1>5 DEF IntrBegin, IntrNext, IntrEnd, device, cache, procs
  <2>2. QED
    BY <2>1, NotSeen
<1>6. CASE UNCHANGED vars
  BY <1>6, NotSeen DEF vars, dvars, device, cache, procs
<1>7. QED
  BY <1>1, <1>2, <1>3, <1>4, <1>5, <1>6, RecycleRefines, AcquireRefines, EndRefines,
     ModifyRefines, PinRefines, UnlockRefines, TransferRefines DEF Next, User, InCall, Machine

\* bread, bwrite, brelse, bpin and bunpin over the driver and the device are those of a cache
\* that gives a block to one process at a time, has written what bwrite wrote, and forgets
\* only what is neither held nor pinned (bio.c:7-15).
THEOREM CacheImplementsBlockCache == Spec => ImplementsBlockCache
<1>1. IInv /\ [Next]_vars => IInv'
  BY StepHolds
<1>2. IInv /\ IInv' /\ [Next]_vars
        => [Abstract!Next]_<<store, View, Holder, PinnedBlocks>>
  BY StepRefines DEF Kept
<1>3. Abstract!Spec <=> Abstract!Init /\ [][Abstract!Next]_<<store, View, Holder, PinnedBlocks>>
  BY DEF Abstract!Spec, Abstract!bvars
<1>4. QED
  BY <1>1, <1>2, <1>3, InitHolds, InitRefines, PTL DEF Spec, ImplementsBlockCache

=============================================================================
