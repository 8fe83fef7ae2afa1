---------------------------- MODULE BufferCache ------------------------------
(***************************************************************************)
(* The buffer cache of xv6 (kernel/bio.c) with its sleep-locks             *)
(* (kernel/sleeplock.c), on top of the disk driver.  Processes read        *)
(* blocks, change, write, pin and release them, as the log and the file    *)
(* system do; one that holds several blocks takes them in increasing       *)
(* order, which stands for the order of the file system's structures.      *)
(***************************************************************************)
EXTENDS VirtioDisk, Functions

CONSTANTS
    Nobody,
    MaxHeld,    \* a process holds at most so many buffers
    Workloads   \* [num: NUM of the driver, bufs: the buffers, blocks: those in use, pins:
                \* how many the log may pin, calls: breads and bwrites of each process,
                \* kills: wakeups by kkill]

\* There is a buffer for everything that can be pinned or held.
ASSUME CacheAssumption ==
    /\ Nobody \notin Procs /\ MaxHeld \in Nat \ {0}
    /\ \A w \in Workloads :
          /\ w \in [num : 3..MaxDesc, bufs : SUBSET Buffers, blocks : SUBSET Blocks,
                   pins : Nat, calls : [Procs -> Nat], kills : Nat]
          /\ Cardinality(w.bufs) >=
                w.pins + MaxHeld * Cardinality({p \in Procs : w.calls[p] > 0})

VARIABLES
    load,                          \* the workload, with the kills that are left
    lru,                           \* the list from head.next to head.prev
    blockno, valid, refcnt,        \* struct buf
    owner,                         \* the holder of the sleep-lock of a buffer
    pinned,                        \* the buffers that the log has pinned
    pc, cur, held, left            \* a process: next step, buffer in its call, buffers
                                   \* it holds, breads that are left

cache == <<lru, blockno, valid, refcnt, owner, pinned>>
procs == <<pc, cur, held, left>>
vars == <<dvars, load, cache, procs>>

CacheTypeOK ==
    /\ DiskTypeOK
    /\ load.num \in 3..MaxDesc /\ load.kills \in Nat
    /\ lru \in [1..Cardinality(load.bufs) -> load.bufs] /\ Range(lru) = load.bufs
    /\ blockno \in [Buffers -> Blocks \cup {NoBlock}]
    /\ valid \subseteq Buffers
    /\ refcnt \in [Buffers -> Nat]
    /\ owner \in [Buffers -> Procs \cup {Nobody}]
    /\ pinned \subseteq Buffers
    /\ pc \in [Procs -> {"user", "lock", "read", "reading", "write", "writing", "put"}]
    /\ cur \in [Procs -> Buffers \cup {NoBuf}]
    /\ held \in [Procs -> SUBSET Buffers]
    /\ left \in [Procs -> Nat]

\* binit.
Init ==
    \E w \in Workloads :
        /\ DiskInit(w.num)
        /\ load = w
        /\ lru = CHOOSE s \in [1..Cardinality(w.bufs) -> w.bufs] : Range(s) = w.bufs
        /\ blockno = [b \in Buffers |-> NoBlock]
        /\ valid = {}
        /\ refcnt = [b \in Buffers |-> 0]
        /\ owner = [b \in Buffers |-> Nobody]
        /\ pinned = {}
        /\ pc = [p \in Procs |-> "user"]
        /\ cur = [p \in Procs |-> NoBuf]
        /\ held = [p \in Procs |-> {}]
        /\ left = w.calls

-----------------------------------------------------------------------------
(* bget: one critical section under bcache.lock, then acquiresleep.        *)

Cached(n) == \E b \in Buffers : blockno[b] = n
Unused == {i \in DOMAIN lru : refcnt[lru[i]] = 0}

\* The calls of bread that the kernel makes.
MayRead(p, n) ==
    /\ n \in load.blocks
    /\ pc[p] = "user" /\ left[p] > 0 /\ Cardinality(held[p]) < MaxHeld
    /\ \A b \in held[p] : blockno[b] < n

Enter(p, b) ==
    /\ pc' = [pc EXCEPT ![p] = "lock"]
    /\ cur' = [cur EXCEPT ![p] = b]
    /\ left' = [left EXCEPT ![p] = @ - 1]
    /\ UNCHANGED <<held, dvars, load, lru, owner, pinned>>

\* A bget that finds the block and does not count itself.
BgetHitUncounted(p, n) ==
    /\ MayRead(p, n)
    /\ \E b \in Buffers :
          /\ blockno[b] = n
          /\ Enter(p, b)
    /\ UNCHANGED <<blockno, valid, refcnt>>

BgetHit(p, n) ==
    /\ MayRead(p, n)
    /\ \E b \in Buffers :
          /\ blockno[b] = n
          /\ refcnt' = [refcnt EXCEPT ![b] = @ + 1]
          /\ Enter(p, b)
    /\ UNCHANGED <<blockno, valid>>

\* A recycled buffer that keeps its valid flag.
BgetRecycleKeepsValid(p, n) ==
    /\ MayRead(p, n) /\ ~Cached(n) /\ Unused # {}
    /\ LET b == lru[CHOOSE i \in Unused : \A j \in Unused : j <= i] IN
          /\ blockno' = [blockno EXCEPT ![b] = n]
          /\ refcnt' = [refcnt EXCEPT ![b] = 1]
          /\ Enter(p, b)
    /\ UNCHANGED valid

\* The least recently used buffer without references.
BgetRecycle(p, n) ==
    /\ MayRead(p, n) /\ ~Cached(n) /\ Unused # {}
    /\ LET b == lru[CHOOSE i \in Unused : \A j \in Unused : j <= i] IN
          /\ blockno' = [blockno EXCEPT ![b] = n]
          /\ valid' = valid \ {b}
          /\ refcnt' = [refcnt EXCEPT ![b] = 1]
          /\ Enter(p, b)

\* "bget: no buffers"
BgetPanics(p, n) == MayRead(p, n) /\ ~Cached(n) /\ Unused = {}

\* acquiresleep; then bread looks at b->valid.
AcquireSleep(p) ==
    LET b == cur[p] IN
    /\ pc[p] = "lock" /\ chan[p] = Awake
    /\ IF owner[b] # Nobody
         THEN /\ chan' = [chan EXCEPT ![p] = Lock(b)]
              /\ UNCHANGED <<owner, pc, cur, held>>
         ELSE /\ owner' = [owner EXCEPT ![b] = p]
              /\ IF b \in valid
                   THEN /\ pc' = [pc EXCEPT ![p] = "user"]
                        /\ cur' = [cur EXCEPT ![p] = NoBuf]
                        /\ held' = [held EXCEPT ![p] = @ \cup {b}]
                   ELSE /\ pc' = [pc EXCEPT ![p] = "read"]
                        /\ UNCHANGED <<cur, held>>
              /\ UNCHANGED chan
    /\ UNCHANGED <<device, driver, data, head, load, lru, blockno, valid, refcnt, pinned, left>>

-----------------------------------------------------------------------------
(* virtio_disk_rw for bread and bwrite.                                    *)

StartIO(p) ==
    /\ \/ /\ pc[p] = "read"
          /\ pc' = [pc EXCEPT ![p] = "reading"]
          /\ Submit(p, cur[p], FALSE, blockno[cur[p]])
       \/ /\ pc[p] = "write"
          /\ pc' = [pc EXCEPT ![p] = "writing"]
          /\ Submit(p, cur[p], TRUE, blockno[cur[p]])
    /\ UNCHANGED <<load, cache, cur, held, left>>

AwaitIO(p) ==
    /\ \/ pc[p] \in {"read", "write"} /\ NoDescriptors(p)
       \/ pc[p] \in {"reading", "writing"} /\ StillBusy(p, cur[p])
    /\ UNCHANGED <<load, cache, procs>>

EndIO(p) ==
    LET b == cur[p] IN
    /\ pc[p] \in {"reading", "writing"}
    /\ Finish(p, b)
    /\ valid' = valid \cup {b}
    /\ pc' = [pc EXCEPT ![p] = "user"]
    /\ cur' = [cur EXCEPT ![p] = NoBuf]
    /\ held' = [held EXCEPT ![p] = @ \cup {b}]
    /\ UNCHANGED <<load, lru, blockno, refcnt, owner, pinned, left>>

-----------------------------------------------------------------------------
(* What a process does with a buffer that it holds.                        *)

Holds(p, b) == pc[p] = "user" /\ b \in held[p]

Modify(p, b) ==
    /\ Holds(p, b)
    /\ \E v \in Values \ {data[b]} : data' = [data EXCEPT ![b] = v]
    /\ UNCHANGED <<device, driver, chan, head, load, cache, procs>>

Bwrite(p, b) ==
    /\ Holds(p, b) /\ left[p] > 0
    /\ pc' = [pc EXCEPT ![p] = "write"]
    /\ cur' = [cur EXCEPT ![p] = b]
    /\ left' = [left EXCEPT ![p] = @ - 1]
    /\ UNCHANGED <<dvars, load, cache, held>>

Bpin(p, b) ==
    /\ Holds(p, b) /\ b \notin pinned /\ Cardinality(pinned) < load.pins
    /\ refcnt' = [refcnt EXCEPT ![b] = @ + 1]
    /\ pinned' = pinned \cup {b}
    /\ UNCHANGED <<dvars, load, lru, blockno, valid, owner, procs>>

Bunpin(p, b) ==
    /\ Holds(p, b) /\ b \in pinned
    /\ refcnt' = [refcnt EXCEPT ![b] = @ - 1]
    /\ pinned' = pinned \ {b}
    /\ UNCHANGED <<dvars, load, lru, blockno, valid, owner, procs>>

\* brelse: releasesleep, then the reference under bcache.lock.
BrelseUnlock(p, b) ==
    /\ Holds(p, b)
    /\ owner' = [owner EXCEPT ![b] = Nobody]
    /\ chan' = Wakeup(Lock(b))
    /\ pc' = [pc EXCEPT ![p] = "put"]
    /\ cur' = [cur EXCEPT ![p] = b]
    /\ held' = [held EXCEPT ![p] = @ \ {b}]
    /\ UNCHANGED <<device, driver, data, head, load, lru, blockno, valid, refcnt, pinned, left>>

MoveToFront(b) ==
    LET k == CHOOSE i \in DOMAIN lru : lru[i] = b IN
    [i \in DOMAIN lru |-> IF i = 1 THEN b ELSE IF i <= k THEN lru[i - 1] ELSE lru[i]]

BrelsePut(p) ==
    LET b == cur[p] IN
    /\ pc[p] = "put"
    /\ refcnt' = [refcnt EXCEPT ![b] = @ - 1]
    /\ lru' = IF refcnt[b] = 1 THEN MoveToFront(b) ELSE lru
    /\ pc' = [pc EXCEPT ![p] = "user"]
    /\ cur' = [cur EXCEPT ![p] = NoBuf]
    /\ UNCHANGED <<dvars, load, blockno, valid, owner, pinned, held, left>>

-----------------------------------------------------------------------------
\* A process inside bread, bwrite or brelse.
InCall(p) == AcquireSleep(p) \/ StartIO(p) \/ AwaitIO(p) \/ EndIO(p) \/ BrelsePut(p)

User(p) ==
    \/ \E n \in Blocks : BgetHit(p, n) \/ BgetRecycle(p, n)
    \/ \E b \in Buffers : \/ Modify(p, b) \/ Bwrite(p, b) \/ Bpin(p, b)
                          \/ Bunpin(p, b) \/ BrelseUnlock(p, b)

CountedKill(p) ==
    /\ load.kills > 0
    /\ Kill(p)
    /\ load' = [load EXCEPT !.kills = @ - 1]
    /\ UNCHANGED <<cache, procs>>

Next ==
    \/ \E p \in Procs : User(p) \/ InCall(p)
    \/ \E p \in Procs : CountedKill(p)
    \/ Machine /\ UNCHANGED <<load, cache, procs>>

\* Processes go on in their calls and release what they hold, the device finishes every
\* request, and interrupts are taken.
Fairness ==
    /\ \A p \in Procs : WF_vars(InCall(p))
    /\ \A p \in Procs : WF_vars(\E b \in Buffers : BrelseUnlock(p, b))
    /\ \A i \in Descs : WF_vars(Transfer(i) /\ UNCHANGED <<load, cache, procs>>)
    /\ WF_vars((IntrBegin \/ IntrNext \/ IntrEnd) /\ UNCHANGED <<load, cache, procs>>)

Spec == Init /\ [][Next]_vars /\ Fairness

-----------------------------------------------------------------------------
(* Properties.                                                             *)

\* Processes between bget and the end of brelse of a buffer: one reference each.
Users(b) == {p \in Procs : b \in held[p] \/ cur[p] = b}

\* The cache is consistent between any two critical sections: a block has one buffer
\* (bio.c:12-14), every reference is counted, so that a buffer in use is never recycled and
\* a buffer out of use always can be, the sleep-lock has the holder it says, only the
\* holder's buffer is with the device, and there is a buffer for every bread.
CacheConsistent ==
    /\ CacheTypeOK
    /\ DescriptorsAreKept(load.num)
    /\ \A b, c \in Buffers : blockno[b] = blockno[c] /\ blockno[b] # NoBlock => b = c
    /\ \A b \in Buffers :
          refcnt[b] = Cardinality(Users(b)) + (IF b \in pinned THEN 1 ELSE 0)
    /\ \A p \in Procs, b \in Buffers :
          /\ b \in held[p] => owner[b] = p /\ b \in valid
          /\ owner[b] = p => b \in held[p] \/ cur[p] = b
    /\ \A b \in disk : \E p \in Procs : owner[b] = p /\ cur[p] = b
    /\ \A p \in Procs, n \in Blocks : ~BgetPanics(p, n)

\* What the processes see: the contents of a block, who holds it, which are pinned.
View ==
    [n \in Blocks |->
        IF \E b \in valid : blockno[b] = n
          THEN data[CHOOSE b \in valid : blockno[b] = n]
          ELSE store[n]]
Holder ==
    [n \in Blocks |->
        IF \E p \in Procs : \E b \in held[p] : blockno[b] = n
          THEN CHOOSE p \in Procs : \E b \in held[p] : blockno[b] = n
          ELSE Nobody]
PinnedBlocks == {blockno[b] : b \in pinned}

Abstract == INSTANCE BlockCache WITH
    disk <- store, view <- View, holder <- Holder, pinned <- PinnedBlocks

\* The cache over the driver and the device is the cache of the abstract specification: a
\* bread returns what was last put into the block, nobody else has it, bwrite returns after
\* the disk has it, and what is pinned is not lost (bio.c:7-15).
ImplementsBlockCache == Abstract!Spec

\* bread, bwrite and brelse return: no wakeup of a sleep-lock, of a request or of a free
\* descriptor is lost, also when a kill or a failed alloc3_desc wakes a process early, and
\* no interrupt is lost when the device adds to the used ring while the handler runs.
CallsReturn == \A p \in Procs : pc[p] # "user" ~> pc[p] = "user"
=============================================================================
