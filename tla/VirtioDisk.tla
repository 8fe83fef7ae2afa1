----------------------------- MODULE VirtioDisk ------------------------------
(***************************************************************************)
(* The disk driver of xv6 (kernel/virtio_disk.c) and its device: a request *)
(* takes three descriptors, the device finishes requests in any order, an  *)
(* interrupt tells the driver.                                             *)
(*                                                                         *)
(* Grain: one action per critical section under vdisk_lock, except for the *)
(* interrupt handler, which works through the used ring while the device   *)
(* adds to it.                                                             *)
(***************************************************************************)
EXTENDS Integers, Sequences, FiniteSets

CONSTANTS
    Procs, Buffers, Blocks,
    Values, Zero,   \* contents of a block; Zero is what mkfs wrote
    MaxDesc,        \* the largest NUM of the workloads
    NoBuf, NoBlock

ASSUME DiskAssumption ==
    /\ IsFiniteSet(Procs) /\ IsFiniteSet(Buffers) /\ Blocks \subseteq Nat
    /\ Zero \in Values /\ MaxDesc \in Nat
    /\ NoBuf \notin Buffers /\ NoBlock \notin Blocks

Descs == 1..MaxDesc
NoDesc == 0

VARIABLES
    store,            \* the blocks on the disk
    free,             \* disk.free: the descriptors with free[i] = 1
    next,             \* desc[i].next, NoDesc without VRING_DESC_F_NEXT
    info,             \* info[i].b
    request,          \* ops[i]: the type and the sector of the request
    avail,            \* heads of chains that the device has not finished
    used,             \* the used ring from disk.used_idx to disk.used->idx
    irq,              \* the device's interrupt is pending
    intr,             \* virtio_disk_intr is in its loop and has vdisk_lock
    disk,             \* b->disk: the buffers that the device has
    data,             \* b->data
    chan,             \* what a process sleeps on
    head              \* idx[0] of the call of a process

device == <<store, avail, used, irq>>
driver == <<free, next, info, request, intr, disk>>
dvars == <<device, driver, data, chan, head>>

\* The channels of sleep: &disk.free[0], a buffer, the sleep-lock of a buffer.
Channel(on, b) == [on |-> on, buf |-> b]
Awake == Channel("awake", NoBuf)
FreeDesc == Channel("desc", NoBuf)
Done(b) == Channel("disk", b)
Lock(b) == Channel("lock", b)
Channels == {Awake, FreeDesc} \cup {Done(b) : b \in Buffers} \cup {Lock(b) : b \in Buffers}

\* wakeup(): every process that sleeps on the channel.
Wakeup(c) == [p \in Procs |-> IF chan[p] = c THEN Awake ELSE chan[p]]

DiskTypeOK ==
    /\ store \in [Blocks -> Values]
    /\ free \subseteq Descs
    /\ next \in [Descs -> Descs \cup {NoDesc}]
    /\ info \in [Descs -> Buffers \cup {NoBuf}]
    /\ request \in [Descs -> [write : BOOLEAN, sector : Blocks \cup {NoBlock}]]
    /\ avail \subseteq Descs
    /\ used \in Seq(Descs)
    /\ irq \in BOOLEAN /\ intr \in BOOLEAN
    /\ disk \subseteq Buffers
    /\ data \in [Buffers -> Values]
    /\ chan \in [Procs -> Channels]
    /\ head \in [Procs -> Descs \cup {NoDesc}]

\* virtio_disk_init with a queue of n descriptors.
DiskInit(n) ==
    /\ store = [b \in Blocks |-> Zero]
    /\ free = 1..n
    /\ next = [d \in Descs |-> NoDesc]
    /\ info = [d \in Descs |-> NoBuf]
    /\ request = [d \in Descs |-> [write |-> FALSE, sector |-> NoBlock]]
    /\ avail = {} /\ used = <<>> /\ irq = FALSE /\ intr = FALSE
    /\ disk = {}
    /\ data = [b \in Buffers |-> Zero]
    /\ chan = [p \in Procs |-> Awake]
    /\ head = [p \in Procs |-> NoDesc]

-----------------------------------------------------------------------------
\* alloc_desc takes the first free descriptor.
First(S) == CHOOSE i \in S : \A j \in S : i <= j

CanAlloc3 == Cardinality(free) >= 3

\* virtio_disk_rw from the allocation to the first sleep.
Submit(p, b, write, sector) ==
    LET i == First(free)
        j == First(free \ {i})
        k == First(free \ {i, j})
    IN
    /\ ~intr /\ chan[p] = Awake /\ CanAlloc3
    /\ free' = free \ {i, j, k}
    /\ next' = [next EXCEPT ![i] = j, ![j] = k, ![k] = NoDesc]
    /\ request' = [request EXCEPT ![i] = [write |-> write, sector |-> sector]]
    /\ disk' = disk \cup {b}
    /\ info' = [info EXCEPT ![i] = b]
    /\ avail' = avail \cup {i}
    /\ head' = [head EXCEPT ![p] = i]
    /\ chan' = [chan EXCEPT ![p] = Done(b)]
    /\ UNCHANGED <<store, used, irq, intr, data>>

\* alloc3_desc fails: free_desc of what it had got wakes the others that wait.
NoDescriptors(p) ==
    /\ ~intr /\ chan[p] = Awake /\ ~CanAlloc3
    /\ chan' = [IF free = {} THEN chan ELSE Wakeup(FreeDesc) EXCEPT ![p] = FreeDesc]
    /\ UNCHANGED <<device, driver, data, head>>

\* Woken, but not by the end of the request.
StillBusy(p, b) ==
    /\ ~intr /\ chan[p] = Awake /\ b \in disk
    /\ chan' = [chan EXCEPT ![p] = Done(b)]
    /\ UNCHANGED <<device, driver, data, head>>

\* free_chain follows the descriptors from the head.
Chain(i) ==
    LET j == next[i] IN
    IF j = NoDesc THEN {i} ELSE IF next[j] = NoDesc THEN {i, j} ELSE {i, j, next[j]}

\* The end of virtio_disk_rw.
Finish(p, b) ==
    LET i == head[p] IN
    /\ ~intr /\ chan[p] = Awake /\ b \notin disk
    /\ info' = [info EXCEPT ![i] = NoBuf]
    /\ free' = free \cup Chain(i)
    /\ next' = [d \in Descs |-> IF d \in Chain(i) THEN NoDesc ELSE next[d]]
    /\ chan' = Wakeup(FreeDesc)
    /\ head' = [head EXCEPT ![p] = NoDesc]
    /\ UNCHANGED <<device, request, intr, disk, data>>

-----------------------------------------------------------------------------
\* The device does the transfer of a request, any one, and raises its interrupt.
Transfer(i) ==
    /\ i \in avail
    /\ IF request[i].write
         THEN /\ store' = [store EXCEPT ![request[i].sector] = data[info[i]]]
              /\ UNCHANGED data
         ELSE /\ data' = [data EXCEPT ![info[i]] = store[request[i].sector]]
              /\ UNCHANGED store
    /\ avail' = avail \ {i}
    /\ used' = Append(used, i)
    /\ irq' = TRUE
    /\ UNCHANGED <<driver, chan, head>>

IntrBegin ==
    /\ irq /\ ~intr
    /\ intr' = TRUE
    /\ irq' = FALSE
    /\ UNCHANGED <<store, avail, used, free, next, info, request, disk, data, chan, head>>

\* A handler that takes one request for each interrupt.
IntrNextOnce ==
    LET b == info[Head(used)] IN
    /\ intr /\ used # <<>>
    /\ intr' = FALSE
    /\ disk' = disk \ {b}
    /\ chan' = Wakeup(Done(b))
    /\ used' = Tail(used)
    /\ UNCHANGED <<store, avail, irq, free, next, info, request, data, head>>

IntrNext ==
    LET b == info[Head(used)] IN
    /\ intr /\ used # <<>>
    /\ disk' = disk \ {b}
    /\ chan' = Wakeup(Done(b))
    /\ used' = Tail(used)
    /\ UNCHANGED <<store, avail, irq, free, next, info, request, intr, data, head>>

IntrEnd ==
    /\ intr /\ used = <<>>
    /\ intr' = FALSE
    /\ UNCHANGED <<device, free, next, info, request, disk, data, chan, head>>

\* kkill makes a sleeping process RUNNABLE, whatever it sleeps on.
Kill(p) ==
    /\ chan[p] # Awake
    /\ chan' = [chan EXCEPT ![p] = Awake]
    /\ UNCHANGED <<device, driver, data, head>>

Machine == (\E i \in Descs : Transfer(i)) \/ IntrBegin \/ IntrNext \/ IntrEnd

-----------------------------------------------------------------------------
(* Consistency of the driver.                                              *)

\* Every descriptor of the queue is free or in the chain of one request; every request
\* is where it should be: with the device, in the used ring, or waiting for its caller.
DescriptorsAreKept(n) ==
    /\ \A p \in Procs : head[p] # NoDesc =>
          /\ Cardinality(Chain(head[p])) = 3
          /\ Chain(head[p]) \cap free = {}
          /\ \A q \in Procs \ {p} :
                head[q] # NoDesc => Chain(head[p]) \cap Chain(head[q]) = {}
    /\ Cardinality(free) + 3 * Cardinality({p \in Procs : head[p] # NoDesc}) = n
    /\ \A i \in Descs : (i \in avail \/ \E k \in DOMAIN used : used[k] = i) <=>
          \E p \in Procs : head[p] = i /\ info[i] \in disk
=============================================================================
