--------------------------------- MODULE Log ---------------------------------
(***************************************************************************)
(* The write-ahead log of xv6 (kernel/log.c), with the part of the buffer  *)
(* cache it relies on (kernel/bio.c: a pinned buffer is not recycled) and  *)
(* a machine that may crash before any write to the disk.                  *)
(*                                                                         *)
(* Grain: one action per critical section under log.lock and per block     *)
(* write, which virtio_disk_rw completes before it returns.                *)
(***************************************************************************)
EXTENDS Integers, Sequences, FiniteSets

CONSTANTS
    Procs,         \* processes that make FS system calls
    Blocks,        \* home blocks
    Values, Zero,  \* contents of a block; Zero is what mkfs wrote
    LogBlocks,     \* LOGBLOCKS
    MaxOpBlocks,   \* MAXOPBLOCKS, reserved by begin_op
    OpBlocks,      \* the blocks that a system call writes at most
    NotCached,     \* no buffer of the cache has the block
    Nobody,        \* the buffer is not locked
    NoBlock        \* the process has no buffer in hand

ASSUME LogAssumption ==
    /\ LogBlocks \in Nat /\ MaxOpBlocks \in Nat \ {0} /\ OpBlocks \in Nat
    /\ OpBlocks <= MaxOpBlocks /\ MaxOpBlocks <= LogBlocks
    /\ Zero \in Values /\ NotCached \notin Values /\ Nobody \notin Procs
    /\ IsFiniteSet(Procs) /\ Procs # {} /\ NoBlock \notin Blocks

VARIABLES
    \* the disk: home blocks, log blocks, and the block numbers of the log header
    home, logdata, header,
    \* struct log
    outstanding, committing, lh,
    \* the buffer cache: data, references held by the log, holder of the sleep-lock
    cache, pins, owner,
    \* each process: next step, block in hand, blocks logged by its call, and tail
    pc, hand, wrote, tail,
    \* the machine: a step of initlog, or "up"
    boot

disk == <<home, logdata, header>>
log == <<outstanding, committing, lh>>
bcache == <<cache, pins, owner>>
procs == <<pc, hand, wrote, tail>>
vars == <<disk, log, bcache, procs, boot>>

\* The process that runs initlog.
FirstProc == CHOOSE p \in Procs : TRUE

InSeq(b, seq) == \E i \in DOMAIN seq : seq[i] = b

TypeOK ==
    /\ home \in [Blocks -> Values]
    /\ logdata \in [1..LogBlocks -> Values]
    /\ header \in Seq(Blocks) /\ Len(header) <= LogBlocks
    /\ outstanding \in Nat
    /\ committing \in BOOLEAN
    /\ lh \in Seq(Blocks) /\ Len(lh) <= LogBlocks
    /\ cache \in [Blocks -> Values \cup {NotCached}]
    /\ pins \in [Blocks -> Nat]
    /\ owner \in [Blocks -> Procs \cup {Nobody}]
    /\ pc \in [Procs -> {"user", "begin", "sleep", "op", "modified", "write_log",
                         "write_head", "install", "erase", "end_commit"}]
    /\ hand \in [Procs -> Blocks \cup {NoBlock}]
    /\ wrote \in [Procs -> SUBSET Blocks]
    /\ tail \in [Procs -> 0..LogBlocks]
    /\ boot \in {"read_head", "install", "erase", "up"}

\* Memory and processes of a machine that has just been switched on.
Off(outs, comm, l, c, p, o, pcs, h, w, t, bt) ==
    /\ outs = 0 /\ comm = FALSE /\ l = <<>>
    /\ c = [b \in Blocks |-> NotCached]
    /\ p = [b \in Blocks |-> 0]
    /\ o = [b \in Blocks |-> Nobody]
    /\ pcs = [q \in Procs |-> "user"]
    /\ h = [q \in Procs |-> NoBlock]
    /\ w = [q \in Procs |-> {}]
    /\ t = [q \in Procs |-> 0]
    /\ bt = "read_head"

\* The disk as mkfs makes it.
Init ==
    /\ home = [b \in Blocks |-> Zero]
    /\ logdata = [i \in 1..LogBlocks |-> Zero]
    /\ header = <<>>
    /\ Off(outstanding, committing, lh, cache, pins, owner, pc, hand, wrote, tail, boot)

\* Power failure or panic: the disk keeps the writes that were completed.
Crash ==
    /\ Off(outstanding', committing', lh', cache', pins', owner', pc', hand', wrote',
           tail', boot')
    /\ UNCHANGED disk

-----------------------------------------------------------------------------
(* initlog, run by the first process before any FS system call.            *)

ReadHead ==
    /\ boot = "read_head"
    /\ lh' = header
    /\ boot' = "install"
    /\ UNCHANGED <<disk, outstanding, committing, bcache, procs>>

\* install_trans(1) and lh.n = 0: one block per step.
RecoverInstall ==
    LET i == tail[FirstProc] + 1 IN
    /\ boot = "install"
    /\ IF i <= Len(lh)
         THEN /\ home' = [home EXCEPT ![lh[i]] = logdata[i]]
              /\ cache' = [cache EXCEPT ![lh[i]] = logdata[i]]
              /\ tail' = [tail EXCEPT ![FirstProc] = i]
              /\ UNCHANGED <<lh, boot>>
         ELSE /\ lh' = <<>>
              /\ tail' = [tail EXCEPT ![FirstProc] = 0]
              /\ boot' = "erase"
              /\ UNCHANGED <<home, cache>>
    /\ UNCHANGED <<logdata, header, outstanding, committing, pins, owner, pc, hand, wrote>>

\* write_head: clear the log.
RecoverErase ==
    /\ boot = "erase"
    /\ header' = lh
    /\ boot' = "up"
    /\ UNCHANGED <<home, logdata, log, bcache, procs>>

-----------------------------------------------------------------------------
(* An FS system call: begin_op, bread and log_write, end_op.               *)

Wakeup == [p \in Procs |-> IF pc[p] = "sleep" THEN "begin" ELSE pc[p]]

Call(p) ==
    /\ boot = "up" /\ pc[p] = "user"
    /\ pc' = [pc EXCEPT ![p] = "begin"]
    /\ UNCHANGED <<disk, log, bcache, hand, wrote, tail, boot>>

\* Mutant: the reservation of the calls in progress is forgotten.
HasRoomNow == Len(lh) + MaxOpBlocks <= LogBlocks

HasRoom == Len(lh) + (outstanding + 1) * MaxOpBlocks <= LogBlocks

BeginOp(p) ==
    /\ pc[p] = "begin"
    /\ ~committing /\ HasRoom
    /\ outstanding' = outstanding + 1
    /\ pc' = [pc EXCEPT ![p] = "op"]
    /\ UNCHANGED <<disk, committing, lh, bcache, hand, wrote, tail, boot>>

BeginSleep(p) ==
    /\ pc[p] = "begin"
    /\ committing \/ ~HasRoom
    /\ pc' = [pc EXCEPT ![p] = "sleep"]
    /\ UNCHANGED <<disk, log, bcache, hand, wrote, tail, boot>>

\* bread a block and change its data under the buffer's sleep-lock.
Modify(p, b, v) ==
    /\ pc[p] = "op"
    /\ Cardinality(wrote[p] \cup {b}) <= OpBlocks
    /\ owner[b] = Nobody
    /\ owner' = [owner EXCEPT ![b] = p]
    /\ cache' = [cache EXCEPT ![b] = v]
    /\ hand' = [hand EXCEPT ![p] = b]
    /\ wrote' = [wrote EXCEPT ![p] = @ \cup {b}]
    /\ pc' = [pc EXCEPT ![p] = "modified"]
    /\ UNCHANGED <<disk, log, pins, tail, boot>>

LogWritePanics(p) == Len(lh) >= LogBlocks \/ outstanding < 1

\* Mutant: the block is logged and its buffer not pinned.
LogWriteUnpinned(p) ==
    /\ pc[p] = "modified"
    /\ ~LogWritePanics(p)
    /\ lh' = IF InSeq(hand[p], lh) THEN lh ELSE Append(lh, hand[p])
    /\ owner' = [owner EXCEPT ![hand[p]] = Nobody]
    /\ hand' = [hand EXCEPT ![p] = NoBlock]
    /\ pc' = [pc EXCEPT ![p] = "op"]
    /\ UNCHANGED <<disk, outstanding, committing, cache, pins, wrote, tail, boot>>

\* log_write and brelse.
LogWrite(p) ==
    /\ pc[p] = "modified"
    /\ ~LogWritePanics(p)
    /\ IF InSeq(hand[p], lh)
         THEN UNCHANGED <<lh, pins>>
         ELSE /\ lh' = Append(lh, hand[p])
              /\ pins' = [pins EXCEPT ![hand[p]] = @ + 1]
    /\ owner' = [owner EXCEPT ![hand[p]] = Nobody]
    /\ hand' = [hand EXCEPT ![p] = NoBlock]
    /\ pc' = [pc EXCEPT ![p] = "op"]
    /\ UNCHANGED <<disk, outstanding, committing, cache, wrote, tail, boot>>

EndOp(p) ==
    /\ pc[p] = "op"
    /\ ~committing                                   \* else panic
    /\ outstanding' = outstanding - 1
    /\ wrote' = [wrote EXCEPT ![p] = {}]
    /\ IF outstanding' = 0
         THEN /\ committing' = TRUE
              /\ pc' = [pc EXCEPT ![p] = IF lh = <<>> THEN "end_commit" ELSE "write_log"]
         ELSE /\ pc' = [Wakeup EXCEPT ![p] = "user"]
              /\ UNCHANGED committing
    /\ UNCHANGED <<disk, lh, bcache, hand, tail, boot>>

-----------------------------------------------------------------------------
(* commit.                                                                 *)

\* write_log: the cached block, which the log has pinned, goes to the log.
WriteLog(p) ==
    /\ pc[p] = "write_log"
    /\ LET from == lh[tail[p] + 1] IN
       logdata' = [logdata EXCEPT ![tail[p] + 1] =
                     IF cache[from] = NotCached THEN home[from] ELSE cache[from]]
    /\ IF tail[p] + 1 < Len(lh)
         THEN tail' = [tail EXCEPT ![p] = @ + 1] /\ UNCHANGED pc
         ELSE /\ tail' = [tail EXCEPT ![p] = 0]
              /\ pc' = [pc EXCEPT ![p] = "write_head"]
    /\ UNCHANGED <<home, header, log, bcache, hand, wrote, boot>>

\* Mutant: the header is written when the blocks are home.
WriteHeadLate(p) ==
    /\ pc[p] = "write_head"
    /\ pc' = [pc EXCEPT ![p] = "install"]
    /\ UNCHANGED <<disk, log, bcache, hand, wrote, tail, boot>>

\* The first write_head: the true point at which the transaction commits.
WriteHead(p) ==
    /\ pc[p] = "write_head"
    /\ header' = lh
    /\ pc' = [pc EXCEPT ![p] = "install"]
    /\ UNCHANGED <<home, logdata, log, bcache, hand, wrote, tail, boot>>

\* install_trans(0); after the last block lh.n is set to 0.
Install(p) ==
    /\ pc[p] = "install"
    /\ LET b == lh[tail[p] + 1] IN
       /\ home' = [home EXCEPT ![b] = logdata[tail[p] + 1]]
       /\ cache' = [cache EXCEPT ![b] = logdata[tail[p] + 1]]
       /\ pins' = [pins EXCEPT ![b] = @ - 1]
    /\ IF tail[p] + 1 < Len(lh)
         THEN tail' = [tail EXCEPT ![p] = @ + 1] /\ UNCHANGED <<lh, pc>>
         ELSE /\ tail' = [tail EXCEPT ![p] = 0]
              /\ lh' = <<>>
              /\ pc' = [pc EXCEPT ![p] = "erase"]
    /\ UNCHANGED <<logdata, header, outstanding, committing, owner, hand, wrote, boot>>

\* Mutant: the transaction is not erased from the log.
EraseNothing(p) ==
    /\ pc[p] = "erase"
    /\ pc' = [pc EXCEPT ![p] = "end_commit"]
    /\ UNCHANGED <<disk, log, bcache, hand, wrote, tail, boot>>

\* The second write_head.
Erase(p) ==
    /\ pc[p] = "erase"
    /\ header' = lh
    /\ pc' = [pc EXCEPT ![p] = "end_commit"]
    /\ UNCHANGED <<home, logdata, log, bcache, hand, wrote, tail, boot>>

EndCommit(p) ==
    /\ pc[p] = "end_commit"
    /\ committing' = FALSE
    /\ pc' = [Wakeup EXCEPT ![p] = "user"]
    /\ UNCHANGED <<disk, outstanding, lh, bcache, hand, wrote, tail, boot>>

-----------------------------------------------------------------------------
(* The buffer cache: bread fills a buffer, bget recycles one that nobody   *)
(* references and forgets what it held.                                    *)

Read(b) ==
    /\ boot = "up"
    /\ cache[b] = NotCached
    /\ cache' = [cache EXCEPT ![b] = home[b]]
    /\ UNCHANGED <<disk, log, pins, owner, procs, boot>>

Recycle(b) ==
    /\ cache[b] # NotCached
    /\ pins[b] = 0 /\ owner[b] = Nobody
    /\ cache' = [cache EXCEPT ![b] = NotCached]
    /\ UNCHANGED <<disk, log, pins, owner, procs, boot>>

-----------------------------------------------------------------------------
\* What a process does in the kernel without being asked again.
Kernel(p) ==
    \/ BeginOp(p)
    \/ BeginSleep(p)
    \/ LogWrite(p)
    \/ EndOp(p)
    \/ WriteLog(p)
    \/ WriteHead(p)
    \/ Install(p)
    \/ Erase(p)
    \/ EndCommit(p)

Next ==
    \/ ReadHead \/ RecoverInstall \/ RecoverErase
    \/ \E p \in Procs : Kernel(p) \/ Call(p)
    \/ \E p \in Procs : \E b \in Blocks : \E v \in Values : Modify(p, b, v)
    \/ \E b \in Blocks : Read(b) \/ Recycle(b)
    \/ Crash

Spec == Init /\ [][Next]_vars

-----------------------------------------------------------------------------
\* The reservation of begin_op is enough: log_write finds room for one more block
\* and an open transaction, so neither of its panics is reached.
LogWriteNeverPanics == \A p \in Procs : pc[p] = "modified" => ~LogWritePanics(p)

\* While a commit runs no system call is between begin_op and end_op, so that the
\* panic of end_op is not reached and write_log copies finished calls only.
CommitExcludesCalls ==
    /\ outstanding = Cardinality({p \in Procs : pc[p] \in {"op", "modified"}})
    /\ committing => outstanding = 0
    /\ Cardinality({p \in Procs : pc[p] \in {"write_log", "write_head", "install",
                                             "erase", "end_commit"}})
         = IF committing THEN 1 ELSE 0

\* A change that is not home yet is in a buffer that the cache may not recycle,
\* and every pin is owed to one entry of the log that will give it back.
DirtyIsPinned ==
    boot = "up" => \A b \in Blocks :
        /\ cache[b] \notin {NotCached, home[b]} => pins[b] = 1 \/ owner[b] # Nobody
        /\ pins[b] <= 1
        /\ lh = <<>> => pins[b] = 0

\* begin_op sleeps only while some other process is there that will wake it.
SleeperHasWaker == \A p \in Procs : pc[p] = "sleep" => outstanding > 0 \/ committing

\* The counters of the log say what the calls, the commit and the cache do: no panic
\* of log.c is reached, no block that log.lh names can be lost, and no sleeper is forgotten.
LogConsistent ==
    /\ LogWriteNeverPanics
    /\ CommitExcludesCalls
    /\ DirtyIsPinned
    /\ SleeperHasWaker

Logical == [b \in Blocks |-> IF cache[b] = NotCached THEN home[b] ELSE cache[b]]

\* What recovery would make of the disk as it is now.
Recovered ==
    [b \in Blocks |-> IF InSeq(b, header)
                        THEN logdata[CHOOSE i \in DOMAIN header : header[i] = b]
                        ELSE home[b]]

\* When the last end_op returns, what the calls wrote is on the disk, at home,
\* and the log is empty.
EndOpIsDurable ==
    [][\A p \in Procs : pc[p] = "end_commit" /\ pc'[p] = "user" /\ boot' = "up" =>
          home = Logical /\ header = <<>>]_vars

Promise == INSTANCE AtomicDisk WITH
    mem <- IF boot = "up" THEN Logical ELSE Recovered,
    committed <- Recovered,
    active <- {p \in Procs : pc[p] \in {"op", "modified"}}

\* The log makes FS system calls atomic with respect to crashes.
ImplementsAtomicDisk == Promise!Spec
=============================================================================
