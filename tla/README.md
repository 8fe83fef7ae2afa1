# A verification project for coms352

The repository holds course work on operating systems: three copies of the xv6
teaching kernel for RISC-V at successive stages (`p1a`, `p1b`, `p1c`) and two
versions of a multi-threaded journaling layer (`p2`, `p2attempt2`; `p2attempt2 2`
is an identical copy of the latter). The modules here model the parts of it in
which threads, processors, crashes and failures meet; TLC checks them on small
instances and TLAPS proves what is marked as proved below for all instances.
Paths are relative to `src/coms352/`; `kernel/` is `p1c/xv6-riscv/kernel/`.

## 1. Inventory

| Part | State | Operations | Talks to | What is hard about it | What makes it correct |
|---|---|---|---|---|---|
| Journal, `p2/journal.c` | request slots (`in_use`, four flags of the first stage, `pending_io`, `checkpoint_done`, three semaphores), three buffers | `request_write`, `journal_wait_for_all`, three worker threads, seven completion handlers | block layer (calls, callbacks from its threads), callers (`write_complete`) | handlers run late and in any order, a slot is used again as soon as it is free, one condition variable for two conditions | write-ahead order, a free slot is out of reach of every handler, exact counters, every call returns |
| Circular buffer, in both `journal.c` | cells, `in`, `out`, `count`, mutex, two semaphores | `init_buffer`, `circ_buffer_add`, `circ_buffer_remove` | the workers and callers | permits are held outside the mutex | a bounded FIFO |
| Block layer stub, `block_service.c` | `first_txe` | `issue_*` | handlers of the journal | completes in the caller or later in a thread | – (environment) |
| Journal, `p2attempt2` | one semaphore per stage, nothing per write | as above, without completion flags | as above | a post does not say whose completion it is; thread creation may fail | a worker takes only posts of the write in its hand; nothing is lost when `main` returns |
| Log, `kernel/log.c` | header and blocks on disk, `outstanding`, `committing`, `lh` | `begin_op`, `log_write`, `end_op`, `commit`, `initlog` | buffer cache, disk, every file system call | concurrent calls share a transaction; power may fail at any write, also in recovery | calls are atomic with respect to crashes; no panic for lack of room |
| Buffer cache, `kernel/bio.c` | LRU list of `NBUF` buffers, `refcnt`, sleep-locks | `bread`, `bwrite`, `brelse`, `bpin`, `bunpin` | log, disk driver | a buffer is found before it is locked and let go of in two steps; recycling; as many buffers as log blocks | one content per block, in one process's hands; a changed and pinned buffer stays |
| Schedulers, `kernel/proc.c` | process table, `c->proc`, nice values, queue levels, `ticks` | `scheduler`, `scheduler_rrsp`, `scheduler_mlfq`, `yield`, `sys_nice` | interrupts, every process | several processors scan one table; interrupts change it during a scan | nobody runs twice or is lost, priorities and turns are kept, no stop with work to do |
| Process life cycle, `kernel/proc.c`, `kernel/trap.c` | `state`, `pid`, `parent`, `killed`, `wait_lock` | `kfork`, `kexit`, `kwait`, `kkill`, `sleep`, `wakeup`, `reparent` | traps, schedulers | wakeups between a check and a sleep, slots and pids used again, orphans | the tree of processes, no lost wakeup, a kill reaches whom it names |
| Locks, `kernel/spinlock.c`, `kernel/sleeplock.c` | holder, nesting of `push_off` | acquire, release | everything | interrupts, deadlock by order | exclusion |
| Inodes and directories, `kernel/fs.c` | inode table, `ref`, `nlink`, directories, bitmap | `iget`, `ilock`, `iput`, `ialloc`, `dirlink`, `namex`, `ireclaim`, `balloc` | log, buffer cache, file system calls | the last `iput` against a lookup or an allocation; two locks; failures after a change | table and disk agree; a name leads to an inode that counts it; no deadlock |
| Open files and pipes, `kernel/file.c`, `kernel/pipe.c` | `ftable`, `ref`, ring of bytes | `filedup`, `fileclose`, `pipewrite`, `piperead` | inodes, processes | close against read and write, two sleep channels | no byte lost, nobody sleeps for ever on a closed end |
| Disk driver, `kernel/virtio_disk.c` | descriptors, rings | `virtio_disk_rw`, interrupt | buffer cache, device | completion before sleep, three descriptors per request | every request completes, descriptors come back |
| Console and UART, `kernel/console.c`, `kernel/uart.c` | input ring with three indices, `tx_busy` | `consoleintr`, `consoleread`, `consolewrite`, `uartwrite`, `uartintr` | UART, interrupts, processes | one interrupt for two causes, echoes that bypass the lock, indices that wrap | what is typed is read once, in order and by lines; every write returns and appears in order |
| Memory, `kernel/kalloc.c`, `kernel/vm.c`, `kernel/exec.c` | free list, page tables, `p->sz`, the pages a call has in hand | `kalloc`, `kfree`, `mappages`, `uvmalloc`, `uvmcopy`, `vmfault`, `growproc`, `sys_sbrk`, `kexec` | fork, exit, wait, traps, every system call that copies | memory may run out at any page; pages that come at the first touch; undoing by four functions | a page has one owner; a call that fails leaves no trace |

The rest (boot, assembly, string functions, user library, shell, utilities, test
programs) is sequential or plain input and output and is not modelled; `p1a` is the
unmodified kernel and `p1b` adds `nice` and logging of the scheduler to it, both of
which `p1c` contains. `PROJECT.json` has the list with the reasons.

## 2. Modules

| Module | What it is |
|---|---|
| `JournalSpec` | What a journaling layer promises: writes complete in the order of their requests, and the blocks of a write reach the disk stage by stage. |
| `Journal`, `MCJournal` | `p2`: implements `JournalSpec`. |
| `JournalSemaphore`, `MCJournalSemaphore` | `p2attempt2`: implements `JournalSpec` too. |
| `BoundedQueue` | A FIFO of bounded size: what `Journal` and `JournalSemaphore` use for their buffers. |
| `RingBuffer`, `MCRingBuffer` | The circular buffer: implements `BoundedQueue`. |
| `AtomicDisk` | System calls that are all or nothing with respect to crashes. |
| `Log`, `MCLog` | `kernel/log.c` with what it needs of `kernel/bio.c`: implements `AtomicDisk`. |
| `Processes` | What the three schedulers share: table, processor, `yield`, `sys_nice`, sleep and wakeup. |
| `Schedulers`, `MCSchedulers` | The loops of the three schedulers, on top of `Processes`. |
| `ProcessTree` | What fork, exit and wait promise in terms of process ids. |
| `LifeCycle`, `MCLifeCycle` | `kfork` to `kkill` on a table of slots: implements `ProcessTree`. |
| `BlockCache` | What a buffer cache promises: a block has one content, held by one process at a time; what is written is on the disk. |
| `VirtioDisk` | `kernel/virtio_disk.c` and its device: descriptors, requests, the used ring and the interrupt. |
| `BufferCache`, `MCBufferCache` | `kernel/bio.c` with `kernel/sleeplock.c`, on top of `VirtioDisk`: implements `BlockCache`. |
| `ByteStream` | What pipes promise: bytes in order, kept while an end is open. |
| `OpenFiles` | `kernel/file.c` and the descriptors of processes. |
| `Pipe`, `MCPipe` | `kernel/pipe.c`, on top of `OpenFiles`: implements `ByteStream`. |
| `Inodes`, `MCInodes` | The inode layer and path names of `kernel/fs.c` under the calls of `kernel/sysfile.c` that create, link, unlink and close. |
| `Terminal` | What a terminal promises: a line can be edited until it ends, is read once and in order; output appears in order. |
| `Console`, `MCConsole` | `kernel/console.c` and `kernel/uart.c` over a UART: implements `Terminal`. |
| `AddressSpaces` | What fork, exec, sbrk and memory mean to a process: pages of its own, whole calls, `sbrk` to the size asked for or none. |
| `Memory`, `MCMemory` | `kernel/kalloc.c`, `kernel/vm.c` and `kernel/exec.c` with the memory side of fork, sbrk, exit and wait: implements `AddressSpaces`. |
| `JournalProofs` | Theorems about `Journal`: its types, its slots, and that it implements `JournalSpec`; and about `RingBuffer`: its types, and that it implements `BoundedQueue`. |
| `JournalSemaphoreProofs` | Theorems about `JournalSemaphore`: what holds when main returns, and that it implements `JournalSpec`. |
| `BufferCacheProofs` | Theorems about `BufferCache` and `VirtioDisk`: their consistency, and that they implement `BlockCache`. |
| `LogProofs` | Theorems about `Log`: its invariants, and that it implements `AtomicDisk`. |
| `PipeProofs` | Theorems about `Pipe` and `OpenFiles`: that files and pipes agree, that nobody sleeps for nothing, and that pipes implement `ByteStream`. |
| `ProcessesProofs` | Theorems about the processes of `kernel/proc.c`: about `Schedulers`, and about `LifeCycle`. |
| `MemoryProofs` | Theorems about `Memory`: that every page has one owner. |
| `InodesProofs` | Theorems about `Inodes`: that the table agrees with the disk and links with names, and that no assertion fails. |

How state and actions correspond to the code:

* **Journal.** `in_use`, `complete` (the set of flags that are set), `pending_io`,
  `checkpoint_done` and `wait` are the fields of a request; `handler[id][op]` is where
  the completion handler of an operation is (a handler is three actions: the flag,
  the post, the decrement, because `state_mutex` is released in between); `wpc`,
  `wid`, `wop` are the program counter and locals of a worker; `cpc`, `todo` those of
  a caller. An action is a critical section under `state_mutex`, an operation on a
  semaphore or an operation on a buffer. `pthread_cond_signal` wakes one waiter, any
  one, and `SpuriousWakeup` wakes one without reason. `DelayedOps` are the operations
  that the block layer always completes from a thread of its own; with the empty set
  only the first TXE is late, as in `block_service.c`.
* **RingBuffer.** Every statement of `circ_buffer_add` and `circ_buffer_remove` that
  touches shared state is an action of its own.
* **JournalSemaphore.** `sem[s]` is the semaphore of a stage, `failing` says which
  `pthread_create` fail in the execution (workers that do not exist, first TXE that
  never completes). `done` is a history variable.
* **Log.** `home`, `logdata`, `header` are the disk and survive `Crash`, which may come
  before any write. `cache` is what a buffer holds or `NotCached`, `pins` the
  references of the log, `owner` the holder of the sleep-lock. `Recycle` forgets any
  buffer that nobody references. `Read` and `Modify` stand for `bread` and the changes
  that a file system call makes.
* **Schedulers.** `cpc[c]` says in which loop the scheduler of a CPU is, `idx[c]` which
  slot comes next, `want[c]` the priority or queue it looks for, `intr[c]` whether
  interrupts are enabled. Switching to a process and back happens with its `p->lock`
  held and is one action. `overtook` and `eligible` are history variables.
* **LifeCycle.** `procstate` (`state`), `pid`, `parent`, `killed` are the fields of `struct proc`;
  RUNNABLE stands for RUNNABLE and RUNNING. `pc` is where a process is in a system
  call, `np` the child that `kfork` has in hand. `allocproc` changes nothing until it is at
  the last slot that it looks at, so that its scan and what follows are one action: any
  slot that is UNUSED at that moment may be the one, since those that were passed may
  have become free behind the scan; and it fails if the last slot is not. What `kexit` does between acquiring
  `wait_lock` and its last switch is one action, since nobody sees it half done; the
  scan of `kwait` is one action, and its test of `killed` and its sleep are two more,
  with `wait_lock` held: a kill fits between them. `asked` and `missed` are history
  variables.
* **VirtioDisk, BufferCache.** `free`, `info`, `used` and `disk` are the free
  descriptors, the table of requests, the used ring and `b->disk`; the device
  (external) finishes any request that was submitted, in any order, one action per
  request, and the handler is an action for the acknowledgement, one per entry of the
  used ring and one for its end. `chan[p]` is what a process sleeps on; a sleep and a
  wakeup are one step each, as `p->lock` makes them. `lru` is the list from most to
  least recently used, `owner` the sleep-lock of a buffer, `cur` and `held` what a
  process is about to get and has. An action is a critical section under
  `bcache.lock`, the sleep-lock's own spin-lock, or `vdisk_lock`.
* **OpenFiles, Pipe.** `ref`, `type`, `writable`, `pipe` are `struct file`, `ofile` the
  descriptors; `temp`, `closing`, `ending` are locals: the files that `sys_pipe` has and
  has not installed, those that are to be closed, and the copy with which `fileclose`
  goes on after `ftable.lock`. `pipewrite` and `piperead` go byte by byte with
  `pi->lock` held (`lock`), so that a close, a kill or the other end can come wherever
  they sleep. The loop of `kexit` over the descriptors is one action for each.
* **Inodes.** `dinode` is the disk with directory entries as a function from names,
  `inode` the table (`ref`, `inum`, `valid`, `type`, `nlink`), `lock` the sleep-locks.
  `pc` is where a call is, `ip`, `dp`, `path` its locals; `puts` are the inodes it has
  to `iput` before it goes on, and `freeing` is how far `iput` is in freeing one: an
  `iput` is up to four actions, with `itable.lock` given up between them. `Crash` loses
  the memory, and the boot after it runs `ireclaim`. `ialloc` looks at one inode of the disk
  per action, so that inodes become free behind it. A call is one transaction of the
  log, so that a crash in the middle of a call leaves nothing of it: `Crash` comes
  between calls.
* **Console.** `buf`, `r`, `w`, `e` and `lock` are `cons`; the interrupt handler holds
  the lock while it echoes and waits for the UART (`hpc`, `char`, `echo`). What is done
  under `tx_lock` is one step. The UART (external) has a FIFO in each direction
  (`rx`, `tx`); `thre` is its "transmitter empty" interrupt, which a read of ISR
  acknowledges and a write to THR withdraws. `got`, `offered`, `shown`, `missed` are
  history variables.
* **Memory.** `free` is `kmem.freelist`, as a set: pages are alike, and `kalloc` gives the
  one with the least number. `table` has for each process its page table and the one
  that `kexec` or `allocproc` builds: root, page-table pages (`node`, found along `Path`)
  and leaves (`pte`). A call is a loop over virtual pages (`job`), one action per
  `kalloc`; `mem` is the page between `kalloc` and `mappages`, `argv` the pages of
  `sys_exec`. The `kfree`s of one call are one action: between them there is nothing but
  more free memory for others. A copy by the kernel into memory that was not touched is
  a `Fault` and a `Write`. `panic` is set where `mappages`, `loadseg` or `freewalk` would
  panic. The files that `kexec` reads are the segments of the workload; any read may fail.

## 3. What is checked

Every property of a passing run has a mutant in `PROJECT.json`: a changed form of one
action, in the same module, under which TLC finds the property violated.

| Run | Instance | What it shows |
|---|---|---|
| `journal` | 2 slots, buffers of 1, requests 0, 1, 2 (out of range), 0, operations of every stage late | types; `PendingIsExact`, `FreeSlotIsQuiet`; `CallersReturn`; `ImplementsPromise` |
| `ring` | 2 producers with 2 items, 2 consumers, 2 cells | `ImplementsQueue`, `Drained` |
| `semaphore` | 3 requests, buffers of 1, late operations, any thread may fail | types; `NothingLostAtExit`; `ImplementsPromise`, `MainReturnsIfCreated` |
| `log` | 2 processes, 4 blocks, 2 values, a log of 4 with 2 reserved per call | types; `LogConsistent` (the reservation is enough, a commit excludes calls, a changed block is pinned, a sleeper has a waker); `EndOpIsDurable`, `ImplementsAtomicDisk` |
| `schedulers` | round robin on 1 and 2 CPUs, strict priority and feedback queues on 1 CPU, 3 processes (2 with nice in the queues) | types; `RunsOnOneCPU`; `RankWithinPass`, `EqualsTakeTurns`; `TopRankRuns` |
| `life_cycle` | 3 slots with pause, kill, fault and failing calls, 4 slots with fork, exit and wait only; 4 pids | types; `EverybodyHasParent`, `SleeperHasNoZombie`; `ImplementsProcessTree`, `OrphansAreReaped`, `KilledExits` |
| `buffer_cache` | one process with 2 buffers for 3 blocks; two processes, 3 buffers and 7 descriptors; three processes with one chain of descriptors and a kill | `CacheConsistent` (types, exact references, one buffer per block, descriptors come back, never out of buffers); `ImplementsBlockCache`; `CallsReturn` |
| `pipe` | a reader and a writer with counters that wrap; two writers and a reader with a kill; processes that create, inherit, duplicate and close ends with too few files, pages and descriptors | `FilesConsistent` (types, exact references, an end is open while a file or a closer has it), `SleepersHaveReason`; `PipesDeliver`; `EndIsSeen` |
| `inodes` | two processes on files with two names and a crash; two on directories and what is in them, on a disk that may be full; a link on such a disk beside create and unlink of the same file | `TableAgrees` (types, exact references, one entry per inode, cached equals disk), `LinksAgree` (never a link too few), `AssertionsHold` (`ilock`, `unlink`, `iput`); `LinksGoBack` (no step leaves a link too many); `CallsReturn` (with all that the call has to put) |
| `console` | two readers of input that is erased, ends the file or fills the buffer; a reader and a writer with a kill and bad memory; line kill, keys that store nothing and reads of no byte; two writers while input is echoed | `ImplementsTerminal`; `CallsReturn` |
| `memory` | two processes on 10 to 24 pages: one that grows, shrinks and forks, with and without exec; two that execute at once; a program of two segments with arguments | `MemoryConsistent` (types, every page free or with one owner, no panic of `mappages`, `loadseg` or `freewalk`, a free slot has no memory); `ImplementsAddressSpaces` |

One run ends in a counterexample, which shows that the code does not do what the
repository says of it:

| Run | Code | What it says |
|---|---|---|
| `journal_lost_wakeup` | `p2/journal.c:94` | One `pthread_cond_signal` for waiters with different conditions: with two callers, a `request_write` may sleep on a free slot for ever. (The `main` of `p2` has one caller and does not reach this.) |

### Other divergences, seen in the models and not the subject of a run

* `kernel/proc.c:595`: Rule 1 of `p1c/xv6-riscv/README:12` does not hold during a pass of
  `scheduler_rrsp`, which computes the highest priority once; `RankWithinPass` is what
  does hold.
* `kernel/proc.c:643`: `scheduler_mlfq` boosts only when nothing is RUNNABLE, against
  `p1c/xv6-riscv/README:42` (every 60 ticks).
* `kernel/proc.c:685-693`: after a process went to sleep, the next descent of
  `scheduler_mlfq` runs with interrupts enabled, and the CPU may execute `wfi` with a
  RUNNABLE process, against the comment at 690; the next interrupt ends it.
* `kernel/proc.c:484`: `p->nice + inc` overflows before it is brought within bounds.
* `kernel/proc.c:847`: `kill(0)` marks a free slot, whose next process is born killed:
  `LifeCycle` with 0 in `KillArgs`. `kernel/proc.c:441`, `kernel/console.c:96`: a kill
  between the test of `killed` and the sleep is missed until the next wakeup.
* `kernel/pipe.c:86`: a `pipewrite` that finds its process killed returns without a wakeup
  of the readers of what it has written.
* `kernel/pipe.c:123`, `kernel/console.c:116`: a byte whose `copyout` fails is lost.
* `kernel/fs.c:361`: `iput` frees an inode, releases its sleep-lock and only then takes
  `itable.lock` to give up its reference. Another process may in between allocate the
  same inode, link, open, close and unlink it; none of its `iput`s sees the last
  reference, and the first `iput` drops it without a test: the inode stays allocated
  without a name until the next boot, against the comment at `kernel/fs.c:333`. `Inodes`
  has the behaviour with two processes that create, close and unlink the same file.
* `kernel/sysproc.c:60`: a lazy `sbrk` has no upper bound. Once `p->sz` is past `TRAPFRAME`,
  `uvmcopy` maps the trapframe onto that of the child (panic `mappages: remap`), a
  shrink frees it, and past `MAXVA` `uvmunmap` ends in the panic of `walk`. `Memory` keeps
  sizes below `MaxSize`, the first page of the trapframe.
* `kernel/vm.c:418`: `copyinstr` does not call `vmfault` as `copyin` and `copyout` do: a
  string in a page that was given lazily and never touched is a bad address.
* `kernel/fs.c:342`, `kernel/sysfile.c:254`: a directory that was removed and is still
  somebody's working directory can get new entries, which nobody can reach and
  which keep their inodes allocated; and its `..` holds no reference, so that `..` may
  lead to a free inode and end in the panic of `ilock`. The workloads of `inodes` have
  the first (the properties allow it) and not the second.
* `kernel/log.c:221`: the room in the log is tested before absorption, so that calls which
  use all of their reservation may panic on a second write of a logged block.
* `kernel/param.h`: `NBUF` equals `LOGBLOCKS` and `NINODE` (50) is smaller than `NFILE`:
  only workloads that do not use all of either are safe from the panics of `bget` and
  `iget`.

### Bounds, and why they are enough

* *Journal.* A slot that is requested twice and buffers smaller than the number of
  writes make every thread wait for every other; two slots are the least with which a
  handler of one write can meet another write. With a second caller the signal of a
  freed slot can go to the wrong one: that is the run `journal_lost_wakeup`, and why
  `CallersReturn` is checked with one caller only.
* *RingBuffer.* Two threads on each side and as many cells: the ring can be full and
  empty, the indices wrap, and two threads can be between permit and mutex.
* *JournalSemaphore.* Three writes fill the pipeline, one in each stage.
* *Log.* `LOGBLOCKS = 2 * MAXOPBLOCKS` lets two calls in and not a third reservation.
  A call writes `OpBlocks = 1` block, fewer than the `MAXOPBLOCKS = 2` it reserves:
  `log_write` tests the room before it looks whether the block is in the log already
  (`kernel/log.c:221`), so that calls which used all of their reservation could panic
  on a second write of the same block. Two values distinguish old from new.
* *Schedulers.* Three processes are the least with which one can be overtaken twice by
  another of the same rank while a third runs; nice takes the two bounds and one
  value between them, one in each queue. `BoostTicks = 1` and `Quantum = 2` instead of
  60 and 10: the properties do not depend on how long a boost is away. `IntMax = 127`
  is a smaller `int`; the wrap is by `2 * (IntMax + 1)`.
* *LifeCycle.* A zombie whose parent exits is the child of a process that must
  be told apart from the parent of the one that exits and from init, hence four
  generations in the second workload. `MaxPid` bounds the forks: in the first workload
  some slot is used twice. `KillArgs` leaves out pid 1, since `kexit` of init is
  a panic by design, and pid 0, the pid of the slots that nobody uses.
* *BufferCache.* Fewer buffers than blocks make the cache recycle; `Num = 7` descriptors
  are two chains and one left over, so that a third request fails in the middle of
  `alloc3_desc`; `Num = 4` is one chain and one left over. A process holds `MaxHeld = 1`
  buffer and pins one: two of each would need a second buffer per process only.
* *Pipe.* `PIPESIZE = 2` and counters modulo `IdxMod = 4`: a pipe is empty, full and
  neither, and writes of 3 bytes do not fit. The ratio of both is a power of two as
  512 to 2^32 is. Three descriptors and three files for pipes that need two each.
* *Inodes.* Two processes, three inodes, two names, `NINODE = 6`: more than inodes on the
  disk, so that `iget` finds room; that it does is not a property of xv6 (below). In each workload a
  process makes up to three calls and the other up to two out of a set of calls to the
  same names. Depth of paths is at most two.
* *Console.* A buffer of 3 with indices modulo 6 that start at 5: a line ends, is erased,
  fills the buffer and wraps. Writes of 3 with `ChunkSize = 2` are two chunks.

* *Memory.* `PageSize = 2` tells sizes that end in a page from those that do not; five
  user pages lie under two page-table pages, those of the trampoline under a third (two
  levels instead of three). `Path` puts trampoline and trapframe under one, as in the
  code. The physical memories are chosen so that a second process runs out after any of
  its pages. Calls are counted (3 in each workload) and sizes end at `MaxSize`. The exec
  of `/init` at boot does not fail, since `forkret` panics then by design.

### Fairness

* Threads of the journals: weak fairness per worker, caller, handler and late
  operation: the machine has a fair scheduler, and the disk answers. Spurious wakeups
  are allowed and not required. Semaphores and mutexes need no fairness of their own
  beyond it, and the properties do not use any.
* Schedulers: weak fairness of the scheduler of every CPU and of timer interrupts: a
  process that runs is interrupted sooner or later (`start.c` sets the timer).
* LifeCycle: strong fairness for what a process does in the kernel: it may find
  `wait_lock` taken again and again and gets it in the end. Weak fairness of timer
  interrupts and traps, and of init, whose program is a loop of system calls
  (`user/init.c`). Nothing forces any other process to make a call.
* BufferCache, Pipe, Inodes, Console: weak fairness of what a process does in the
  kernel, of the transfers of the disk, of the UART and of interrupt handlers. A lock
  that is wanted by several is free between any two of a bounded number of calls, so
  that weak fairness is enough. Nothing forces a process to make a call, and nothing is
  typed unless somebody does.
* Memory: no fairness; every call is a loop that ends. Log: no liveness is checked. `begin_op` does not promise that a call gets in while
  others come and go; `SleeperHasWaker`, a part of `LogConsistent`, says that somebody is there to wake it.

## 4. What is proved

For every value of the constants, from the assumptions named in the modules
(`ConstantsAssumption` of `Journal` and of `JournalSemaphore`, `RingAssumption`, `LogAssumption`,
`LifeCycleAssumption`, `ProcessesAssumption`, `SchedulersAssumption`, `DiskAssumption`,
`CacheAssumption`, `FilesAssumption`, `PipeAssumption`, `MemoryAssumption` and
`InodesAssumption`); further hypotheses are named with the theorem:

* `JournalProofs!TypeCorrect`: `Spec => []TypeOK` for any number of slots, callers,
  scripts, buffer size and behaviour of the disk. `TypeOK` is not inductive: that a
  caller at its request has a request left (`ScriptsOK`) and that a worker has an id in
  hand except at its buffer and an operation of its own stage (`WorkersOK`) belong to
  it. `pending_io` stays a natural number because the decrement is guarded (`p2/journal.c:328`).
* `JournalProofs!CountersAreExact`, `FreeSlotsAreQuiet`: `Spec => []PendingIsExact`,
  `[]FreeSlotIsQuiet`, for the same constants. The inductive invariant is `SlotsExact`:
  - `OnePlace`: an id is in one place at most: with the caller that claimed its slot,
    in one cell of one buffer, or in the hand of one worker. Without it two workers
    could count for the same slot.
  - `SlotsInUse`: an id that is in one of these places has its slot in use and not
    checkpointed, so `try_free_slot_if_done_locked` cannot free it; and a free slot
    counts nothing.
  - `NotYetIssued`: the operations a write has still to issue have no handler yet. The
    operations are numbered in the order in which the workers issue them, so each is
    issued once for each use of the slot and a handler is never counted twice.
  - `PendingIsExact` itself. It is inductive only with the other three, and
    `FreeSlotIsQuiet` follows: a free slot counts nothing, and the count is exact.
* `JournalProofs!JournalKeepsPromise`: `Spec => ImplementsPromise` for the same
  constants. On top of `SlotsExact` the invariant `StagesInOrder` says what is complete from
  where a write is: all operations of the stages behind it (`Done`), none of those before
  it (`Fresh`), and at the stage of a worker (`Going`) those whose handler has set its flag;
  the semaphore of the stage stands at one when the last of them has posted and at zero
  otherwise. So no post is left for the next write in the slot, and `Wait` lets a worker
  pass only when its stage is complete. The claim of a slot, the setting of a flag by the handler
  (`PersistStep`), the end of `request_write` (`SubmitStep`) and `write_complete` (`CompleteStep`)
  use it; `Line` and its lemmas carry a write from buffer to hand to buffer.
* `JournalSemaphoreProofs!NothingIsLostAtExit`: `Spec => []NothingLostAtExit` for any number
  of writes, size of the buffers, late operations and failures of `pthread_create`.
  The writes are numbered and keep their order, so the inductive invariant says where
  they are by numbers (`B1`, `H1`, ..., `H3`, counted back from `next`):
  - `InLine`: every buffer and hand has consecutive numbers, from the write reported last.
  - `Between`: a write in a buffer has exactly the blocks of the stages behind it on
    disk and none on its way.
  - `Midway`: while a worker issues and waits, the posts of its semaphore and the blocks
    of its stage that are not on disk add up to what it has still to wait for. So the last
    post it takes is that of the last block, its semaphore is then at zero, and the next
    write finds no post of this one: what the code has no test for.
  - `LastIsReported`: when main has returned, `H3 = Requests`; with `InLine` this leaves
    no room for a write anywhere.
* `JournalSemaphoreProofs!SemaphoresKeepThePromise`: `Spec => ImplementsPromise`. The
  writes outstanding are the numbers from `H3` to `next` (`QueuedHolds`); a request, a
  block on disk and `write_complete` are the three actions of `JournalSpec`.
* `BufferCacheProofs!CacheStaysConsistent`: `Spec => []CacheConsistent` for any processes,
  buffers, blocks, descriptors and workloads with at least `MaxHeld` buffers for each
  process that calls and one for each pin. The inductive invariant:
  - `OneBuffer`, `Counted`, `Hands`: a block is in one buffer, `refcnt` counts the
    processes that have the buffer in hand and the pin, and the sleep-lock is with the
    process that holds it or reads it.
  - `LoadFits`, `Room`: no process has more than `MaxHeld` buffers, so that one is free when `bget`
    looks for one: the panic `bget: no buffers` is out of reach.
  - `Requests`, `Chains`: the request of a process in the driver says what it asked for;
    the chains of three descriptors are disjoint and add up with the free ones.
  - `Rings`: a request is with the device or in the used ring, once, as long as `b->disk`
    is set, so that the handler wakes the right process and a chain is freed once.
* `BufferCacheProofs!CacheImplementsBlockCache`: `Spec => ImplementsBlockCache`. The content of a
  block (`View`) is its buffer's if that is valid and the disk's otherwise; recycling the
  buffer of a block that nobody holds or pins is the only step that may forget a change
  (`Forget`). A lemma for each action says which step of `BlockCache` it is, or that it is
  none (`Kept`).
* `PipeProofs!FilesAndPipesAgree`: `Spec => []FilesConsistent` for any number of
  processes, descriptors, files and pages, any size of a pipe, any width of its counters
  that the size divides, and any workload. The inductive invariant is `IInv`:
  - `Counted`, `Kinds`: `ref` is the number of descriptors and hands that have the file; a
    descriptor is of a pipe end, and a file that `sys_pipe` is filling in has one
    reference and no type yet. So `fileclose` on the failure path frees the file without closing a
    pipe, although its `pipe` field still names that of its last user.
  - `Ends`: an end is open as long as one file or one `fileclose` between its two locks
    has it, and never two. So `pipeclose` frees the page with the second end,
    once, in whatever order the two closers come.
  - `InPipe`: a process inside a pipe has a descriptor of the end it uses, so the page
    stays while it sleeps.
  - `Filled`: the distance of the counters, modulo their width, is at most `PIPESIZE`;
    `Circle` has the arithmetic of counters that wrap.
* `PipeProofs!NobodySleepsForNothing`: `Spec => []SleepersHaveReason`. Two more invariants:
  `Locked`, that the process with `pi->lock` is the one inside and what it has found
  out (empty, full, the other end open) still holds; and `Asleep`, that a reader that
  sleeps on a pipe with bytes has a writer inside that will wake it up, or somebody has been killed,
  and a writer that sleeps on a pipe with room has a reader inside. `WithinPipe`
  reduces a step inside a pipe to that pipe and its process, `OutsideStep` is for all others.
* `PipeProofs!PipesAreStreams`: `Spec => PipesDeliver`. The bytes under way (`UnderWay`) are
  the places from `nread` on; a byte is put behind them at a place that none of them has
  (`PlacesDiffer`), and places go on where a counter wraps because `PIPESIZE` divides
  its width (`WrapKeepsPlace`).
* `JournalProofs!RingTypeCorrect`, `RingIsQueue`: `RingSpec => []RingTypeOK`, `ImplementsQueue` for
  any number of threads and cells of the circular buffer. The inductive invariant is `Orderly`:
  - `Permits`: free, claimed, filled and emptied cells add up to `BUFFER_SIZE`, and items
    that are announced, claimed or just stored to `count`; claims are numbers of
    threads at certain steps. So the semaphores bound `count` although no thread
    tests it under the mutex.
  - `Exclusive`, `InStep`: one thread is between lock and unlock; `in` is `count` cells
    behind `out`. `ItemsInHand`: the cell at `in` holds what its producer is adding.
  The refinement is about the cells from `out` on (`CellLine`): lemmas say what
  writing behind them, moving `in` and moving `out` around the end of the ring do.
* `ProcessesProofs!LifeTypeCorrect`, `ParentsArePresent`, `NoWakeupIsLost`:
  `LifeSpec => []LifeTypeOK`, `[]EverybodyHasParent`, `[]SleeperHasNoZombie` for any number of
  slots and pids and any workloads. The inductive invariant is `Family`:
  - `ForksInHand`: the child in the hand of a fork is a USED slot that no other fork
    has, without parent before the second critical section of `kfork` and with its
    parent after it. Without this, `ForkRun` could start a process that nobody waits for.
  - `IdleSlots`: init is there, a slot without a process is at the start of its
    program, a free slot has no parent, and every parent pointer is to a process.
    This is why a slot can be given away although others may once have pointed to it.
  - `WaitersHaveChildren`: not only in its sleep but from its scan on, a process
    in `kwait` has a child and no zombie. `wait_lock` makes it inductive: `LifeTypeOK`
    says that it is held from the scan to the sleep, and `kexit` needs it.
  `OnlyMoves` is the lemma for the ten actions that only move a process along.
* `ProcessesProofs!TableIsTree`: `LifeSpec => ImplementsProcessTree`. With `Family` and `PidsOnce`
  (pids are below `nextpid` and not given out twice) pointers between slots are
  pointers between pids (`NamedAt`): the end of `kfork`, `kexit` and the reaping `kwait`
  are the three steps of the tree; all others leave it alone (`TreeStutters`).
* `ProcessesProofs!MarksAreMeant`: `[]KilledWasNamed` if `0 \notin KillArgs`. Its
  invariant `Marks` adds that every mark, also one on a free slot, has a name. The hypothesis is needed:
  with 0 in `KillArgs` TLC finds a process that is born killed.
* `LogProofs!TypeCorrect`, `CallsAreDurable`: `Spec => []TypeOK`, `EndOpIsDurable` for any
  number of processes and blocks and any size of the log. The invariant is `Inductive`:
  - `Quiet`: before `initlog` has returned nothing is pinned, locked or open, and
    `log.lh` is the header that is being installed.
  - `OneCommitter`, `Entries`: at most one process is in `commit`, then no call is open;
    what `log.lh` and the header name at each of its stages. `log.lh` never names a block twice.
  - `PinsAreEntries`: a block is pinned exactly while it has an entry that is not home,
    and once: that is why the pin that `install_trans` gives back is there.
  - `Locks`, `Cached`: the buffer of a block that is pinned or held is in the cache, any
    other holds what the disk does.
  - `Copies`: how far the log blocks agree with the cache, and the home blocks with
    the log, at each stage of a commit and of recovery.
* `LogProofs!CallsFitIntoTheLog`: `[]LogConsistent` if `OpBlocks < MaxOpBlocks`. Its invariant
  `Reserved` counts what every open call may still add, as a set of pairs (`Owed`), so that
  the sum over the calls is a cardinality. With `OpBlocks = MaxOpBlocks` it is false: the
  panic of `log_write` comes before its search for the block (`kernel/log.c:221-229`).
* `LogProofs!CallsAreAtomic`: `Spec => ImplementsAtomicDisk`. `StepRefines` has a
  lemma for each action: `begin_op`, `end_op`, a change of a block, the first
  `write_head` and a crash are the five actions of `AtomicDisk`, all others keep what it sees.
* `ProcessesProofs!NobodyRunsTwice`: `Spec => []RunsOnOneCPU` for any number of CPUs and
  processes. Its invariant `Machine` adds where a CPU is in its scan when it runs a process
  (`AtItsSlot`) and that RUNNING means that one CPU runs it (`Exclusive`).
* `ProcessesProofs!NobodyIsPassedOver`, `NobodyOvertakesTwice`: `Spec => RankWithinPass`,
  `EqualsTakeTurns`. `EveryMove` says in which ways a step moves a CPU through the table;
  `InOrder` that a process eligible in a pass is not behind a CPU that looks for its rank,
  and `Turn` that the CPU is on its way from the one that ran to the one that waits.

* `MemoryProofs!MemoryIsConsistent`: `Spec => []MemoryConsistent` for any number of processes
  and pages, any size of a page and depth of the page tables, any programs and workloads. Any
  `kalloc` may fail, at any point of a fork, exec, sbrk or page fault. The inductive
  invariant is `IInv`:
  - `PagesAreOwned`: there is a function `own` from the pages to tags (free, trapframe of `p`,
    root, node or user page of a table, page in hand, argument of `exec`) that agrees with
    every list a page can be on. That a page has one owner is then that `own` is a function; a
    cardinality is counted only at the end (`OneOwner`).
  - `CallsOK`: what a call has in hand at each of its steps: the page table it fills, the
    child, the page in its hand, and that the virtual page it has come to is not mapped.
  - `ExtentsOK`: how far the user pages of every table go. A table in the making has pages
    from where the call began to where it has come to, and none above; so what
    `uvmdealloc`, `uvmunmap` and `proc_freepagetable` free on the way back is what was mapped, and
    `freewalk` finds no leaf.
  - `SlotsOK`, `EntriesOK`: a free slot has neither table nor trapframe; an entry below
    `TRAPFRAME` leads to a page of its own.
  `TableIsGiven`, `TableIsFreed`, `RangeIsFreed` and `SlotPagesAreFreed` are the four ways in which
  pages change hands; each action uses one or two of them.

* `InodesProofs!TableIsRight`, `LinksAreRight`: `Spec => []TableAgrees`, `[]LinksAgree` for any
  number of processes, in-memory inodes, inodes and names, and any workloads in which no
  path has a `..` (`NoDotDot`). The hypothesis is needed by this proof, and by the code for
  its assertion: `..` of a removed directory holds no reference and may lead to a free
  inode. `InodeAssertions`: `[]AssertionsHold` under the same hypothesis, with a table of any
  size: the assertions of `ilock`, of `unlink` and of `iput`. The panic of `iget` (`iget: no inodes`)
  is not among them: xv6 has 50 in-memory inodes and can reach it, and the model stops
  a process there. The inductive invariant is `IInv`:
  - `Counted`, `Once`: `ref` is the number of pointers to the slot, from `cwd`, files and
    the locals of the calls; an inode is in one slot.
  - `Live`: what a process has a pointer to (`Has`) is allocated, from `iget` on, also when it is
    not locked; the process that frees an inode does not have it any more once
    `type` is 0. That no lookup can come upon an inode that is being freed follows from
    `DiskOK`: `nlink` is 0, so no name leads to it.
  - `LocksOK`, `Agrees`: a sleep-lock is with the process whose step says so; a valid inode
    is what the disk has, except between `iupdate` and `valid = 0` in `iput` (`Leaves`).
  - `Reserves`: what `ialloc` has taken has no name, and nobody but its creator has it, before
    and after its `iget`. So `create` may lock it with the directory locked.
  - `Knows`: what a process has read under a lock is so until it gives up the lock: the
    directory is one, and the entry that `unlink` is about to erase is that of `ip`.
  - `DiskOK`: a directory has one name, where its `..` leads (`OneName`), and `nlink` is at
    least the number of names, of the `..` of subdirectories and of the calls that `link` and
    `unlink` have in hand (`Pending`). The last makes it inductive: `link` counts the name
    that it has not made yet, `unlink` erases the name that it still counts.
  `CallStep` and `DiskCall` reduce a step of a call to what it does to the table, the locks
  and the disk; the five steps of `iput` have lemmas of their own, as they change what a process has.

TLC confirmed the invariants of `BufferCache`, of `Inodes`, of `JournalSemaphore` and of `Pipe` on the
instances of their runs, those of `Log` on the instance of `log`, `Family` and
`Marks` on the instance of `life_cycle`, `SlotsExact` on instances of `Journal` with one
and with two callers and `StagesInOrder` on that of `journal`, before they were proved.

Only model-checked: all liveness properties (fairness and ENABLED are out of the
prover's reach), and the action property `LinksGoBack` and the refinements of
`Terminal` and `AddressSpaces`.
`JournalSemaphore` and `OpenFiles` use `Range` of the community module `Functions`; none of the
modules has a RECURSIVE definition.

## 5. What is not modelled

Inside the modelled parts: the printing of both journals; in `Log` what the blocks
mean and the limited number of buffers, which `BufferCache` has; in `BufferCache` errors
of the device (the driver panics) and the negotiation of features at boot; in `Schedulers`
the log of `startLogging`, saved registers and the trampoline, and the boost of
`scheduler_mlfq` against another CPU that boosts too (`kernel/proc.c:640`); in
`LifeCycle` exit statuses, open files (which `Pipe` has), memory (which `Memory` has), and
the nice value of a child; in `Memory` registers, the page table of the kernel, the
format of ELF files and the locks of the file system that `kexec` holds; in `Inodes` the contents and the blocks of files (`bmap`, `itrunc`, `readi`,
`writei`, `balloc`), and devices; in `Console` the registers that `uartinit` sets
and a kernel that has panicked.

Spin-locks, `push_off` and the atomic instructions below them are not modelled: a
critical section is one step, and a sleep is one step with the release of its lock, as
`p->lock` makes it (`kernel/proc.c:802`). The user library
is sequential code; the tests, the shell and the utilities are straight-line clients; `p1a` and `p1b` are earlier stages
of the same kernel, so that modelling their files again would say nothing new. The tests
(`user/usertests.c`) are one third of the lines of each copy of the system.

## 6. Plan

Theorems worth proving next: `Memory` (its refinement of `AddressSpaces`), `Console` (its
refinement of `Terminal`, for any size of the buffer), and `Inodes` with `..`: what its table
keeps when a removed directory still leads to its parent.

Modules worth writing: `SleepWakeup`, `sleep`, `wakeup` and `acquiresleep` at the level of
`p->lock`, the refinement that justifies the one-step sleeps of the other modules; blocks
and the bitmap under `Inodes`; `Umalloc` as a sequential algorithm against a reference.
