----------------------------- MODULE LifeCycle ------------------------------
(***************************************************************************)
(* The life of a process in p1c (kernel/proc.c): kfork, kexit, kwait,      *)
(* kkill, sleep and wakeup on a table of slots that are used again, and    *)
(* the two places where usertrap looks at p->killed.                       *)
(*                                                                         *)
(* Grain: one action per critical section under a p->lock; what kexit and  *)
(* kwait do to parents and zombies in one section under wait_lock is one   *)
(* action.  RUNNABLE stands for RUNNABLE and RUNNING: nothing here depends *)
(* on who has a processor, which is the subject of Schedulers.             *)
(***************************************************************************)
EXTENDS Integers, FiniteSets

CONSTANTS
    NPROC,      \* slots in proc
    MaxPid,     \* bound: fork is not called any more when nextpid is larger
    KillArgs,   \* arguments of kill(); init (pid 1) is not killed: kexit would panic
    Workloads   \* the programs that are looked at

ASSUME LifeCycleAssumption ==
    /\ NPROC \in Nat \ {0} /\ MaxPid \in Nat \ {0}
    /\ KillArgs \subseteq (0..MaxPid) \ {1}
    \* The slots that are used, and what processes do beside fork, wait and exit.
    /\ Workloads \subseteq [slots : 1..NPROC, does : SUBSET {"pause", "kill", "fault", "fail"}]

ProcSlots == 0..(NPROC - 1)
initproc == 0
NoSlot == -1

VARIABLES
    workload,
    procstate, pid, parent, killed,   \* fields of struct proc (procstate: state)
    nextpid,
    wait_lock, tickslock,         \* the process that holds it
    pc,                           \* where a process is in user space or in the kernel
    np,                           \* the child that kfork has in hand
    \* History: the pids that are to be killed; the processes that kill met between
    \* the test of killed in kwait and the sleep, and that nobody woke since.
    asked, missed

fields == <<procstate, pid, parent, killed>>
locks == <<wait_lock, tickslock>>
history == <<asked, missed>>
lifevars == <<workload, fields, nextpid, locks, pc, np, history>>

InUse(p) == procstate[p] \in {"SLEEPING", "RUNNABLE"}

\* A slot is in use exactly when it has a pid, and the locks are held where the code
\* holds them.
LifeTypeOK ==
    /\ workload \in Workloads
    /\ procstate \in [ProcSlots -> {"UNUSED", "USED", "SLEEPING", "RUNNABLE", "ZOMBIE"}]
    /\ pid \in [ProcSlots -> 0..MaxPid]
    /\ \A p \in ProcSlots : procstate[p] = "UNUSED" <=> pid[p] = 0
    /\ parent \in [ProcSlots -> ProcSlots \cup {NoSlot}]
    /\ killed \in [ProcSlots -> BOOLEAN]
    /\ nextpid \in 1..(MaxPid + 1)
    /\ wait_lock \in ProcSlots \cup {NoSlot} /\ tickslock \in ProcSlots \cup {NoSlot}
    /\ pc \in [ProcSlots -> {"user", "return", "fork_parent", "fork_run", "exit",
                         "wait", "wait_check", "wait_sleep", "pause", "pause_sleep"}]
    /\ \A p \in ProcSlots : wait_lock = p <=> pc[p] \in {"wait_check", "wait_sleep"}
    /\ \A p \in ProcSlots : tickslock = p <=> pc[p] = "pause_sleep"
    /\ np \in [ProcSlots -> ProcSlots \cup {NoSlot}]
    /\ asked \subseteq 0..MaxPid /\ missed \subseteq ProcSlots

\* userinit.
LifeInit ==
    /\ workload \in Workloads
    /\ procstate = [p \in ProcSlots |-> IF p = initproc THEN "RUNNABLE" ELSE "UNUSED"]
    /\ pid = [p \in ProcSlots |-> IF p = initproc THEN 1 ELSE 0]
    /\ parent = [p \in ProcSlots |-> NoSlot]
    /\ killed = [p \in ProcSlots |-> FALSE]
    /\ nextpid = 2
    /\ wait_lock = NoSlot /\ tickslock = NoSlot
    /\ pc = [p \in ProcSlots |-> "user"]
    /\ np = [p \in ProcSlots |-> NoSlot]
    /\ asked = {} /\ missed = {}

\* The process p goes from one point of its program to another.
Goto(p, from, to) ==
    /\ procstate[p] = "RUNNABLE"
    /\ pc[p] = from
    /\ pc' = [pc EXCEPT ![p] = to]

-----------------------------------------------------------------------------
(* Interrupts and usertrap.                                                *)

\* clockintr: wakeup(&ticks), under tickslock.
Clockintr ==
    /\ tickslock = NoSlot
    /\ \E p \in ProcSlots : procstate[p] = "SLEEPING" /\ pc[p] = "pause"
    /\ procstate' = [p \in ProcSlots |->
        IF procstate[p] = "SLEEPING" /\ pc[p] = "pause" THEN "RUNNABLE" ELSE procstate[p]]
    /\ UNCHANGED <<pid, parent, killed, nextpid, locks, pc, np, history>>

\* A system call or a timer interrupt in user space ends a process that was killed;
\* otherwise the call is made.
Trap(p) ==
    /\ killed[p]
    /\ Goto(p, "user", "exit")
    /\ UNCHANGED <<fields, nextpid, locks, np, history>>

ReturnToUser(p) ==
    /\ Goto(p, "return", IF killed[p] THEN "exit" ELSE "user")
    /\ UNCHANGED <<fields, nextpid, locks, np, history>>

\* An exception that nobody handles: setkilled.
Fault(p) ==
    /\ "fault" \in workload.does
    /\ p # initproc
    /\ Goto(p, "user", "return")
    /\ killed' = [killed EXCEPT ![p] = TRUE]
    /\ asked' = asked \cup {pid[p]}
    /\ UNCHANGED <<procstate, pid, parent, nextpid, locks, np, missed>>

HasChild(p) == \E q \in ProcSlots : parent[q] = p

\* (A kill between the test and the call is as good as one after the first step of
\* the call, which does not look at killed.)
Enters(p, to) == ~killed[p] /\ Goto(p, "user", to)

\* A system call.  init (user/init.c) only forks, and waits when it has a child.
Call(p) ==
    /\ \/ (p = initproc => HasChild(p)) /\ Enters(p, "wait")
       \/ p # initproc /\ "pause" \in workload.does /\ Enters(p, "pause")
       \/ p # initproc /\ Enters(p, "exit")
    /\ UNCHANGED <<fields, nextpid, locks, np, history>>

-----------------------------------------------------------------------------
(* kfork.  freeproc and allocproc hold the lock of the slot throughout.    *)

\* allocproc looks at one slot after the other, and changes nothing until it is at its last
\* one: a slot that is UNUSED then, or the end of the table.  Slots that it has passed may
\* have become free behind it.
Allocated(q) ==
    /\ q < workload.slots
    /\ procstate[q] = "UNUSED"

ForkAlloc(p, q) ==
    /\ Enters(p, "fork_parent")
    /\ Allocated(q)
    /\ nextpid <= MaxPid
    /\ procstate' = [procstate EXCEPT ![q] = "USED"]
    /\ pid' = [pid EXCEPT ![q] = nextpid]
    /\ nextpid' = nextpid + 1
    /\ np' = [np EXCEPT ![p] = q]
    /\ UNCHANGED <<parent, killed, locks, history>>

\* No memory: the slot is cleared and the pid is spent.
ForkFails(p, q) ==
    /\ "fail" \in workload.does
    /\ p # initproc
    /\ Enters(p, "return")
    /\ Allocated(q)
    /\ nextpid <= MaxPid
    /\ nextpid' = nextpid + 1
    /\ killed' = [killed EXCEPT ![q] = FALSE]
    /\ UNCHANGED <<procstate, pid, parent, locks, np, history>>

\* No slot was found.  (init would exit, and kexit panic.)
ForkNone(p) ==
    /\ p # initproc
    /\ Enters(p, "return")
    /\ procstate[workload.slots - 1] # "UNUSED"
    /\ UNCHANGED <<fields, nextpid, locks, np, history>>

ForkParent(p) ==
    /\ Goto(p, "fork_parent", "fork_run")
    /\ wait_lock = NoSlot
    /\ parent' = [parent EXCEPT ![np[p]] = p]
    /\ UNCHANGED <<procstate, pid, killed, nextpid, locks, np, history>>

ForkRun(p) ==
    /\ Goto(p, "fork_run", "return")
    /\ procstate' = [procstate EXCEPT ![np[p]] = "RUNNABLE"]
    /\ np' = [np EXCEPT ![p] = NoSlot]
    /\ UNCHANGED <<pid, parent, killed, nextpid, locks, history>>

-----------------------------------------------------------------------------
(* kexit, kwait and kkill.                                                 *)

\* Mutant: the children keep their parent.
ExitAndLeaveChildren(p) ==
    /\ p # initproc
    /\ Goto(p, "exit", "user")
    /\ wait_lock = NoSlot
    /\ procstate' = [q \in ProcSlots |->
          IF q = p THEN "ZOMBIE"
          ELSE IF q = parent[p] /\ procstate[q] = "SLEEPING" /\ pc[q] = "wait" THEN "RUNNABLE"
          ELSE procstate[q]]
    /\ missed' = missed \ {parent[p]}
    /\ UNCHANGED <<pid, parent, killed, nextpid, locks, np, asked>>

\* Mutant: reparent does not wake init.
ExitAndLetInitSleep(p) ==
    /\ p # initproc
    /\ Goto(p, "exit", "user")
    /\ wait_lock = NoSlot
    /\ parent' = [q \in ProcSlots |-> IF parent[q] = p THEN initproc ELSE parent[q]]
    /\ procstate' = [q \in ProcSlots |->
          IF q = p THEN "ZOMBIE"
          ELSE IF q = parent[p] /\ procstate[q] = "SLEEPING" /\ pc[q] = "wait" THEN "RUNNABLE"
          ELSE procstate[q]]
    /\ missed' = missed \ {parent[p]}
    /\ UNCHANGED <<pid, killed, nextpid, locks, np, asked>>

\* reparent, wakeup(p->parent) and ZOMBIE.  Who waits for a child sleeps on itself.
Kexit(p) ==
    LET woken == {parent[p]} \cup IF HasChild(p) THEN {initproc} ELSE {} IN
    /\ p # initproc                                  \* else panic
    /\ Goto(p, "exit", "user")
    /\ wait_lock = NoSlot
    /\ parent' = [q \in ProcSlots |-> IF parent[q] = p THEN initproc ELSE parent[q]]
    /\ procstate' = [q \in ProcSlots |->
          IF q = p THEN "ZOMBIE"
          ELSE IF q \in woken /\ procstate[q] = "SLEEPING" /\ pc[q] = "wait" THEN "RUNNABLE"
          ELSE procstate[q]]
    /\ missed' = missed \ woken
    /\ UNCHANGED <<pid, killed, nextpid, locks, np, asked>>

FreeProc(q) ==
    /\ procstate' = [procstate EXCEPT ![q] = "UNUSED"]
    /\ pid' = [pid EXCEPT ![q] = 0]
    /\ parent' = [parent EXCEPT ![q] = NoSlot]
    /\ killed' = [killed EXCEPT ![q] = FALSE]

\* Mutant: any zombie will do.
ZombieOfAnybody(p) == {q \in ProcSlots : procstate[q] = "ZOMBIE"}

ZombieOf(p) == {q \in ProcSlots : parent[q] = p /\ procstate[q] = "ZOMBIE"}

\* The first zombie that the scan comes to.
WaitReap(p) ==
    /\ Goto(p, "wait", "return")
    /\ wait_lock = NoSlot
    /\ \E q \in ZombieOf(p) :
          /\ \A r \in ZombieOf(p) : q <= r
          /\ FreeProc(q)
          /\ asked' = asked \ {pid[q]}
    /\ UNCHANGED <<nextpid, locks, np, missed>>

\* copyout fails: the zombie stays.  init passes no address.
WaitBadAddress(p) ==
    /\ "fail" \in workload.does
    /\ p # initproc
    /\ Goto(p, "wait", "return")
    /\ wait_lock = NoSlot
    /\ ZombieOf(p) # {}
    /\ UNCHANGED <<fields, nextpid, locks, np, history>>

WaitNoChild(p) ==
    /\ Goto(p, "wait", "return")
    /\ wait_lock = NoSlot
    /\ ~HasChild(p)
    /\ UNCHANGED <<fields, nextpid, locks, np, history>>

WaitNoZombie(p) ==
    /\ Goto(p, "wait", "wait_check")
    /\ wait_lock = NoSlot
    /\ HasChild(p) /\ ZombieOf(p) = {}
    /\ wait_lock' = p
    /\ UNCHANGED <<fields, nextpid, tickslock, np, history>>

\* Mutant: wait_lock is not released on the way out.
WaitCheckKeepsLock(p) ==
    /\ Goto(p, "wait_check", IF killed[p] THEN "return" ELSE "wait_sleep")
    /\ UNCHANGED <<fields, nextpid, locks, np, history>>

\* killed(p) takes p->lock and releases it.
WaitCheck(p) ==
    /\ Goto(p, "wait_check", IF killed[p] THEN "return" ELSE "wait_sleep")
    /\ wait_lock' = IF killed[p] THEN NoSlot ELSE p
    /\ UNCHANGED <<fields, nextpid, tickslock, np, history>>

\* sleep(p, &wait_lock); when p is woken it looks again.
WaitSleep(p) ==
    /\ Goto(p, "wait_sleep", "wait")
    /\ procstate' = [procstate EXCEPT ![p] = "SLEEPING"]
    /\ wait_lock' = NoSlot
    /\ UNCHANGED <<pid, parent, killed, nextpid, tickslock, np, history>>

\* sys_pause: the time is over, or p was killed; or not.
PauseCheck(p) ==
    /\ tickslock = NoSlot
    /\ \/ Goto(p, "pause", "return") /\ UNCHANGED tickslock
       \/ ~killed[p] /\ Goto(p, "pause", "pause_sleep") /\ tickslock' = p
    /\ UNCHANGED <<fields, nextpid, wait_lock, np, history>>

PauseSleep(p) ==
    /\ Goto(p, "pause_sleep", "pause")
    /\ procstate' = [procstate EXCEPT ![p] = "SLEEPING"]
    /\ tickslock' = NoSlot
    /\ UNCHANGED <<pid, parent, killed, nextpid, wait_lock, np, history>>

\* Mutant: the victim is marked and sleeps on.
KillOnlyMarks(p, n) ==
    /\ "kill" \in workload.does
    /\ p # initproc
    /\ Enters(p, "return")
    /\ \E q \in ProcSlots : pid[q] = n /\ killed' = [killed EXCEPT ![q] = TRUE]
    /\ asked' = asked \cup {n}
    /\ UNCHANGED <<procstate, pid, parent, nextpid, locks, np, missed>>

\* kkill(n): the first slot with that pid, in whatever state it is.
Kill(p, n) ==
    /\ "kill" \in workload.does
    /\ p # initproc
    /\ Enters(p, "return")
    /\ \E q \in ProcSlots :
          /\ pid[q] = n /\ \A r \in ProcSlots : pid[r] = n => q <= r
          /\ killed' = [killed EXCEPT ![q] = TRUE]
          /\ procstate' = [procstate EXCEPT ![q] = IF @ = "SLEEPING" THEN "RUNNABLE" ELSE @]
          /\ missed' = IF pc[q] = "wait_sleep" THEN missed \cup {q} ELSE missed \ {q}
    /\ asked' = asked \cup {n}
    /\ UNCHANGED <<pid, parent, nextpid, locks, np>>

-----------------------------------------------------------------------------
\* The beginning of a system call.
Begin(p) ==
    \/ Call(p) \/ ForkNone(p)
    \/ \E q \in ProcSlots : ForkAlloc(p, q) \/ ForkFails(p, q)
    \/ \E n \in KillArgs : Kill(p, n)

\* The rest of it.
Continue(p) ==
    \/ ForkParent(p) \/ ForkRun(p)
    \/ Kexit(p)
    \/ WaitReap(p) \/ WaitBadAddress(p) \/ WaitNoChild(p) \/ WaitNoZombie(p)
    \/ WaitCheck(p) \/ WaitSleep(p)
    \/ PauseCheck(p) \/ PauseSleep(p)
    \/ ReturnToUser(p)

LifeNext ==
    /\ UNCHANGED workload
    /\ \/ \E p \in ProcSlots :
             \/ Trap(p) \/ Fault(p)
             \/ Begin(p) \/ Continue(p)
       \/ Clockintr

LifeSpec == LifeInit /\ [][LifeNext]_lifevars

\* A process that finds the lock free again and again gets on with its system call,
\* timer interrupts come, and init does nothing but make system calls.
LifeFairSpec ==
    /\ LifeSpec
    /\ \A p \in ProcSlots :
         /\ SF_lifevars(UNCHANGED workload /\ Continue(p))
         /\ WF_lifevars(UNCHANGED workload /\ Trap(p))
    /\ WF_lifevars(UNCHANGED workload /\ Begin(initproc))
    /\ WF_lifevars(UNCHANGED workload /\ Clockintr)

-----------------------------------------------------------------------------
\* Every process and every zombie has a parent that is there to wait for it: a slot is
\* not given away while others point to it.
EverybodyHasParent ==
    \A q \in ProcSlots \ {initproc} :
        InUse(q) \/ procstate[q] = "ZOMBIE" => parent[q] # NoSlot /\ InUse(parent[q])

\* Nobody sleeps in wait who has a zombie to find, or nothing to wait for: between the
\* scan of kwait and its sleep no exit and no reparent can come.
SleeperHasNoZombie ==
    \A p \in ProcSlots :
        procstate[p] = "SLEEPING" /\ pc[p] = "wait" => HasChild(p) /\ ZombieOf(p) = {}

\* A process is marked as killed only if somebody asked for its pid, or it faulted
\* itself: the mark does not pass from one user of the slot to the next.
KilledWasNamed == \A p \in ProcSlots : InUse(p) /\ killed[p] => pid[p] \in asked

Present == {q \in ProcSlots : InUse(q) \/ procstate[q] = "ZOMBIE"}
SlotOf(n) == CHOOSE q \in Present : pid[q] = n

Tree == INSTANCE ProcessTree WITH
    Pids <- 1..MaxPid, InitPid <- 1,
    alive <- {pid[q] : q \in {r \in ProcSlots : InUse(r)}},
    zombies <- {pid[q] : q \in {r \in ProcSlots : procstate[r] = "ZOMBIE"}},
    parent <- [n \in {pid[q] : q \in Present \ {initproc}} |-> pid[parent[SlotOf(n)]]]

\* In terms of pids, fork, exit and wait build the tree of processes, although slots
\* are used again and parents are pointers to slots.
ImplementsProcessTree == Tree!Spec

\* What exits without a parent to wait for it is waited for by init.
OrphansAreReaped ==
    \A q \in ProcSlots \ {initproc} :
        procstate[q] = "ZOMBIE" /\ parent[q] = initproc ~> procstate[q] = "UNUSED"

\* A process that is killed exits, wherever it sleeps or computes: kill wakes it, and
\* it looks.  (If kill came between the test and the sleep of kwait, it sleeps on
\* until a child exits.)
KilledExits ==
    \A q \in ProcSlots \ {initproc} :
        InUse(q) /\ killed[q] /\ q \notin missed ~> ~InUse(q)
=============================================================================
