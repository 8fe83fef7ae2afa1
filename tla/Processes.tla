----------------------------- MODULE Processes ------------------------------
(***************************************************************************)
(* What the three schedulers of p1c (kernel/proc.c) have in common: the    *)
(* process table as they see it, what a running process does to it, and a  *)
(* CPU that scans the table for a process to run.                          *)
(*                                                                         *)
(* Grain: one action per critical section under a p->lock.  A process that *)
(* gives up the CPU holds its lock until the scheduler has taken over, so  *)
(* that giving up and taking over is one action.                           *)
(***************************************************************************)
EXTENDS Integers, FiniteSets

CONSTANTS
    NProc,      \* NPROC
    CPUs,
    IntMax,     \* largest int; 2^31 - 1 in the code
    Quantum     \* ticks a process may use in Q1; 10 in the code

ASSUME ProcessesAssumption ==
    /\ NProc \in Nat \ {0} /\ IsFiniteSet(CPUs)
    /\ IntMax \in Nat /\ IntMax >= 40
    /\ Quantum \in Nat \ {0}

Slots == 0..(NProc - 1)
InitProc == 0        \* userinit takes the first slot
NoProc == -1

VARIABLES
    SCHEDULER,   \* which scheduler the kernel was built with: it never changes
    state, nice, queue_level, runtime_in_queue,   \* fields of struct proc
    proc,     \* proc[c]: c->proc, the process that runs on c
    intr,     \* intr[c]: the scheduler of c runs with interrupts enabled
    cpc,      \* cpc[c]: where the scheduler of c is
    idx,      \* idx[c]: the slot it looks at next
    found     \* found[c]

table == <<state, nice, queue_level, runtime_in_queue>>
cpus == <<proc, intr, cpc, idx, found>>

\* A slot that is not in use, has not been started or waits for its parent is
\* "UNUSED" here: the schedulers tell only RUNNABLE from the rest.
ProcState == {"UNUSED", "SLEEPING", "RUNNABLE", "RUNNING"}

ProcessesTypeOK ==
    /\ state \in [Slots -> ProcState]
    /\ nice \in [Slots -> -20..19]
    /\ queue_level \in [Slots -> 0..2]
    /\ runtime_in_queue \in [Slots -> 0..(Quantum - 1)]
    /\ proc \in [CPUs -> Slots \cup {NoProc}]
    /\ intr \in [CPUs -> BOOLEAN]
    /\ cpc \in [CPUs -> {"top", "max", "boost", "scan", "run", "wfi"}]
    /\ idx \in [CPUs -> 0..NProc]
    /\ found \in [CPUs -> BOOLEAN]

\* initqueuelevel.
QueueLevel(n) == IF n <= -10 THEN 2 ELSE IF n <= 10 THEN 1 ELSE 0

ProcessesInit ==
    /\ state = [p \in Slots |-> IF p = InitProc THEN "RUNNABLE" ELSE "UNUSED"]
    /\ nice = [p \in Slots |-> 0]
    /\ queue_level = [p \in Slots |-> QueueLevel(0)]
    /\ runtime_in_queue = [p \in Slots |-> 0]
    /\ proc = [c \in CPUs |-> NoProc]
    /\ intr = [c \in CPUs |-> FALSE]
    /\ cpc = [c \in CPUs |-> "top"]
    /\ idx = [c \in CPUs |-> 0]
    /\ found = [c \in CPUs |-> FALSE]

-----------------------------------------------------------------------------
(* The scheduler's part: swtch to a process, and what follows swtch when   *)
(* the process comes back.                                                 *)

\* Mutant: the process is run and stays RUNNABLE.
DispatchUnmarked(c) ==
    /\ proc' = [proc EXCEPT ![c] = idx[c]]
    /\ cpc' = [cpc EXCEPT ![c] = "run"]
    /\ UNCHANGED <<table, intr, idx, found>>

Dispatch(c) ==
    /\ state' = [state EXCEPT ![idx[c]] = "RUNNING"]
    /\ proc' = [proc EXCEPT ![c] = idx[c]]
    /\ cpc' = [cpc EXCEPT ![c] = "run"]
    /\ UNCHANGED <<nice, queue_level, runtime_in_queue, intr, idx, found>>

\* Mutant: the scan starts again from the first slot.
SwitchBackToFirst(c, enabled) ==
    /\ proc' = [proc EXCEPT ![c] = NoProc]
    /\ cpc' = [cpc EXCEPT ![c] = "scan"]
    /\ idx' = [idx EXCEPT ![c] = 0]
    /\ found' = [found EXCEPT ![c] = TRUE]
    /\ intr' = [intr EXCEPT ![c] = enabled]

\* The release of p->lock by the scheduler restores the interrupt state that the
\* process saved when it took its first lock.
SwitchBack(c, enabled) ==
    /\ proc' = [proc EXCEPT ![c] = NoProc]
    /\ cpc' = [cpc EXCEPT ![c] = "scan"]
    /\ idx' = [idx EXCEPT ![c] = @ + 1]
    /\ found' = [found EXCEPT ![c] = TRUE]
    /\ intr' = [intr EXCEPT ![c] = enabled]

-----------------------------------------------------------------------------
(* What the process running on c does.                                     *)

\* A timer interrupt: yield, with the demotion of the MLFQ scheduler.  What a
\* process uses in Q0 is counted and never looked at: it is left out.
Yield(c) ==
    LET p == proc[c]
        ran == runtime_in_queue[p] + 1
        demoted == \/ queue_level[p] = 2 /\ ran >= 1
                   \/ queue_level[p] = 1 /\ ran >= Quantum
    IN
    /\ cpc[c] = "run"
    /\ state' = [state EXCEPT ![p] = "RUNNABLE"]
    /\ IF SCHEDULER # "MLFQ"
         THEN UNCHANGED <<queue_level, runtime_in_queue>>
         ELSE /\ queue_level' = [queue_level EXCEPT ![p] = IF demoted THEN @ - 1 ELSE @]
              /\ runtime_in_queue' = [runtime_in_queue EXCEPT ![p] =
                    IF demoted THEN 0 ELSE IF queue_level[p] = 0 THEN @ ELSE ran]
    /\ SwitchBack(c, FALSE)
    /\ UNCHANGED nice

\* A system call that sleeps.
Sleep(c) ==
    /\ cpc[c] = "run"
    /\ state' = [state EXCEPT ![proc[c]] = "SLEEPING"]
    /\ SwitchBack(c, TRUE)
    /\ UNCHANGED <<nice, queue_level, runtime_in_queue>>

Exit(c) ==
    /\ cpc[c] = "run"
    /\ proc[c] # InitProc
    /\ state' = [state EXCEPT ![proc[c]] = "UNUSED"]
    /\ SwitchBack(c, TRUE)
    /\ UNCHANGED <<nice, queue_level, runtime_in_queue>>

\* kfork: the child inherits nice.  Any slot that is not in use here may be the
\* first UNUSED one of allocproc, which starts the child in a second step.
Fork(c, q) ==
    /\ cpc[c] = "run"
    /\ state[q] = "UNUSED"
    /\ state' = [state EXCEPT ![q] = "RUNNABLE"]
    /\ nice' = [nice EXCEPT ![q] = nice[proc[c]]]
    /\ queue_level' = [queue_level EXCEPT ![q] = QueueLevel(nice[proc[c]])]
    /\ runtime_in_queue' = [runtime_in_queue EXCEPT ![q] = 0]
    /\ UNCHANGED cpus

\* The sum in sys_nice is an int: it wraps before it is brought within bounds.
Wrap(x) == ((x + IntMax + 1) % (2 * (IntMax + 1))) - (IntMax + 1)

NiceSum(n, inc) ==
    LET sum == Wrap(n + inc) IN
    IF sum < -20 THEN -20 ELSE IF sum > 19 THEN 19 ELSE sum

\* sys_nice, of any process in use.
Nice(c, q, inc) ==
    /\ cpc[c] = "run"
    /\ state[q] # "UNUSED"
    /\ nice' = [nice EXCEPT ![q] = NiceSum(@, inc)]
    /\ queue_level' = [queue_level EXCEPT ![q] = QueueLevel(nice'[q])]
    /\ runtime_in_queue' = [runtime_in_queue EXCEPT ![q] = 0]
    /\ UNCHANGED <<state, cpus>>

\* wakeup, by the process, or by an interrupt handler on c: between intr_on and
\* intr_off at the top of the scheduler's loop, or when it left them enabled.
Wakeup(c, q) ==
    /\ cpc[c] \in {"run", "top"} \/ intr[c]
    /\ state[q] = "SLEEPING"
    /\ state' = [state EXCEPT ![q] = "RUNNABLE"]
    /\ UNCHANGED <<nice, queue_level, runtime_in_queue, cpus>>

\* wfi ends with the next interrupt, which is taken at the top of the loop.
Interrupt(c) ==
    /\ cpc[c] = "wfi"
    /\ cpc' = [cpc EXCEPT ![c] = "top"]
    /\ UNCHANGED <<table, proc, intr, idx, found>>

GiveUp(c) == Sleep(c) \/ Exit(c)

\* incs: the arguments of nice(); used: the slots of the table that are used.
Work(c, incs, used) ==
    \/ \E q \in used : Fork(c, q)
    \/ \E q \in Slots : Wakeup(c, q)
    \/ \E q \in Slots : \E inc \in incs : Nice(c, q, inc)
=============================================================================
