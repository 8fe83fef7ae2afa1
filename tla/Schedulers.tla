----------------------------- MODULE Schedulers -----------------------------
(***************************************************************************)
(* The three schedulers of p1c: scheduler (round robin, "RR"),             *)
(* scheduler_rrsp (round robin with strict priority, "RRSP") and           *)
(* scheduler_mlfq (multi-level feedback queues, "MLFQ").  All of them scan *)
(* the process table and run the processes of the rank they want: RR knows *)
(* one rank, RRSP takes the highest priority that a first pass found, MLFQ *)
(* goes down the queues and back to the highest one whenever something     *)
(* ran.                                                                    *)
(*                                                                         *)
(* The clock is kept as what scheduler_mlfq compares: elapsed is ticks -   *)
(* last_boost_time, lag[c] is ticks - current_ticks while c boosts; both   *)
(* stop at BoostTicks, from where on they no longer make a difference.     *)
(***************************************************************************)
EXTENDS Processes

CONSTANTS
    Setups,         \* the machines and workloads that are looked at
    BoostTicks      \* 60 in the code

ASSUME SchedulersAssumption ==
    /\ Setups \subseteq [scheduler : {"RR", "RRSP", "MLFQ"},
                         cpus : SUBSET CPUs,    \* the CPUs that were started
                         boot : CPUs,           \* CPU 0, which counts the ticks
                         incs : SUBSET Int,     \* arguments of nice()
                         used : SUBSET Slots]   \* the slots the workload uses
    /\ \A s \in Setups : s.boot \in s.cpus /\ s.incs \subseteq (-IntMax - 1)..IntMax
    /\ BoostTicks \in Nat \ {0}

VARIABLES
    setup,
    want,               \* want[c]: priority of scheduler_rrsp, level of scheduler_mlfq
    elapsed, lag,
    \* History: the processes of the rank of p that were dispatched since p became
    \* RUNNABLE; those that were RUNNABLE, at their rank, when c began to look.
    overtook, eligible

clock == <<elapsed, lag>>
fixed == <<SCHEDULER, setup>>
vars == <<fixed, table, cpus, want, clock, overtook, eligible>>

\* Priority for RRSP, queue for MLFQ.
Rank(p) ==
    CASE SCHEDULER = "RR"   -> 0
      [] SCHEDULER = "RRSP" -> 20 - nice[p]
      [] SCHEDULER = "MLFQ" -> queue_level[p]

TopRank == CASE SCHEDULER = "RR" -> 0 [] SCHEDULER = "RRSP" -> 40 [] SCHEDULER = "MLFQ" -> 2

TypeOK ==
    /\ ProcessesTypeOK
    /\ setup \in Setups
    /\ SCHEDULER = setup.scheduler
    /\ want \in [CPUs -> -1..TopRank]
    /\ elapsed \in 0..BoostTicks
    /\ lag \in [CPUs -> 0..BoostTicks]
    /\ overtook \in [Slots -> SUBSET Slots]
    /\ eligible \in [CPUs -> SUBSET Slots]

Init ==
    /\ setup \in Setups
    /\ SCHEDULER = setup.scheduler
    /\ ProcessesInit
    /\ want = [c \in CPUs |-> 0]
    /\ elapsed = 0
    /\ lag = [c \in CPUs |-> 0]
    /\ overtook = [p \in Slots |-> {}]
    /\ eligible = [c \in CPUs |-> {}]

Waits(p) == state[p] = "RUNNABLE" /\ state'[p] = "RUNNABLE" /\ Rank(p)' = Rank(p)
Dispatched(q) == state[q] # "RUNNING" /\ state'[q] = "RUNNING"

\* c has not looked at any process yet.
Begins(c) ==
    /\ idx'[c] = 0
    /\ IF SCHEDULER = "RRSP" THEN cpc'[c] = "max" ELSE want'[c] = TopRank

\* What a step means for the processes that wait.
Record ==
    /\ overtook' = [p \in Slots |->
           IF ~Waits(p) THEN {}
           ELSE {q \in Slots : /\ q \in overtook[p] \/ (Dispatched(q) /\ Rank(q) = Rank(p))
                               /\ Rank(q)' = Rank(q)}]
    /\ eligible' = [c \in CPUs |->
           IF Begins(c) THEN {p \in Slots : state'[p] = "RUNNABLE"}
           ELSE {p \in eligible[c] : Waits(p)}]

-----------------------------------------------------------------------------
(* The top of the loop: intr_on, intr_off.                                 *)

\* Scan from the first slot for processes of rank r.
LookFor(c, r) ==
    /\ idx' = [idx EXCEPT ![c] = 0]
    /\ want' = [want EXCEPT ![c] = r]
    /\ found' = [found EXCEPT ![c] = FALSE]

TopRR(c) ==
    /\ SCHEDULER = "RR"
    /\ cpc[c] = "top"
    /\ cpc' = [cpc EXCEPT ![c] = "scan"]
    /\ intr' = [intr EXCEPT ![c] = FALSE]
    /\ LookFor(c, 0)
    /\ UNCHANGED <<table, proc, clock>>

TopRRSP(c) ==
    /\ SCHEDULER = "RRSP"
    /\ cpc[c] = "top"
    /\ cpc' = [cpc EXCEPT ![c] = "max"]
    /\ intr' = [intr EXCEPT ![c] = FALSE]
    /\ LookFor(c, -1)
    /\ UNCHANGED <<table, proc, clock>>

\* The clock is read, too.
TopMLFQ(c) ==
    /\ SCHEDULER = "MLFQ"
    /\ cpc[c] = "top"
    /\ cpc' = [cpc EXCEPT ![c] = IF elapsed >= BoostTicks THEN "boost" ELSE "scan"]
    /\ intr' = [intr EXCEPT ![c] = FALSE]
    /\ LookFor(c, 2)
    /\ lag' = [lag EXCEPT ![c] = 0]
    /\ UNCHANGED <<table, proc, elapsed>>

-----------------------------------------------------------------------------
(* scheduler_rrsp computes the highest priority.                           *)

\* Mutant: the first priority found is taken for the highest.
MaxIsFirst(c) ==
    /\ cpc[c] = "max" /\ idx[c] < NProc
    /\ want' = [want EXCEPT ![c] =
          IF state[idx[c]] = "RUNNABLE" /\ @ = -1 THEN Rank(idx[c]) ELSE @]
    /\ idx' = [idx EXCEPT ![c] = @ + 1]
    /\ UNCHANGED <<table, proc, intr, cpc, found, clock>>

Max(c) ==
    /\ cpc[c] = "max" /\ idx[c] < NProc
    /\ want' = [want EXCEPT ![c] =
          IF state[idx[c]] = "RUNNABLE" /\ Rank(idx[c]) > @ THEN Rank(idx[c]) ELSE @]
    /\ idx' = [idx EXCEPT ![c] = @ + 1]
    /\ UNCHANGED <<table, proc, intr, cpc, found, clock>>

MaxKnown(c) ==
    /\ cpc[c] = "max" /\ idx[c] = NProc
    /\ IF want[c] = -1
         THEN cpc' = [cpc EXCEPT ![c] = "wfi"] /\ UNCHANGED <<idx, found, want>>
         ELSE cpc' = [cpc EXCEPT ![c] = "scan"] /\ LookFor(c, want[c])
    /\ UNCHANGED <<table, proc, intr, clock>>

-----------------------------------------------------------------------------
(* scheduler_mlfq moves all processes to the queues they started in.       *)

Boost(c) ==
    /\ cpc[c] = "boost" /\ idx[c] < NProc
    /\ queue_level' = [queue_level EXCEPT ![idx[c]] = QueueLevel(nice[idx[c]])]
    /\ runtime_in_queue' = [runtime_in_queue EXCEPT ![idx[c]] = 0]
    /\ idx' = [idx EXCEPT ![c] = @ + 1]
    /\ UNCHANGED <<state, nice, proc, intr, cpc, found, want, clock>>

\* last_boost_time = current_ticks.
BoostDone(c) ==
    /\ cpc[c] = "boost" /\ idx[c] = NProc
    /\ elapsed' = lag[c]
    /\ lag' = [lag EXCEPT ![c] = 0]
    /\ cpc' = [cpc EXCEPT ![c] = "scan"]
    /\ LookFor(c, 2)
    /\ UNCHANGED <<table, proc, intr>>

-----------------------------------------------------------------------------
(* The scan.                                                               *)

\* Mutant: lower ranks will do.
ChosenFromBelow(c) == state[idx[c]] = "RUNNABLE" /\ Rank(idx[c]) <= want[c]

\* The condition on which the scan runs the process it has come to.
Chosen(c) == state[idx[c]] = "RUNNABLE" /\ Rank(idx[c]) = want[c]

Run(c) ==
    /\ cpc[c] = "scan" /\ idx[c] < NProc
    /\ Chosen(c)
    /\ Dispatch(c)
    /\ UNCHANGED <<want, clock>>

Skip(c) ==
    /\ cpc[c] = "scan" /\ idx[c] < NProc
    /\ ~Chosen(c)
    /\ idx' = [idx EXCEPT ![c] = @ + 1]
    /\ UNCHANGED <<table, proc, intr, cpc, found, want, clock>>

\* RR and RRSP: the next round, or wfi when nothing ran.
Scanned(c) ==
    /\ SCHEDULER # "MLFQ"
    /\ cpc[c] = "scan" /\ idx[c] = NProc
    /\ cpc' = [cpc EXCEPT ![c] = IF found[c] THEN "top" ELSE "wfi"]
    /\ UNCHANGED <<table, proc, intr, idx, found, want, clock>>

\* Mutant: after a queue in which something ran, the same queue again.
AgainHere(c) ==
    /\ SCHEDULER = "MLFQ"
    /\ cpc[c] = "scan" /\ idx[c] = NProc
    /\ found[c]
    /\ LookFor(c, want[c])
    /\ UNCHANGED <<table, proc, intr, cpc, clock>>

\* MLFQ: something ran in this queue, back to the highest one.
Again(c) ==
    /\ SCHEDULER = "MLFQ"
    /\ cpc[c] = "scan" /\ idx[c] = NProc
    /\ found[c]
    /\ LookFor(c, 2)
    /\ UNCHANGED <<table, proc, intr, cpc, clock>>

\* MLFQ: nothing ran, one queue down, or wfi.
Down(c) ==
    /\ SCHEDULER = "MLFQ"
    /\ cpc[c] = "scan" /\ idx[c] = NProc
    /\ ~found[c]
    /\ IF want[c] > 0
         THEN LookFor(c, want[c] - 1) /\ UNCHANGED cpc
         ELSE cpc' = [cpc EXCEPT ![c] = "wfi"] /\ UNCHANGED <<idx, found, want>>
    /\ UNCHANGED <<table, proc, intr, clock>>

-----------------------------------------------------------------------------
OneMore(n) == IF n < BoostTicks THEN n + 1 ELSE n

\* ticks++ in clockintr; only scheduler_mlfq looks at the clock.
Tick ==
    IF SCHEDULER = "MLFQ"
      THEN /\ elapsed' = OneMore(elapsed)
           /\ lag' = [c \in CPUs |-> IF cpc[c] = "boost" THEN OneMore(lag[c]) ELSE 0]
      ELSE UNCHANGED clock

\* A timer interrupt in a process: the boot CPU counts it.
TimerYield(c) ==
    /\ Yield(c)
    /\ IF c = setup.boot THEN Tick ELSE UNCHANGED clock
    /\ UNCHANGED want

\* A timer interrupt in the scheduler of the boot CPU.
TimerIdle(c) ==
    /\ c = setup.boot
    /\ cpc[c] = "top" \/ intr[c]
    /\ Tick
    /\ UNCHANGED <<table, cpus, want>>

Scheduler(c) ==
    \/ TopRR(c) \/ TopRRSP(c) \/ TopMLFQ(c)
    \/ Max(c) \/ MaxKnown(c)
    \/ Boost(c) \/ BoostDone(c)
    \/ Run(c) \/ Skip(c)
    \/ Scanned(c) \/ Again(c) \/ Down(c)
    \/ Interrupt(c) /\ UNCHANGED <<want, clock>>

\* A process does not keep the CPU for ever: there are timer interrupts.
Leave(c) == TimerYield(c) \/ (GiveUp(c) /\ UNCHANGED <<want, clock>>)

Next ==
    /\ UNCHANGED fixed
    /\ \E c \in setup.cpus :
          \/ Scheduler(c)
          \/ Leave(c)
          \/ Work(c, setup.incs, setup.used) /\ UNCHANGED <<want, clock>>
          \/ TimerIdle(c)
    /\ Record

Spec == Init /\ [][Next]_vars

\* A CPU goes on executing its scheduler, and timer interrupts come.
FairSpec ==
    /\ Spec
    /\ \A c \in CPUs :
         /\ WF_vars(UNCHANGED fixed /\ c \in setup.cpus /\ Scheduler(c) /\ Record)
         /\ WF_vars(UNCHANGED fixed /\ c \in setup.cpus /\ Leave(c) /\ Record)

-----------------------------------------------------------------------------
\* A process runs on one CPU at most, and it is RUNNING exactly then: however the
\* scans of the CPUs interleave, no process is run twice or lost.
RunsOnOneCPU ==
    /\ TypeOK
    /\ \A c, d \in CPUs : proc[c] # NoProc /\ proc[c] = proc[d] => c = d
    /\ \A p \in Slots : state[p] = "RUNNING" <=> \E c \in CPUs : proc[c] = p

\* A process that was waiting when the CPU began to look, and still waits at its
\* rank, is not passed over for one of a lower rank: what is true of Rule 1 of
\* scheduler_rrsp and of the strict priority of scheduler_mlfq.
RankWithinPass ==
    [][\A c \in CPUs : \A p \in eligible[c] :
          cpc[c] = "scan" /\ cpc'[c] = "run" => Rank(p) <= Rank(idx[c])]_vars

\* Round robin on one CPU: while a process waits, no other one of its rank gets the
\* CPU twice.
EqualsTakeTurns ==
    [][Cardinality(setup.cpus) = 1 => \A p, q \in Slots :
          state[p] = "RUNNABLE" /\ Rank(q) = Rank(p) /\ Dispatched(q)
              => q \notin overtook[p]]_vars

\* A process of the highest rank gets a CPU (under RR, every process).
TopRankRuns ==
    \A p \in Slots : state[p] = "RUNNABLE" /\ Rank(p) = TopRank
                         ~> state[p] = "RUNNING" \/ Rank(p) # TopRank

=============================================================================
