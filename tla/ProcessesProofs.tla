--------------------------- MODULE ProcessesProofs ---------------------------
(***************************************************************************)
(* Proofs about the processes of kernel/proc.c: first Schedulers, for      *)
(* every number of processes and CPUs, every scheduler and workload; then  *)
(* LifeCycle, for every number of slots and of pids and any workloads.     *)
(***************************************************************************)
EXTENDS Schedulers, LifeCycle, FiniteSetTheorems, TLAPS

\* A CPU that runs a process stands at its slot in the scan, and each scheduler keeps to
\* its own part of the program.
AtItsSlot ==
    \A c \in CPUs :
        /\ cpc[c] = "run" => proc[c] = idx[c] /\ idx[c] \in Slots
        /\ cpc[c] # "run" => proc[c] = NoProc
        /\ cpc[c] = "max" => SCHEDULER = "RRSP"
        /\ cpc[c] = "boost" => SCHEDULER = "MLFQ"

ClockOK ==
    /\ want \in [CPUs -> -1..TopRank]
    /\ elapsed \in 0..BoostTicks
    /\ lag \in [CPUs -> 0..BoostTicks]

Exclusive ==
    /\ \A c, d \in CPUs : proc[c] # NoProc /\ proc[c] = proc[d] => c = d
    /\ \A p \in Slots : state[p] = "RUNNING" <=> \E c \in CPUs : proc[c] = p

\* The inductive invariant of RunsOnOneCPU.
Machine == ProcessesTypeOK /\ ClockOK /\ AtItsSlot /\ Exclusive

FixedOK == setup \in Setups /\ SCHEDULER = setup.scheduler

HistoryOK ==
    /\ overtook \in [Slots -> SUBSET Slots]
    /\ eligible \in [CPUs -> SUBSET Slots]

LEMMA SlotFacts == InitProc \in Slots /\ NoProc \notin Slots /\ Slots \subseteq Nat
BY ProcessesAssumption DEF InitProc, NoProc, Slots

LEMMA SetupFacts ==
    ASSUME FixedOK
    PROVE  /\ SCHEDULER \in {"RR", "RRSP", "MLFQ"}
           /\ setup.cpus \subseteq CPUs /\ setup.boot \in CPUs
           /\ setup.incs \subseteq Int /\ setup.used \subseteq Slots
<1> USE SchedulersAssumption
<1>1. setup \in [scheduler : {"RR", "RRSP", "MLFQ"}, cpus : SUBSET CPUs, boot : CPUs,
                 incs : SUBSET Int, used : SUBSET Slots]
  BY DEF FixedOK
<1> QED BY <1>1 DEF FixedOK

\* The bounds of nice hold whatever the addition does.
LEMMA NiceBounds ==
    ASSUME NEW n \in -20..19, NEW inc \in Int
    PROVE  NiceSum(n, inc) \in -20..19
<1> DEFINE x == n + inc + IntMax + 1
           m == 2 * (IntMax + 1)
<1>1. x \in Int /\ m \in Nat \ {0}
  BY ProcessesAssumption
<1>2. x % m \in Int
  <2> HIDE DEF x, m
  <2> QED BY <1>1
<1>3. Wrap(n + inc) = (x % m) - (IntMax + 1)
  BY ProcessesAssumption DEF Wrap
<1>4. Wrap(n + inc) \in Int
  <2> HIDE DEF x, m
  <2> QED BY <1>2, <1>3, ProcessesAssumption
<1> QED BY <1>4 DEF NiceSum

LEMMA QueueBounds ==
    ASSUME NEW n \in -20..19
    PROVE  QueueLevel(n) \in 0..2
BY DEF QueueLevel

LEMMA RankBounds ==
    ASSUME ProcessesTypeOK, FixedOK, NEW p \in Slots
    PROVE  Rank(p) \in 0..TopRank /\ TopRank \in Nat
BY SetupFacts DEF ProcessesTypeOK, Rank, TopRank

-----------------------------------------------------------------------------
\* Steps of a scheduler that run nothing.
LEMMA SchedulerMoves ==
    ASSUME FixedOK, Machine, UNCHANGED fixed, NEW c \in CPUs,
           \/ TopRR(c) \/ TopRRSP(c) \/ TopMLFQ(c) \/ Max(c) \/ MaxKnown(c)
           \/ BoostDone(c) \/ Skip(c) \/ Scanned(c) \/ Again(c) \/ Down(c)
           \/ Interrupt(c) /\ UNCHANGED <<want, clock>>
    PROVE  Machine'
<1> USE DEF Machine, fixed, clock, table
<1>1. TopRank' = TopRank /\ TopRank \in Nat /\ (SCHEDULER = "MLFQ" => TopRank = 2)
  BY RankBounds, SlotFacts, SetupFacts DEF TopRank
<1>2. idx[c] \in 0..NProc /\ NProc \in Nat \ {0} /\ (idx[c] < NProc => idx[c] \in Slots)
  BY ProcessesAssumption DEF ProcessesTypeOK, Slots
<1>3. UNCHANGED <<table, proc>>
  BY DEF TopRR, TopRRSP, TopMLFQ, Max, MaxKnown, BoostDone, Skip, Scanned, Again, Down, Interrupt
<1>4. Exclusive'
  BY <1>3 DEF Exclusive
<1>5. /\ intr' \in [CPUs -> BOOLEAN] /\ found' \in [CPUs -> BOOLEAN]
      /\ cpc' \in [CPUs -> {"top", "max", "boost", "scan", "run", "wfi"}]
  BY DEF ProcessesTypeOK, LookFor, TopRR, TopRRSP, TopMLFQ, Max, MaxKnown, BoostDone, Skip,
         Scanned, Again, Down, Interrupt
<1>6. idx' \in [CPUs -> 0..NProc]
  BY <1>2 DEF ProcessesTypeOK, LookFor, TopRR, TopRRSP, TopMLFQ, Max, MaxKnown, BoostDone, Skip,
         Scanned, Again, Down, Interrupt
<1>7. ProcessesTypeOK'
  BY <1>3, <1>5, <1>6 DEF ProcessesTypeOK
<1>8. AtItsSlot'
  BY <1>3 DEF ProcessesTypeOK, AtItsSlot, LookFor, TopRR, TopRRSP, TopMLFQ, Max, MaxKnown,
         BoostDone, Skip, Scanned, Again, Down, Interrupt
<1>9. want' \in [CPUs -> -1..TopRank]
  <2>1. CASE Max(c)
    BY <2>1, <1>1, <1>2, RankBounds DEF Max, ClockOK
  <2>2. CASE BoostDone(c)
    BY <2>2, <1>1 DEF BoostDone, LookFor, ClockOK, AtItsSlot
  <2>3. CASE MaxKnown(c) \/ Down(c)
    BY <2>3, <1>1 DEF MaxKnown, Down, LookFor, ClockOK
  <2>4. CASE TopRR(c) \/ TopRRSP(c) \/ TopMLFQ(c) \/ Again(c)
    BY <2>4, <1>1 DEF TopRR, TopRRSP, TopMLFQ, Again, LookFor, ClockOK
  <2>5. CASE Skip(c) \/ Scanned(c) \/ UNCHANGED want
    BY <2>5 DEF Skip, Scanned, ClockOK
  <2> QED BY <2>1, <2>2, <2>3, <2>4, <2>5
<1>10. elapsed' \in 0..BoostTicks /\ lag' \in [CPUs -> 0..BoostTicks]
  BY SchedulersAssumption DEF ClockOK, LookFor, TopRR, TopRRSP, TopMLFQ, Max, MaxKnown,
         BoostDone, Skip, Scanned, Again, Down, Interrupt
<1> QED BY <1>1, <1>4, <1>7, <1>8, <1>9, <1>10 DEF ClockOK

\* The boost changes the queues only.
LEMMA BoostMoves ==
    ASSUME FixedOK, Machine, UNCHANGED fixed, NEW c \in CPUs, Boost(c)
    PROVE  Machine'
<1> USE DEF Machine, fixed, clock
<1>1. idx[c] \in Slots /\ idx[c] + 1 \in 0..NProc
  BY ProcessesAssumption DEF Boost, ProcessesTypeOK, Slots
<1>2. QueueLevel(nice[idx[c]]) \in 0..2
  BY <1>1, QueueBounds DEF ProcessesTypeOK
<1>3. ProcessesTypeOK'
  BY <1>1, <1>2, ProcessesAssumption DEF Boost, ProcessesTypeOK
<1>4. Exclusive' /\ AtItsSlot'
  BY DEF Boost, Exclusive, AtItsSlot, ProcessesTypeOK
<1> QED BY <1>3, <1>4 DEF Boost, ClockOK, TopRank

\* A process that is RUNNABLE runs on no CPU, so it may be taken.
LEMMA RunTakes ==
    ASSUME FixedOK, Machine, UNCHANGED fixed, NEW c \in CPUs, Run(c)
    PROVE  Machine'
<1> USE DEF Machine, fixed, clock
<1>1. idx[c] \in Slots /\ state[idx[c]] = "RUNNABLE"
  BY ProcessesAssumption DEF Run, Chosen, ProcessesTypeOK, Slots
<1>2. \A d \in CPUs : proc[d] # idx[c]
  BY <1>1 DEF Exclusive
<1>3. proc[c] = NoProc
  BY DEF Run, AtItsSlot
<1>4. ProcessesTypeOK'
  BY <1>1 DEF Run, Dispatch, ProcessesTypeOK, ProcState
<1>5. Exclusive'
  BY <1>1, <1>2, <1>3, SlotFacts DEF Run, Dispatch, ProcessesTypeOK, Exclusive
<1>6. AtItsSlot'
  BY <1>1 DEF Run, Dispatch, ProcessesTypeOK, AtItsSlot
<1> QED BY <1>4, <1>5, <1>6 DEF Run, ClockOK, TopRank

-----------------------------------------------------------------------------
\* A process that gives up the CPU is RUNNING there and nowhere else.
LEMMA SwitchBackReleases ==
    ASSUME FixedOK, Machine, UNCHANGED SCHEDULER, NEW c \in CPUs, cpc[c] = "run",
           NEW to \in {"RUNNABLE", "SLEEPING", "UNUSED"}, NEW enabled \in BOOLEAN,
           state' = [state EXCEPT ![proc[c]] = to],
           SwitchBack(c, enabled)
    PROVE  /\ Exclusive' /\ AtItsSlot'
           /\ state' \in [Slots -> ProcState] /\ proc' \in [CPUs -> Slots \cup {NoProc}]
           /\ intr' \in [CPUs -> BOOLEAN] /\ found' \in [CPUs -> BOOLEAN]
           /\ cpc' \in [CPUs -> {"top", "max", "boost", "scan", "run", "wfi"}]
           /\ idx' \in [CPUs -> 0..NProc]
<1> USE DEF Machine
<1>1. proc[c] \in Slots /\ proc[c] = idx[c] /\ idx[c] + 1 \in 0..NProc /\ NoProc \notin Slots
  BY SlotFacts, ProcessesAssumption DEF AtItsSlot, Slots
<1>2. Exclusive'
  BY <1>1 DEF SwitchBack, Exclusive, ProcessesTypeOK
<1>3. AtItsSlot'
  BY <1>1 DEF SwitchBack, AtItsSlot, ProcessesTypeOK
<1> QED BY <1>1, <1>2, <1>3 DEF SwitchBack, ProcessesTypeOK, ProcState

LEMMA TickBounds ==
    ASSUME ClockOK, Tick
    PROVE  elapsed' \in 0..BoostTicks /\ lag' \in [CPUs -> 0..BoostTicks]
BY SchedulersAssumption DEF ClockOK, Tick, OneMore, clock

\* A demotion leaves the queues and the quantum within their bounds.
LEMMA YieldBounds ==
    ASSUME Machine, NEW c \in CPUs, Yield(c)
    PROVE  /\ queue_level' \in [Slots -> 0..2]
           /\ runtime_in_queue' \in [Slots -> 0..(Quantum - 1)]
<1> DEFINE p == proc[c]
           ran == runtime_in_queue[p] + 1
           demoted == \/ queue_level[p] = 2 /\ ran >= 1
                      \/ queue_level[p] = 1 /\ ran >= Quantum
<1>1. p \in Slots
  BY DEF Machine, AtItsSlot, Yield
<1>2. queue_level[p] \in 0..2 /\ runtime_in_queue[p] \in 0..(Quantum - 1) /\ Quantum \in Nat \ {0}
  BY <1>1, ProcessesAssumption DEF Machine, ProcessesTypeOK
<1>3. (IF demoted THEN queue_level[p] - 1 ELSE queue_level[p]) \in 0..2
  BY <1>2
<1>4. (IF demoted THEN 0 ELSE IF queue_level[p] = 0 THEN runtime_in_queue[p] ELSE ran)
         \in 0..(Quantum - 1)
  BY <1>2
<1>5. CASE SCHEDULER # "MLFQ"
  BY <1>5 DEF Yield, Machine, ProcessesTypeOK
<1>6. CASE SCHEDULER = "MLFQ"
  <2>1. /\ queue_level' = [queue_level EXCEPT ![p] = IF demoted THEN @ - 1 ELSE @]
        /\ runtime_in_queue' = [runtime_in_queue EXCEPT ![p] =
              IF demoted THEN 0 ELSE IF queue_level[p] = 0 THEN @ ELSE ran]
    BY <1>6 DEF Yield
  <2> HIDE DEF p, ran, demoted
  <2> QED BY <2>1, <1>3, <1>4 DEF Machine, ProcessesTypeOK
<1> QED BY <1>5, <1>6

LEMMA LeaveReleases ==
    ASSUME FixedOK, Machine, UNCHANGED fixed, NEW c \in CPUs, Leave(c)
    PROVE  Machine'
<1> USE DEF Machine, fixed, clock
<1>1. CASE TimerYield(c)
  <2>1. Yield(c) /\ UNCHANGED want
    BY <1>1 DEF TimerYield
  <2>2. elapsed' \in 0..BoostTicks /\ lag' \in [CPUs -> 0..BoostTicks]
    BY <1>1, TickBounds DEF TimerYield, ClockOK
  <2>3. ProcessesTypeOK' /\ Exclusive' /\ AtItsSlot'
    BY <2>1, SwitchBackReleases, YieldBounds DEF Yield, ProcessesTypeOK
  <2> QED BY <2>1, <2>2, <2>3 DEF ClockOK, TopRank
<1>2. CASE GiveUp(c) /\ UNCHANGED <<want, clock>>
  <2>1. ProcessesTypeOK' /\ Exclusive' /\ AtItsSlot'
    BY <1>2, SwitchBackReleases DEF GiveUp, Sleep, Exit, ProcessesTypeOK
  <2> QED BY <1>2, <2>1 DEF ClockOK, TopRank
<1> QED BY <1>1, <1>2 DEF Leave

\* What a process does keeps the set of those that run.
LEMMA WorkKeeps ==
    ASSUME FixedOK, Machine, UNCHANGED fixed, NEW c \in CPUs,
           Work(c, setup.incs, setup.used), UNCHANGED <<want, clock>>
    PROVE  Machine'
<1> USE DEF Machine, fixed, clock, cpus
<1>1. ClockOK'
  BY DEF ClockOK, TopRank
<1>2. CASE \E q \in setup.used : Fork(c, q)
  <2>1. PICK q \in Slots : Fork(c, q)
    BY <1>2, SetupFacts
  <2>2. proc[c] \in Slots /\ QueueLevel(nice[proc[c]]) \in 0..2 /\ 0 \in 0..(Quantum - 1)
    BY <2>1, QueueBounds, ProcessesAssumption DEF Fork, AtItsSlot, ProcessesTypeOK
  <2>3. ProcessesTypeOK'
    BY <2>1, <2>2 DEF Fork, ProcessesTypeOK, ProcState
  <2>4. Exclusive' /\ AtItsSlot'
    BY <2>1 DEF Fork, Exclusive, AtItsSlot, ProcessesTypeOK
  <2> QED BY <2>3, <2>4, <1>1
<1>3. CASE \E q \in Slots : Wakeup(c, q)
  <2>1. PICK q \in Slots : Wakeup(c, q)
    BY <1>3
  <2>2. ProcessesTypeOK'
    BY <2>1 DEF Wakeup, ProcessesTypeOK, ProcState
  <2>3. Exclusive' /\ AtItsSlot'
    BY <2>1 DEF Wakeup, Exclusive, AtItsSlot, ProcessesTypeOK
  <2> QED BY <2>2, <2>3, <1>1
<1>4. CASE \E q \in Slots : \E inc \in setup.incs : Nice(c, q, inc)
  <2>1. PICK q \in Slots, inc \in Int : Nice(c, q, inc)
    BY <1>4, SetupFacts
  <2>2. NiceSum(nice[q], inc) \in -20..19 /\ 0 \in 0..(Quantum - 1)
    BY NiceBounds, ProcessesAssumption DEF ProcessesTypeOK
  <2>3. nice' \in [Slots -> -20..19]
    BY <2>1, <2>2 DEF Nice, ProcessesTypeOK
  <2>4. QueueLevel(nice'[q]) \in 0..2
    BY <2>3, QueueBounds
  <2>5. ProcessesTypeOK'
    BY <2>1, <2>2, <2>3, <2>4 DEF Nice, ProcessesTypeOK
  <2>6. Exclusive' /\ AtItsSlot'
    BY <2>1 DEF Nice, Exclusive, AtItsSlot
  <2> QED BY <2>5, <2>6, <1>1
<1> QED BY <1>2, <1>3, <1>4 DEF Work

-----------------------------------------------------------------------------
LEMMA RecordTypes ==
    ASSUME HistoryOK, Record
    PROVE  HistoryOK'
BY DEF HistoryOK, Record

Inductive == FixedOK /\ Machine /\ HistoryOK

LEMMA InductiveInit == Init => Inductive
<1> SUFFICES ASSUME Init PROVE Inductive
  OBVIOUS
<1> USE DEF Init, ProcessesInit
<1>1. FixedOK /\ HistoryOK
  BY DEF FixedOK, HistoryOK
<1>2. 0 \in 0..(Quantum - 1) /\ 0 \in 0..NProc /\ QueueLevel(0) \in 0..2 /\ 0 \in -20..19
  BY ProcessesAssumption DEF QueueLevel
<1>3. ProcessesTypeOK
  BY <1>2 DEF ProcessesTypeOK, ProcState
<1>4. 0 \in -1..TopRank /\ 0 \in 0..BoostTicks
  BY <1>1, <1>3, RankBounds, SlotFacts, SchedulersAssumption
<1>5. Exclusive /\ AtItsSlot /\ ClockOK
  BY <1>4, SlotFacts DEF Exclusive, AtItsSlot, ClockOK
<1> QED BY <1>1, <1>3, <1>5 DEF Inductive, Machine

LEMMA InductiveStep == Inductive /\ [Next]_vars => Inductive'
<1> SUFFICES ASSUME Inductive, [Next]_vars PROVE Inductive'
  OBVIOUS
<1> USE DEF Inductive
<1>1. CASE UNCHANGED vars
  <2>1. FixedOK' /\ HistoryOK'
    BY <1>1 DEF vars, fixed, FixedOK, HistoryOK
  <2>2. Machine'
    BY <1>1 DEF vars, fixed, table, cpus, clock, Machine, ProcessesTypeOK, ClockOK, AtItsSlot,
                Exclusive, TopRank
  <2> QED BY <2>1, <2>2
<1>2. CASE Next
  <2>1. FixedOK' /\ HistoryOK' /\ UNCHANGED fixed
    BY <1>2, RecordTypes DEF Next, FixedOK, fixed
  <2>2. PICK c \in setup.cpus :
          \/ Scheduler(c)
          \/ Leave(c)
          \/ Work(c, setup.incs, setup.used) /\ UNCHANGED <<want, clock>>
          \/ TimerIdle(c)
    BY <1>2 DEF Next
  <2>3. c \in CPUs
    BY SetupFacts
  <2>4. CASE Scheduler(c)
    BY <2>1, <2>3, <2>4, SchedulerMoves, BoostMoves, RunTakes DEF Scheduler
  <2>5. CASE Leave(c)
    BY <2>1, <2>3, <2>5, LeaveReleases
  <2>6. CASE Work(c, setup.incs, setup.used) /\ UNCHANGED <<want, clock>>
    BY <2>1, <2>3, <2>6, WorkKeeps
  <2>7. CASE TimerIdle(c)
    <3>1. elapsed' \in 0..BoostTicks /\ lag' \in [CPUs -> 0..BoostTicks]
      BY <2>7, TickBounds DEF TimerIdle, Machine
    <3> QED BY <2>1, <2>7, <3>1 DEF TimerIdle, Machine, table, cpus, fixed, ProcessesTypeOK,
                ClockOK, AtItsSlot, Exclusive, TopRank
  <2> QED BY <2>1, <2>2, <2>4, <2>5, <2>6, <2>7
<1> QED BY <1>1, <1>2

LEMMA AlwaysInductive == Spec => []Inductive
BY InductiveInit, InductiveStep, PTL DEF Spec

\* No process is run by two CPUs or lost by all of them, however many CPUs scan the table
\* (kernel/proc.c: scheduler, scheduler_rrsp, scheduler_mlfq).
THEOREM NobodyRunsTwice == Spec => []RunsOnOneCPU
<1>1. Inductive => RunsOnOneCPU
  BY DEF Inductive, Machine, FixedOK, HistoryOK, ClockOK, Exclusive, RunsOnOneCPU, TypeOK
<1> QED BY AlwaysInductive, <1>1, PTL

-----------------------------------------------------------------------------
(* How a step moves a CPU through the table.                               *)

CPUStep(c) ==
    \/ Scheduler(c)
    \/ Leave(c)
    \/ Work(c, setup.incs, setup.used) /\ UNCHANGED <<want, clock>>
    \/ TimerIdle(c)

Stays(c) == cpc'[c] = cpc[c] /\ idx'[c] = idx[c] /\ want'[c] = want[c]

\* To the end of the loop, or back to its top.
Stops(c) ==
    /\ cpc'[c] \in {"top", "wfi"}
    /\ cpc[c] # "run" /\ (cpc[c] = "scan" => idx[c] = NProc)

Boosts(c) == cpc'[c] = "boost" /\ cpc[c] \in {"top", "boost"}

Restarts(c) ==
    /\ Begins(c) /\ cpc'[c] \in {"scan", "max"}
    /\ cpc[c] \in {"top", "boost"} \/ (cpc[c] = "scan" /\ idx[c] = NProc)

\* One more process for the highest priority.
LooksAt(c) ==
    /\ cpc[c] = "max" /\ cpc'[c] = "max" /\ idx[c] \in Slots
    /\ idx'[c] = idx[c] + 1 /\ want'[c] >= want[c]
    /\ state[idx[c]] = "RUNNABLE" => want'[c] >= Rank(idx[c])

Turns(c) ==
    /\ cpc[c] = "max" /\ idx[c] = NProc
    /\ cpc'[c] = "scan" /\ idx'[c] = 0 /\ want'[c] = want[c]

Takes(c) ==
    /\ cpc[c] = "scan" /\ idx[c] \in Slots /\ Chosen(c)
    /\ cpc'[c] = "run" /\ idx'[c] = idx[c] /\ want'[c] = want[c]

Passes(c) ==
    /\ cpc[c] = "scan" /\ idx[c] \in Slots /\ ~Chosen(c)
    /\ cpc'[c] = "scan" /\ idx'[c] = idx[c] + 1 /\ want'[c] = want[c]

Returns(c) ==
    /\ cpc[c] = "run" /\ idx[c] \in Slots /\ state[idx[c]] = "RUNNING"
    /\ cpc'[c] = "scan" /\ idx'[c] = idx[c] + 1 /\ want'[c] = want[c]

Descends(c) ==
    /\ cpc[c] = "scan" /\ idx[c] = NProc
    /\ cpc'[c] = "scan" /\ idx'[c] = 0 /\ want'[c] = want[c] - 1

Moves(c) ==
    \/ Stays(c) \/ Stops(c) \/ Boosts(c) \/ Restarts(c) \/ LooksAt(c) \/ Turns(c)
    \/ Takes(c) \/ Passes(c) \/ Returns(c) \/ Descends(c)

\* Every step moves the CPU that takes it in one of these ways, the others stay, and
\* only a CPU that takes a process makes one RUNNING.
LEMMA EveryMove ==
    ASSUME Inductive, Inductive', UNCHANGED fixed, NEW c \in CPUs, CPUStep(c)
    PROVE  /\ Moves(c)
           /\ \A d \in CPUs : d # c => Stays(d)
           /\ \A q \in Slots : Dispatched(q) => Takes(c) /\ q = idx[c]
<1> USE DEF Inductive, Machine, fixed, clock, table, cpus
<1>1. /\ idx[c] \in 0..NProc /\ NProc \in Nat \ {0} /\ (idx[c] < NProc => idx[c] \in Slots)
      /\ want[c] \in Int
  BY RankBounds, SlotFacts, ProcessesAssumption DEF ProcessesTypeOK, ClockOK, Slots
<1>2. cpc \in [CPUs -> {"top", "max", "boost", "scan", "run", "wfi"}]
      /\ idx \in [CPUs -> 0..NProc] /\ want \in [CPUs -> -1..TopRank]
      /\ state \in [Slots -> ProcState]
  BY DEF ProcessesTypeOK, ClockOK
<1>3. SCHEDULER \in {"RR", "RRSP", "MLFQ"}
  BY SetupFacts
<1>4. /\ SCHEDULER = "RR" => TopRank = 0
      /\ SCHEDULER = "MLFQ" => TopRank = 2
  BY DEF TopRank
<1>5. CASE TopRR(c)
  <2>1. Restarts(c)
    BY <1>2, <1>3, <1>4, <1>5 DEF TopRR, LookFor, Restarts, Begins
  <2> QED BY <2>1, <1>2, <1>5 DEF TopRR, LookFor, Moves, Stays, Dispatched
<1>6. CASE TopRRSP(c)
  <2>1. Restarts(c)
    BY <1>2, <1>6 DEF TopRRSP, LookFor, Restarts, Begins
  <2> QED BY <2>1, <1>2, <1>6 DEF TopRRSP, LookFor, Moves, Stays, Dispatched
<1>7. CASE TopMLFQ(c)
  <2>1. Restarts(c) \/ Boosts(c)
    BY <1>2, <1>4, <1>7 DEF TopMLFQ, LookFor, Restarts, Boosts, Begins
  <2> QED BY <2>1, <1>2, <1>7 DEF TopMLFQ, LookFor, Moves, Stays, Dispatched
<1>8. CASE Max(c)
  <2>1. idx[c] \in Slots /\ Rank(idx[c]) \in Int
    BY <1>1, <1>8, RankBounds DEF Max
  <2>2. LooksAt(c)
    BY <2>1, <1>1, <1>2, <1>8 DEF Max, LooksAt
  <2> QED BY <2>2, <1>2, <1>8 DEF Max, Moves, Stays, Dispatched
<1>9. CASE MaxKnown(c)
  <2>1. Stops(c) \/ Turns(c)
    BY <1>2, <1>9 DEF MaxKnown, LookFor, Stops, Turns
  <2> QED BY <2>1, <1>2, <1>9 DEF MaxKnown, LookFor, Moves, Stays, Dispatched
<1>10. CASE Boost(c)
  BY <1>2, <1>10 DEF Boost, Moves, Boosts, Stays, Dispatched
<1>11. CASE BoostDone(c)
  <2>1. SCHEDULER = "MLFQ"
    BY <1>11 DEF BoostDone, AtItsSlot
  <2>2. Restarts(c)
    BY <2>1, <1>2, <1>4, <1>11 DEF BoostDone, LookFor, Restarts, Begins
  <2> QED BY <2>2, <1>2, <1>11 DEF BoostDone, LookFor, Moves, Stays, Dispatched
<1>12. CASE Run(c)
  <2>1. Takes(c)
    BY <1>1, <1>2, <1>12 DEF Run, Dispatch, Takes
  <2> QED BY <2>1, <1>2, <1>12 DEF Run, Dispatch, Moves, Stays, Dispatched
<1>13. CASE Skip(c)
  <2>1. Passes(c)
    BY <1>1, <1>2, <1>13 DEF Skip, Passes
  <2> QED BY <2>1, <1>2, <1>13 DEF Skip, Moves, Stays, Dispatched
<1>14. CASE Scanned(c)
  <2>1. Stops(c)
    BY <1>2, <1>14 DEF Scanned, Stops
  <2> QED BY <2>1, <1>2, <1>14 DEF Scanned, Moves, Stays, Dispatched
<1>15. CASE Again(c)
  <2>1. Restarts(c)
    BY <1>2, <1>4, <1>15 DEF Again, LookFor, Restarts, Begins
  <2> QED BY <2>1, <1>2, <1>15 DEF Again, LookFor, Moves, Stays, Dispatched
<1>16. CASE Down(c)
  <2>1. Stops(c) \/ Descends(c)
    BY <1>2, <1>16 DEF Down, LookFor, Stops, Descends
  <2> QED BY <2>1, <1>2, <1>16 DEF Down, LookFor, Moves, Stays, Dispatched
<1>17. CASE Interrupt(c) /\ UNCHANGED <<want, clock>>
  <2>1. Stops(c)
    BY <1>2, <1>17 DEF Interrupt, Stops
  <2> QED BY <2>1, <1>2, <1>17 DEF Interrupt, Moves, Stays, Dispatched
<1>18. CASE Leave(c)
  <2>1. cpc[c] = "run" /\ idx[c] \in Slots /\ proc[c] = idx[c]
    BY <1>18 DEF Leave, TimerYield, Yield, GiveUp, Sleep, Exit, AtItsSlot
  <2>2. state[idx[c]] = "RUNNING"
    BY <2>1 DEF Exclusive
  <2>3. /\ cpc' = [cpc EXCEPT ![c] = "scan"] /\ idx' = [idx EXCEPT ![c] = @ + 1]
        /\ want' = want
        /\ \E s \in {"RUNNABLE", "SLEEPING", "UNUSED"} : state' = [state EXCEPT ![idx[c]] = s]
    BY <1>18, <2>1 DEF Leave, TimerYield, Yield, GiveUp, Sleep, Exit, SwitchBack
  <2>4. Returns(c)
    BY <2>1, <2>2, <2>3, <1>2 DEF Returns
  <2> QED BY <2>1, <2>3, <2>4, <1>2 DEF Moves, Stays, Dispatched
<1>19. CASE Work(c, setup.incs, setup.used) /\ UNCHANGED <<want, clock>>
  BY <1>2, <1>19 DEF Work, Fork, Wakeup, Nice, Moves, Stays, Dispatched
<1>20. CASE TimerIdle(c)
  BY <1>2, <1>20 DEF TimerIdle, Moves, Stays, Dispatched
<1> QED
  BY <1>5, <1>6, <1>7, <1>8, <1>9, <1>10, <1>11, <1>12, <1>13, <1>14, <1>15, <1>16, <1>17,
     <1>18, <1>19, <1>20 DEF CPUStep, Scheduler

\* A step of the specification is one of a CPU that was started.
LEMMA NextIsCPUStep ==
    ASSUME FixedOK, Next
    PROVE  /\ UNCHANGED fixed /\ Record
           /\ \E c \in setup.cpus : c \in CPUs /\ CPUStep(c)
BY SetupFacts DEF Next, CPUStep

-----------------------------------------------------------------------------
(* Priorities within a pass.                                               *)

\* Who is eligible waits, and is not behind a CPU that looks for its rank.
InOrder(c) ==
    \A p \in eligible[c] :
        /\ state[p] = "RUNNABLE"
        /\ cpc[c] = "max" /\ p < idx[c] => Rank(p) <= want[c]
        /\ cpc[c] \in {"scan", "run"} =>
              Rank(p) <= want[c] /\ (p < idx[c] => Rank(p) < want[c])

AllInOrder == \A c \in CPUs : InOrder(c)

LEMMA OrderStep ==
    ASSUME Inductive, Inductive', AllInOrder, Next
    PROVE  AllInOrder'
<1> SUFFICES ASSUME NEW d \in CPUs, NEW p \in eligible'[d]
             PROVE  /\ state'[p] = "RUNNABLE"
                    /\ cpc'[d] = "max" /\ p < idx'[d] => Rank(p)' <= want'[d]
                    /\ cpc'[d] \in {"scan", "run"} =>
                          Rank(p)' <= want'[d] /\ (p < idx'[d] => Rank(p)' < want'[d])
  BY DEF AllInOrder, InOrder
<1> USE DEF Inductive, Machine
<1>1. UNCHANGED fixed /\ Record
  BY NextIsCPUStep
<1>2. Moves(d)
  <2>1. PICK c \in CPUs : CPUStep(c)
    BY NextIsCPUStep
  <2> QED BY <1>1, <2>1, EveryMove DEF Moves
<1>3. p \in Slots /\ Slots \subseteq Nat
  BY SlotFacts DEF HistoryOK
<1>4. Rank(p)' \in 0..TopRank /\ TopRank' = TopRank /\ TopRank \in Nat
  <2>1. TopRank' = TopRank
    BY <1>1 DEF TopRank, fixed
  <2>2. SCHEDULER \in {"RR", "RRSP", "MLFQ"} /\ SCHEDULER' = SCHEDULER
    BY <1>1, SetupFacts DEF fixed
  <2>3. nice'[p] \in -20..19 /\ queue_level'[p] \in 0..2
    BY <1>3 DEF ProcessesTypeOK
  <2>4. Rank(p)' \in 0..TopRank /\ TopRank \in Nat
    BY <2>2, <2>3 DEF Rank, TopRank
  <2> QED BY <2>1, <2>4
<1>5. CASE Begins(d)
  <2>1. state'[p] = "RUNNABLE"
    BY <1>1, <1>5 DEF Record
  <2> QED BY <2>1, <1>3, <1>4, <1>5 DEF Begins
<1>6. CASE ~Begins(d)
  <2>1. p \in eligible[d] /\ Waits(p)
    BY <1>1, <1>6 DEF Record
  <2>2. /\ state[p] = "RUNNABLE" /\ state'[p] = "RUNNABLE" /\ Rank(p)' = Rank(p)
        /\ cpc[d] = "max" /\ p < idx[d] => Rank(p) <= want[d]
        /\ cpc[d] \in {"scan", "run"} =>
              Rank(p) <= want[d] /\ (p < idx[d] => Rank(p) < want[d])
    BY <2>1 DEF AllInOrder, InOrder, Waits
  <2>3. Rank(p) \in Int /\ want[d] \in Int /\ want'[d] \in Int /\ idx[d] \in Int /\ p \in Int
    BY <1>3, <1>4, <2>2 DEF ClockOK, ProcessesTypeOK
  <2>4. CASE Stays(d)
    BY <2>2, <2>4 DEF Stays
  <2>5. CASE Stops(d) \/ Boosts(d)
    BY <2>2, <2>5 DEF Stops, Boosts
  <2>6. CASE LooksAt(d)
    BY <2>2, <2>3, <2>6 DEF LooksAt
  <2>7. CASE Turns(d) \/ Descends(d)
    BY <2>2, <2>3, <2>7, <1>3, ProcessesAssumption DEF Turns, Descends, Slots
  <2>8. CASE Takes(d)
    BY <2>2, <2>8 DEF Takes
  <2>9. CASE Passes(d)
    BY <2>2, <2>3, <2>9 DEF Passes, Chosen
  <2>10. CASE Returns(d)
    BY <2>2, <2>3, <2>10 DEF Returns
  <2> QED BY <1>2, <1>6, <2>4, <2>5, <2>6, <2>7, <2>8, <2>9, <2>10 DEF Moves, Restarts
<1> QED BY <1>5, <1>6

LEMMA AlwaysInOrder == Spec => []AllInOrder
<1>1. Init => AllInOrder
  BY DEF Init, AllInOrder, InOrder
<1>2. Inductive /\ Inductive' /\ AllInOrder /\ [Next]_vars => AllInOrder'
  <2>1. AllInOrder /\ UNCHANGED vars => AllInOrder'
    BY DEF AllInOrder, InOrder, vars, fixed, table, cpus, Rank
  <2> QED BY <2>1, OrderStep
<1> QED BY AlwaysInductive, <1>1, <1>2, PTL DEF Spec

\* Rule 1 as far as it holds: within a pass nobody is passed over for a lower rank, by any
\* of the CPUs (kernel/proc.c:595, 665), whatever the others and nice() do meanwhile.
THEOREM NobodyIsPassedOver == Spec => RankWithinPass
<1> DEFINE A == \A c \in CPUs : \A p \in eligible[c] :
                    cpc[c] = "scan" /\ cpc'[c] = "run" => Rank(p) <= Rank(idx[c])
<1>1. Inductive /\ Inductive' /\ AllInOrder /\ [Next]_vars => [A]_vars
  <2> SUFFICES ASSUME Inductive, Inductive', AllInOrder, Next,
                      NEW d \in CPUs, NEW p \in eligible[d],
                      cpc[d] = "scan", cpc'[d] = "run"
               PROVE  Rank(p) <= Rank(idx[d])
    OBVIOUS
  <2>1. PICK c \in CPUs : CPUStep(c)
    BY NextIsCPUStep DEF Inductive
  <2>2. Moves(d)
    BY <2>1, EveryMove, NextIsCPUStep DEF Inductive, Moves
  <2>3. Takes(d)
    BY <2>2 DEF Moves, Stays, Stops, Boosts, Restarts, LooksAt, Turns, Passes, Returns, Descends
  <2>4. Rank(p) <= want[d]
    BY DEF AllInOrder, InOrder
  <2> QED BY <2>3, <2>4 DEF Takes, Chosen
<1> QED BY AlwaysInductive, AlwaysInOrder, <1>1, PTL DEF Spec, RankWithinPass

-----------------------------------------------------------------------------
(* Turns among equals, on one CPU.                                         *)

\* q had the CPU while p waited.  If p comes after q in the table, the CPU is on its way
\* from q to p; if p comes before q, the CPU is behind q or in front of p whenever it looks
\* for their rank.
Turn(c, p, q) ==
    /\ q # p /\ state[p] = "RUNNABLE" /\ Rank(q) = Rank(p)
    /\ q < p => /\ cpc[c] \in {"scan", "run"} /\ want[c] = Rank(p)
                /\ idx[c] <= p
                /\ q <= idx[c] /\ (cpc[c] = "scan" => q < idx[c])
    /\ p < q /\ cpc[c] \in {"scan", "run"} /\ want[c] = Rank(p) =>
                \/ idx[c] <= p
                \/ q <= idx[c] /\ (cpc[c] = "scan" => q < idx[c])

InTurn ==
    Cardinality(setup.cpus) = 1 =>
        \A c \in setup.cpus : \A p \in Slots : \A q \in overtook[p] : Turn(c, p, q)

LEMMA OneCPU ==
    ASSUME FixedOK, Cardinality(setup.cpus) = 1, NEW c \in setup.cpus, NEW d \in setup.cpus
    PROVE  c = d
<1>1. IsFiniteSet(setup.cpus)
  BY SetupFacts, ProcessesAssumption, FS_Subset
<1>2. PICK x : setup.cpus = {x}
  BY <1>1, FS_Singleton
<1> QED BY <1>2

\* How a move of the CPU keeps the turn of two processes that keep waiting and keep
\* their rank.
LEMMA TurnMoves ==
    ASSUME Inductive, Inductive', NEW c \in CPUs, Moves(c), NEW p \in Slots, NEW q \in Slots,
           Turn(c, p, q), Waits(p), Rank(q)' = Rank(q)
    PROVE  Turn(c, p, q)'
<1> USE DEF Inductive, Machine
<1>1. /\ p \in Nat /\ q \in Nat /\ p < NProc /\ q < NProc /\ NProc \in Nat
      /\ idx[c] \in Int /\ want[c] \in Int /\ Rank(p) \in Int
  <2>1. Rank(p) \in 0..TopRank /\ TopRank \in Nat
    BY RankBounds
  <2>2. idx[c] \in Int /\ want[c] \in Int
    BY <2>1, ProcessesAssumption DEF ClockOK, ProcessesTypeOK
  <2>3. p \in Nat /\ q \in Nat /\ p < NProc /\ q < NProc /\ NProc \in Nat
    BY ProcessesAssumption DEF Slots
  <2> QED BY <2>1, <2>2, <2>3
<1>2. /\ q # p /\ state[p] = "RUNNABLE" /\ state'[p] = "RUNNABLE" /\ Rank(q) = Rank(p)
      /\ Rank(p)' = Rank(p) /\ Rank(q)' = Rank(p)
  BY DEF Turn, Waits
<1>3. cpc[c] \in {"scan", "run"} /\ want[c] = Rank(p) /\ idx[c] = p =>
         cpc[c] = "scan" /\ Chosen(c)
  BY <1>2 DEF Chosen, AtItsSlot, Exclusive
<1>4. CASE q < p
  <2>1. /\ cpc[c] \in {"scan", "run"} /\ want[c] = Rank(p)
        /\ idx[c] <= p
        /\ q <= idx[c] /\ (cpc[c] = "scan" => q < idx[c])
    BY <1>4 DEF Turn
  <2>2. idx[c] # NProc
    BY <2>1, <1>1
  <2>3. Stays(c) \/ Takes(c) \/ Passes(c) \/ Returns(c)
    BY <2>1, <2>2 DEF Moves, Stops, Boosts, Restarts, LooksAt, Turns, Descends
  <2>4. CASE Stays(c)
    BY <1>1, <1>2, <1>4, <2>1, <2>4 DEF Stays, Turn
  <2>5. CASE Takes(c)
    BY <1>1, <1>2, <1>4, <2>1, <2>5 DEF Takes, Turn
  <2>6. CASE Passes(c)
    BY <1>1, <1>2, <1>3, <1>4, <2>1, <2>6 DEF Passes, Turn
  <2>7. CASE Returns(c)
    BY <1>1, <1>2, <1>3, <1>4, <2>1, <2>7 DEF Returns, Turn
  <2> QED BY <2>3, <2>4, <2>5, <2>6, <2>7
<1>5. CASE p < q
  <2> SUFFICES ASSUME cpc'[c] \in {"scan", "run"}, want'[c] = Rank(p)
               PROVE  \/ idx'[c] <= p
                      \/ q <= idx'[c] /\ (cpc'[c] = "scan" => q < idx'[c])
    BY <1>1, <1>2, <1>5 DEF Turn
  <2>1. cpc[c] \in {"scan", "run"} /\ want[c] = Rank(p) =>
                \/ idx[c] <= p
                \/ q <= idx[c] /\ (cpc[c] = "scan" => q < idx[c])
    BY <1>5 DEF Turn
  <2>2. CASE Stays(c) \/ Takes(c)
    BY <2>1, <2>2 DEF Stays, Takes
  <2>3. CASE Restarts(c) \/ Turns(c) \/ Descends(c)
    BY <1>1, <2>3 DEF Restarts, Begins, Turns, Descends
  <2>4. CASE Passes(c) \/ Returns(c)
    BY <1>1, <1>2, <1>3, <2>1, <2>4 DEF Passes, Returns
  <2>5. CASE Stops(c) \/ Boosts(c) \/ LooksAt(c)
    BY <2>5 DEF Stops, Boosts, LooksAt
  <2> QED BY <2>2, <2>3, <2>4, <2>5 DEF Moves
<1> QED BY <1>1, <1>2, <1>4, <1>5

LEMMA TurnStep ==
    ASSUME Inductive, Inductive', InTurn, Next
    PROVE  InTurn'
<1> USE DEF Inductive, Machine
<1>1. UNCHANGED fixed /\ Record
  BY NextIsCPUStep
<1>2. setup' = setup
  BY <1>1 DEF fixed
<1> SUFFICES ASSUME Cardinality(setup.cpus) = 1, NEW c \in setup.cpus, NEW p \in Slots,
                    NEW q \in overtook'[p]
             PROVE  Turn(c, p, q)'
  BY <1>2 DEF InTurn
<1>3. c \in CPUs /\ CPUStep(c)
  BY NextIsCPUStep, OneCPU
<1>4. Moves(c) /\ \A r \in Slots : Dispatched(r) => Takes(c) /\ r = idx[c]
  BY <1>1, <1>3, EveryMove
<1>5. /\ Waits(p) /\ q \in Slots /\ Rank(q)' = Rank(q)
      /\ q \in overtook[p] \/ (Dispatched(q) /\ Rank(q) = Rank(p))
  BY <1>1 DEF Record
<1>6. CASE q \in overtook[p]
  BY <1>3, <1>4, <1>5, <1>6, TurnMoves DEF InTurn
<1>7. CASE Dispatched(q) /\ Rank(q) = Rank(p)
  <2>1. Takes(c) /\ q = idx[c]
    BY <1>4, <1>5, <1>7
  <2>2. q # p /\ p \in Nat /\ q \in Nat
    BY <1>5, <1>7, SlotFacts DEF Waits, Dispatched
  <2> QED BY <1>5, <1>7, <2>1, <2>2 DEF Takes, Chosen, Turn, Waits
<1> QED BY <1>5, <1>6, <1>7

LEMMA AlwaysInTurn == Spec => []InTurn
<1>1. Init => InTurn
  BY DEF Init, InTurn
<1>2. Inductive /\ Inductive' /\ InTurn /\ [Next]_vars => InTurn'
  <2>1. ASSUME InTurn, UNCHANGED vars
        PROVE  InTurn'
    <3>1. UNCHANGED <<SCHEDULER, setup, state, nice, queue_level, cpc, idx, want, overtook>>
      BY <2>1 DEF vars, fixed, table, cpus
    <3>2. \A p : Rank(p)' = Rank(p)
      BY <3>1 DEF Rank
    <3>3. ASSUME NEW c, NEW p, NEW q, Turn(c, p, q)
          PROVE  Turn(c, p, q)'
      BY <3>1, <3>2, <3>3 DEF Turn
    <3> QED BY <2>1, <3>1, <3>3 DEF InTurn
  <2> QED BY <2>1, TurnStep
<1> QED BY AlwaysInductive, <1>1, <1>2, PTL DEF Spec

\* On one CPU a waiting process is overtaken by each of its rank once at most, under all
\* three schedulers (kernel/proc.c:527, 592, 663): the scan goes on behind who has run.
THEOREM NobodyOvertakesTwice == Spec => EqualsTakeTurns
<1> DEFINE A == Cardinality(setup.cpus) = 1 => \A p, q \in Slots :
                    state[p] = "RUNNABLE" /\ Rank(q) = Rank(p) /\ Dispatched(q)
                        => q \notin overtook[p]
<1>1. Inductive /\ Inductive' /\ InTurn /\ [Next]_vars => [A]_vars
  <2> SUFFICES ASSUME Inductive, Inductive', InTurn, Next, Cardinality(setup.cpus) = 1,
                      NEW p \in Slots, NEW q \in overtook[p],
                      Rank(q) = Rank(p), Dispatched(q), q \in Slots
               PROVE  FALSE
    OBVIOUS
  <2> USE DEF Inductive, Machine
  <2>1. PICK c \in setup.cpus : c \in CPUs /\ CPUStep(c)
    BY NextIsCPUStep
  <2>2. Takes(c) /\ q = idx[c]
    BY <2>1, EveryMove, NextIsCPUStep
  <2>3. Turn(c, p, q)
    BY <2>1 DEF InTurn
  <2>4. p \in Nat /\ q \in Nat
    BY SlotFacts
  <2> QED BY <2>2, <2>3, <2>4 DEF Takes, Chosen, Turn
<1> QED BY AlwaysInductive, AlwaysInTurn, <1>1, PTL DEF Spec, EqualsTakeTurns

-----------------------------------------------------------------------------
(* LifeCycle.                                                              *)

Forks(p) == pc[p] \in {"fork_parent", "fork_run"}

\* The child in the hand of a fork is a slot of its own that nobody else touches; it
\* has a parent from the second critical section on.
ForksInHand ==
    /\ \A p \in ProcSlots : Forks(p) =>
          /\ np[p] \in ProcSlots
          /\ procstate[np[p]] = "USED"
          /\ parent[np[p]] = IF pc[p] = "fork_run" THEN p ELSE NoSlot
    /\ \A p, q \in ProcSlots : Forks(p) /\ Forks(q) /\ np[p] = np[q] => p = q

\* A slot that no process runs in is at the start of its program, nobody points to it,
\* and it has no parent when it is free.
IdleSlots ==
    /\ InUse(initproc)
    /\ \A p \in ProcSlots : ~InUse(p) => pc[p] = "user"
    /\ \A p \in ProcSlots : procstate[p] = "UNUSED" => parent[p] = NoSlot
    /\ \A p \in ProcSlots : parent[p] # NoSlot => InUse(parent[p])

\* From its scan to its sleep, and while it sleeps, a process that waits has a child and
\* none of its children is a zombie.
WaitsFor(p) ==
    \/ pc[p] \in {"wait_check", "wait_sleep"}
    \/ pc[p] = "wait" /\ procstate[p] = "SLEEPING"

WaitersHaveChildren ==
    \A p \in ProcSlots : WaitsFor(p) => HasChild(p) /\ ZombieOf(p) = {}

Family ==
    /\ LifeTypeOK
    /\ ForksInHand
    /\ IdleSlots
    /\ EverybodyHasParent
    /\ WaitersHaveChildren

\* Pids are not given out twice.
PidsOnce ==
    /\ pid[initproc] = 1
    /\ \A p \in ProcSlots : pid[p] < nextpid
    /\ \A p, q \in ProcSlots : pid[p] = pid[q] /\ pid[p] # 0 => p = q

\* Only who is asked for is marked.
Marks ==
    /\ \A p \in ProcSlots : killed[p] => pid[p] \in asked
    /\ 0 \notin asked

\* Facts about slots and pids that the arithmetic of the proofs needs.
LEMMA ProcSlotFacts == initproc \in ProcSlots /\ NoSlot \notin ProcSlots /\ 1 \in 1..(MaxPid + 1)
BY LifeCycleAssumption DEF initproc, ProcSlots, NoSlot

\* userinit: one process, without parent and children.
LEMMA FamilyInit == LifeInit => Family
BY ProcSlotFacts, LifeCycleAssumption
   DEF LifeInit, Family, LifeTypeOK, ForksInHand, Forks, IdleSlots, InUse, EverybodyHasParent,
       WaitersHaveChildren, WaitsFor, HasChild, ZombieOf

\* A process that goes from one point of its program to another, outside of fork, and
\* to the sleep of wait only if it has something to wait for, leaves the family as it is.
LEMMA OnlyMoves ==
    ASSUME Family, NEW p \in ProcSlots, NEW from, NEW to, Goto(p, from, to),
           from \notin {"fork_parent", "fork_run"}, to \notin {"fork_parent", "fork_run"},
           to \in {"wait_check", "wait_sleep"} => HasChild(p) /\ ZombieOf(p) = {},
           UNCHANGED <<procstate, parent, np>>
    PROVE  ForksInHand' /\ IdleSlots' /\ EverybodyHasParent' /\ WaitersHaveChildren'
<1>1. ForksInHand'
  BY DEF Family, LifeTypeOK, ForksInHand, Forks, Goto
<1>2. IdleSlots'
  BY DEF Family, LifeTypeOK, IdleSlots, InUse, Goto
<1>3. EverybodyHasParent'
  BY DEF Family, EverybodyHasParent, InUse
<1>4. WaitersHaveChildren'
  BY DEF Family, LifeTypeOK, WaitersHaveChildren, WaitsFor, HasChild, ZombieOf, Goto
<1> QED BY <1>1, <1>2, <1>3, <1>4

\* Every step keeps the family.
LEMMA FamilyStep == Family /\ [LifeNext]_lifevars => Family'
<1> SUFFICES ASSUME Family, [LifeNext]_lifevars PROVE Family'
  OBVIOUS
<1>1. ASSUME NEW p \in ProcSlots, UNCHANGED workload, Trap(p) PROVE Family'
  <2>1. LifeTypeOK'
    BY <1>1 DEF Family, LifeTypeOK, Trap, Goto, fields, locks, history
  <2>2. ForksInHand' /\ IdleSlots' /\ EverybodyHasParent' /\ WaitersHaveChildren'
    BY <1>1, OnlyMoves DEF fields, Trap
  <2> QED BY <2>1, <2>2 DEF Family
<1>2. ASSUME NEW p \in ProcSlots, UNCHANGED workload, Fault(p) PROVE Family'
  <2>1. LifeTypeOK'
    <3>1. asked \subseteq 0..MaxPid /\ pid[p] \in 0..MaxPid
      BY DEF Family, LifeTypeOK
    <3>2. asked' \subseteq 0..MaxPid
      BY <1>2, <3>1 DEF Fault
    <3> QED
      BY <1>2, <3>2 DEF Family, LifeTypeOK, Fault, Goto, locks
  <2>2. ForksInHand' /\ IdleSlots' /\ EverybodyHasParent' /\ WaitersHaveChildren'
    BY <1>2, OnlyMoves DEF Fault
  <2> QED BY <2>1, <2>2 DEF Family
<1>3. ASSUME NEW p \in ProcSlots, UNCHANGED workload, Call(p) PROVE Family'
  <2>1. LifeTypeOK'
    BY <1>3 DEF Family, LifeTypeOK, Call, Goto, Enters, fields, locks, history
  <2>2. ForksInHand' /\ IdleSlots' /\ EverybodyHasParent' /\ WaitersHaveChildren'
    BY <1>3, OnlyMoves DEF fields, Call, Enters
  <2> QED BY <2>1, <2>2 DEF Family
<1>4. ASSUME NEW p \in ProcSlots, NEW q \in ProcSlots, UNCHANGED workload, ForkAlloc(p, q) PROVE Family'
  <2>1. LifeTypeOK'
    BY <1>4, LifeCycleAssumption DEF Family, LifeTypeOK, ForkAlloc, Goto, Enters, locks,
         history
  <2>2. ForksInHand'
    BY <1>4 DEF Family, LifeTypeOK, ForksInHand, Forks, IdleSlots, ForkAlloc, Goto, Enters,
         Allocated
  <2>3. IdleSlots'
    BY <1>4 DEF Family, IdleSlots, InUse, ForkAlloc, Goto, Enters, Allocated
  <2>4. EverybodyHasParent'
    BY <1>4 DEF Family, InUse, EverybodyHasParent, ForkAlloc, Allocated
  <2>5. WaitersHaveChildren'
    BY <1>4 DEF Family, WaitersHaveChildren, WaitsFor, HasChild, ZombieOf, ForkAlloc,
         Goto, Enters
  <2> QED BY <2>1, <2>2, <2>3, <2>4, <2>5 DEF Family
<1>5. ASSUME NEW p \in ProcSlots, NEW q \in ProcSlots, UNCHANGED workload, ForkFails(p, q) PROVE Family'
  <2>1. LifeTypeOK'
    BY <1>5, LifeCycleAssumption DEF Family, LifeTypeOK, ForkFails, Goto, Enters, locks,
         history
  <2>2. ForksInHand' /\ IdleSlots' /\ EverybodyHasParent' /\ WaitersHaveChildren'
    BY <1>5, OnlyMoves DEF ForkFails, Enters
  <2> QED BY <2>1, <2>2 DEF Family
<1>6. ASSUME NEW p \in ProcSlots, NEW n \in KillArgs, UNCHANGED workload, Kill(p, n) PROVE Family'
  <2>1. LifeTypeOK'
    BY <1>6, LifeCycleAssumption DEF Family, LifeTypeOK, Kill, Goto, Enters, locks
  <2>2. ForksInHand'
    BY <1>6 DEF Family, ForksInHand, Forks, Kill, Goto, Enters
  <2>3. IdleSlots'
    BY <1>6 DEF Family, IdleSlots, InUse, Kill, Goto, Enters
  <2>4. EverybodyHasParent'
    BY <1>6 DEF Family, InUse, EverybodyHasParent, Kill
  <2>5. WaitersHaveChildren'
    BY <1>6 DEF Family, WaitersHaveChildren, WaitsFor, HasChild, ZombieOf, Kill, Goto,
         Enters
  <2> QED BY <2>1, <2>2, <2>3, <2>4, <2>5 DEF Family
<1>7. ASSUME NEW p \in ProcSlots, UNCHANGED workload, ForkParent(p) PROVE Family'
  <2>1. LifeTypeOK'
    BY <1>7 DEF Family, LifeTypeOK, Forks, ForkParent, Goto, locks, history
  <2>2. ForksInHand'
    BY <1>7 DEF Family, LifeTypeOK, ForksInHand, Forks, ForkParent, Goto
  <2>3. IdleSlots'
    BY <1>7 DEF Family, ForksInHand, Forks, IdleSlots, InUse, ForkParent, Goto
  <2>4. EverybodyHasParent'
    BY <1>7 DEF Family, LifeTypeOK, InUse, EverybodyHasParent, ForkParent, Goto
  <2>5. WaitersHaveChildren'
    BY <1>7, ProcSlotFacts DEF Family, ForksInHand, Forks, WaitersHaveChildren, WaitsFor,
         HasChild, ZombieOf, ForkParent, Goto
  <2> QED BY <2>1, <2>2, <2>3, <2>4, <2>5 DEF Family
<1>8. ASSUME NEW p \in ProcSlots, UNCHANGED workload, ForkRun(p) PROVE Family'
  <2>1. LifeTypeOK'
    BY <1>8 DEF Family, LifeTypeOK, ForksInHand, Forks, ForkRun, Goto, locks, history
  <2>2. ForksInHand'
    BY <1>8 DEF Family, LifeTypeOK, ForksInHand, Forks, ForkRun, Goto
  <2>3. IdleSlots'
    BY <1>8 DEF Family, IdleSlots, InUse, ForkRun, Goto
  <2>4. EverybodyHasParent'
    BY <1>8, ProcSlotFacts DEF Family, ForksInHand, Forks, InUse, EverybodyHasParent,
         ForkRun, Goto
  <2>5. WaitersHaveChildren'
    BY <1>8 DEF Family, WaitersHaveChildren, WaitsFor, HasChild, ZombieOf, ForkRun, Goto
  <2> QED BY <2>1, <2>2, <2>3, <2>4, <2>5 DEF Family
<1>9. ASSUME NEW p \in ProcSlots, UNCHANGED workload, Kexit(p) PROVE Family'
  <2>1. LifeTypeOK'
    BY <1>9, ProcSlotFacts DEF Family, LifeTypeOK, Kexit, Goto, locks
  <2>2. ForksInHand'
    BY <1>9 DEF Family, LifeTypeOK, ForksInHand, Forks, Kexit, Goto
  <2>3. IdleSlots'
    BY <1>9, ProcSlotFacts DEF Family, LifeTypeOK, IdleSlots, InUse, Kexit, Goto
  <2>4. EverybodyHasParent'
    BY <1>9, ProcSlotFacts DEF Family, LifeTypeOK, IdleSlots, InUse, EverybodyHasParent, Kexit,
         Goto
  <2>5. WaitersHaveChildren'
    BY <1>9, ProcSlotFacts DEF Family, LifeTypeOK, WaitersHaveChildren, WaitsFor, HasChild,
         ZombieOf, Kexit, Goto
  <2> QED BY <2>1, <2>2, <2>3, <2>4, <2>5 DEF Family
<1>10. ASSUME NEW p \in ProcSlots, UNCHANGED workload, WaitReap(p) PROVE Family'
  <2>1. LifeTypeOK'
    <3>1. asked' \subseteq 0..MaxPid
      BY <1>10 DEF Family, LifeTypeOK, WaitReap, FreeProc
    <3> QED
      BY <1>10, <3>1, LifeCycleAssumption DEF Family, LifeTypeOK, ZombieOf, WaitReap, Goto,
           FreeProc, locks
  <2>2. ForksInHand'
    BY <1>10 DEF Family, ForksInHand, Forks, ZombieOf, WaitReap, Goto, FreeProc
  <2>3. IdleSlots'
    BY <1>10 DEF Family, LifeTypeOK, IdleSlots, InUse, ZombieOf, WaitReap, Goto, FreeProc
  <2>4. EverybodyHasParent'
    BY <1>10 DEF Family, LifeTypeOK, InUse, EverybodyHasParent, ZombieOf, WaitReap, FreeProc
  <2>5. WaitersHaveChildren'
    BY <1>10 DEF Family, LifeTypeOK, WaitersHaveChildren, WaitsFor, HasChild, ZombieOf,
         WaitReap, Goto, FreeProc
  <2> QED BY <2>1, <2>2, <2>3, <2>4, <2>5 DEF Family
<1>11. ASSUME NEW p \in ProcSlots, UNCHANGED workload, WaitBadAddress(p) PROVE Family'
  <2>1. LifeTypeOK'
    BY <1>11 DEF Family, LifeTypeOK, WaitBadAddress, Goto, fields, locks, history
  <2>2. ForksInHand' /\ IdleSlots' /\ EverybodyHasParent' /\ WaitersHaveChildren'
    BY <1>11, OnlyMoves DEF fields, WaitBadAddress
  <2> QED BY <2>1, <2>2 DEF Family
<1>12. ASSUME NEW p \in ProcSlots, UNCHANGED workload, WaitNoChild(p) PROVE Family'
  <2>1. LifeTypeOK'
    BY <1>12 DEF Family, LifeTypeOK, WaitNoChild, Goto, fields, locks, history
  <2>2. ForksInHand' /\ IdleSlots' /\ EverybodyHasParent' /\ WaitersHaveChildren'
    BY <1>12, OnlyMoves DEF fields, WaitNoChild
  <2> QED BY <2>1, <2>2 DEF Family
<1>13. ASSUME NEW p \in ProcSlots, UNCHANGED workload, WaitNoZombie(p) PROVE Family'
  <2>1. LifeTypeOK'
    BY <1>13, ProcSlotFacts DEF Family, LifeTypeOK, WaitNoZombie, Goto, fields, history
  <2>2. ForksInHand' /\ IdleSlots' /\ EverybodyHasParent' /\ WaitersHaveChildren'
    BY <1>13, OnlyMoves DEF fields, WaitNoZombie
  <2> QED BY <2>1, <2>2 DEF Family
<1>14. ASSUME NEW p \in ProcSlots, UNCHANGED workload, WaitCheck(p) PROVE Family'
  <2>1. LifeTypeOK'
    BY <1>14, ProcSlotFacts DEF Family, LifeTypeOK, WaitCheck, Goto, fields, history
  <2>2. ForksInHand' /\ IdleSlots' /\ EverybodyHasParent' /\ WaitersHaveChildren'
    <3>1. HasChild(p) /\ ZombieOf(p) = {}
      BY <1>14 DEF Family, WaitersHaveChildren, WaitsFor, WaitCheck, Goto
    <3> QED
      BY <1>14, <3>1, OnlyMoves DEF fields, WaitCheck
  <2> QED BY <2>1, <2>2 DEF Family
<1>15. ASSUME NEW p \in ProcSlots, UNCHANGED workload, WaitSleep(p) PROVE Family'
  <2>1. LifeTypeOK'
    BY <1>15, ProcSlotFacts DEF Family, LifeTypeOK, WaitSleep, Goto, history
  <2>2. ForksInHand'
    BY <1>15 DEF Family, ForksInHand, Forks, WaitSleep, Goto
  <2>3. IdleSlots'
    BY <1>15 DEF Family, IdleSlots, InUse, WaitSleep, Goto
  <2>4. EverybodyHasParent'
    BY <1>15 DEF Family, InUse, EverybodyHasParent, WaitSleep, Goto
  <2>5. WaitersHaveChildren'
    BY <1>15 DEF Family, WaitersHaveChildren, WaitsFor, HasChild, ZombieOf, WaitSleep,
         Goto
  <2> QED BY <2>1, <2>2, <2>3, <2>4, <2>5 DEF Family
<1>16. ASSUME NEW p \in ProcSlots, UNCHANGED workload, PauseCheck(p) PROVE Family'
  <2>1. LifeTypeOK'
    BY <1>16, ProcSlotFacts DEF Family, LifeTypeOK, PauseCheck, Goto, fields, history
  <2>2. ForksInHand' /\ IdleSlots' /\ EverybodyHasParent' /\ WaitersHaveChildren'
    BY <1>16, OnlyMoves DEF fields, PauseCheck
  <2> QED BY <2>1, <2>2 DEF Family
<1>17. ASSUME NEW p \in ProcSlots, UNCHANGED workload, PauseSleep(p) PROVE Family'
  <2>1. LifeTypeOK'
    BY <1>17, ProcSlotFacts DEF Family, LifeTypeOK, PauseSleep, Goto, history
  <2>2. ForksInHand'
    BY <1>17 DEF Family, ForksInHand, Forks, PauseSleep, Goto
  <2>3. IdleSlots'
    BY <1>17 DEF Family, IdleSlots, InUse, PauseSleep, Goto
  <2>4. EverybodyHasParent'
    BY <1>17 DEF Family, InUse, EverybodyHasParent, PauseSleep, Goto
  <2>5. WaitersHaveChildren'
    BY <1>17 DEF Family, WaitersHaveChildren, WaitsFor, HasChild, ZombieOf, PauseSleep,
         Goto
  <2> QED BY <2>1, <2>2, <2>3, <2>4, <2>5 DEF Family
<1>18. ASSUME NEW p \in ProcSlots, UNCHANGED workload, ReturnToUser(p) PROVE Family'
  <2>1. LifeTypeOK'
    BY <1>18 DEF Family, LifeTypeOK, ReturnToUser, Goto, fields, locks, history
  <2>2. ForksInHand' /\ IdleSlots' /\ EverybodyHasParent' /\ WaitersHaveChildren'
    BY <1>18, OnlyMoves DEF fields, ReturnToUser
  <2> QED BY <2>1, <2>2 DEF Family
<1>19. ASSUME UNCHANGED workload, Clockintr PROVE Family'
  <2>1. LifeTypeOK'
    BY <1>19 DEF Family, LifeTypeOK, Clockintr, locks, history
  <2>2. ForksInHand'
    BY <1>19 DEF Family, ForksInHand, Forks, Clockintr
  <2>3. IdleSlots'
    BY <1>19, ProcSlotFacts DEF Family, LifeTypeOK, IdleSlots, InUse, Clockintr
  <2>4. EverybodyHasParent'
    BY <1>19 DEF Family, LifeTypeOK, InUse, EverybodyHasParent, Clockintr
  <2>5. WaitersHaveChildren'
    BY <1>19 DEF Family, WaitersHaveChildren, WaitsFor, HasChild, ZombieOf, Clockintr
  <2> QED BY <2>1, <2>2, <2>3, <2>4, <2>5 DEF Family
<1>20. ASSUME UNCHANGED lifevars PROVE Family'
  BY <1>20 DEF Family, LifeTypeOK, ForksInHand, Forks, IdleSlots, InUse, EverybodyHasParent,
       WaitersHaveChildren, WaitsFor, HasChild, ZombieOf, lifevars, fields, locks, history
<1>21. ASSUME NEW p \in ProcSlots, UNCHANGED workload, ForkNone(p) PROVE Family'
  <2>1. LifeTypeOK'
    BY <1>21 DEF Family, LifeTypeOK, ForkNone, Goto, Enters, fields, locks, history
  <2>2. ForksInHand' /\ IdleSlots' /\ EverybodyHasParent' /\ WaitersHaveChildren'
    BY <1>21, OnlyMoves DEF fields, ForkNone, Enters
  <2> QED BY <2>1, <2>2 DEF Family
<1> QED BY <1>1, <1>2, <1>3, <1>4, <1>5, <1>6, <1>7, <1>8, <1>9, <1>10, <1>11, <1>12,
       <1>13, <1>14, <1>15, <1>16, <1>17, <1>18, <1>19, <1>20, <1>21 DEF LifeNext, Begin, Continue

\* The variables keep their types: a slot has a pid exactly while it is in use, and
\* wait_lock and tickslock are held exactly where kwait and sys_pause hold them.
THEOREM LifeTypeCorrect == LifeSpec => []LifeTypeOK
<1>1. Family => LifeTypeOK
  BY DEF Family
<1> QED BY <1>1, FamilyInit, FamilyStep, PTL DEF LifeSpec

\* However forks, exits and waits interleave and slots are used again, every process
\* and every zombie has a parent that is there to wait for it.
THEOREM ParentsArePresent == LifeSpec => []EverybodyHasParent
<1>1. Family => EverybodyHasParent
  BY DEF Family
<1> QED BY <1>1, FamilyInit, FamilyStep, PTL DEF LifeSpec

\* No wakeup of kexit or reparent is lost: nobody sleeps in kwait who has a zombie to
\* find, or nothing to wait for.
THEOREM NoWakeupIsLost == LifeSpec => []SleeperHasNoZombie
<1>1. Family => SleeperHasNoZombie
  BY DEF Family, WaitersHaveChildren, WaitsFor, SleeperHasNoZombie
<1> QED BY <1>1, FamilyInit, FamilyStep, PTL DEF LifeSpec

-----------------------------------------------------------------------------
(* Pids and marks.                                                         *)

\* The steps that leave pids, marks and names alone.
KeepsNames(p) ==
    \/ Trap(p) \/ Call(p) \/ ForkNone(p) \/ ForkParent(p) \/ ForkRun(p) \/ Kexit(p)
    \/ WaitBadAddress(p) \/ WaitNoChild(p) \/ WaitNoZombie(p)
    \/ WaitCheck(p) \/ WaitSleep(p) \/ PauseCheck(p) \/ PauseSleep(p) \/ ReturnToUser(p)

LEMMA NamesKept ==
    ASSUME NEW p \in ProcSlots, KeepsNames(p)
    PROVE  UNCHANGED <<pid, killed, nextpid, asked>>
BY DEF KeepsNames, Trap, Call, ForkNone, ForkParent, ForkRun, Kexit, WaitBadAddress, WaitNoChild,
       WaitNoZombie, WaitCheck, WaitSleep, PauseCheck, PauseSleep, ReturnToUser,
       fields, history

LEMMA EveryStep ==
    ASSUME [LifeNext]_lifevars
    PROVE  \/ \E p \in ProcSlots : KeepsNames(p) \/ Fault(p) \/ WaitReap(p)
           \/ \E p, q \in ProcSlots : ForkAlloc(p, q) \/ ForkFails(p, q)
           \/ \E p \in ProcSlots, n \in KillArgs : Kill(p, n)
           \/ Clockintr
           \/ UNCHANGED lifevars
BY DEF LifeNext, Begin, Continue, KeepsNames

\* At the start no process is marked and no pid but that of init is out.
LEMMA NamesInit == LifeInit => PidsOnce /\ Marks
BY ProcSlotFacts, LifeCycleAssumption DEF LifeInit, PidsOnce, Marks

\* A pid is given out once, and a slot loses it with the process.
LEMMA PidsStep ==
    ASSUME Family, PidsOnce, [LifeNext]_lifevars
    PROVE  PidsOnce'
<1>1. ASSUME UNCHANGED <<pid, nextpid>> PROVE PidsOnce'
  BY <1>1 DEF PidsOnce
<1>2. ASSUME NEW p \in ProcSlots, NEW q \in ProcSlots, ForkAlloc(p, q) PROVE PidsOnce'
  <2>1. q # initproc
    BY <1>2 DEF Family, IdleSlots, InUse, ForkAlloc, Allocated
  <2> QED BY <1>2, <2>1, ProcSlotFacts DEF Family, LifeTypeOK, PidsOnce, ForkAlloc
<1>3. ASSUME NEW p \in ProcSlots, NEW q \in ProcSlots, ForkFails(p, q) PROVE PidsOnce'
  BY <1>3 DEF Family, LifeTypeOK, PidsOnce, ForkFails
<1>4. ASSUME NEW p \in ProcSlots, WaitReap(p) PROVE PidsOnce'
  <2>1. initproc \notin ZombieOf(p)
    BY DEF Family, IdleSlots, InUse, ZombieOf
  <2> QED BY <1>4, <2>1, ProcSlotFacts DEF Family, LifeTypeOK, PidsOnce, WaitReap, FreeProc, ZombieOf
<1>5. ASSUME NEW p \in ProcSlots, Fault(p) \/ KeepsNames(p) PROVE PidsOnce'
  BY <1>1, <1>5, NamesKept DEF Fault
<1>6. ASSUME NEW p \in ProcSlots, NEW n \in KillArgs, Kill(p, n) PROVE PidsOnce'
  BY <1>1, <1>6 DEF Kill
<1>7. CASE Clockintr \/ UNCHANGED lifevars
  BY <1>1, <1>7 DEF Clockintr, lifevars, fields
<1> QED BY <1>2, <1>3, <1>4, <1>5, <1>6, <1>7, EveryStep

\* A mark comes with the name, and a name is dropped only with the pid that it was.
LEMMA MarksStep ==
    ASSUME 0 \notin KillArgs, Family, PidsOnce, Marks, [LifeNext]_lifevars
    PROVE  Marks'
<1>1. ASSUME UNCHANGED <<pid, killed, asked>> PROVE Marks'
  BY <1>1 DEF Marks
<1>2. ASSUME NEW p \in ProcSlots, Fault(p) PROVE Marks'
  BY <1>2 DEF Family, LifeTypeOK, Marks, Fault, Goto
<1>3. ASSUME NEW p \in ProcSlots, NEW q \in ProcSlots, ForkAlloc(p, q) PROVE Marks'
  BY <1>3 DEF Family, LifeTypeOK, Marks, ForkAlloc, Allocated, history
<1>4. ASSUME NEW p \in ProcSlots, NEW q \in ProcSlots, ForkFails(p, q) PROVE Marks'
  BY <1>4 DEF Family, LifeTypeOK, Marks, ForkFails, history
<1>5. ASSUME NEW p \in ProcSlots, NEW n \in KillArgs, Kill(p, n) PROVE Marks'
  BY <1>5 DEF Family, LifeTypeOK, Marks, Kill
<1>6. ASSUME NEW p \in ProcSlots, WaitReap(p) PROVE Marks'
  BY <1>6 DEF Family, LifeTypeOK, PidsOnce, Marks, WaitReap, FreeProc, ZombieOf
<1>7. ASSUME NEW p \in ProcSlots, KeepsNames(p) PROVE Marks'
  BY <1>1, <1>7, NamesKept
<1>8. CASE Clockintr \/ UNCHANGED lifevars
  BY <1>1, <1>8 DEF Clockintr, lifevars, fields, history
<1> QED BY <1>2, <1>3, <1>4, <1>5, <1>6, <1>7, <1>8, EveryStep

\* If nobody calls kill(0), which would mark a slot that is not in use, a process is
\* marked as killed only when its own pid was asked for, or after a fault of its own.
THEOREM MarksAreMeant ==
    ASSUME 0 \notin KillArgs
    PROVE  LifeSpec => []KilledWasNamed
<1>1. Marks => KilledWasNamed
  BY DEF Marks, KilledWasNamed
<1>2. Family /\ PidsOnce /\ [LifeNext]_lifevars => PidsOnce'
  BY PidsStep
<1>3. Family /\ PidsOnce /\ Marks /\ [LifeNext]_lifevars => Marks'
  BY MarksStep
<1> QED BY <1>1, <1>2, <1>3, FamilyInit, FamilyStep, NamesInit, PTL DEF LifeSpec

-----------------------------------------------------------------------------
(* The table of slots implements the tree of pids.                         *)

Alive == {pid[q] : q \in {r \in ProcSlots : InUse(r)}}
Zombies == {pid[q] : q \in {r \in ProcSlots : procstate[r] = "ZOMBIE"}}
ParentOf == [n \in {pid[q] : q \in Present \ {initproc}} |-> pid[parent[SlotOf(n)]]]

\* A name for what f calls the slot that g points to, by the name of the pointing slot.
Names(f, S) == {f[q] : q \in S \ {initproc}}
Named(f, S, g) == [n \in Names(f, S) |-> f[g[CHOOSE q \in S : f[q] = n]]]

Once(f, S) == \A p, q \in S : f[p] = f[q] => p = q

\* If names are given once, pointers between slots are pointers between names.
LEMMA NamedAt ==
    ASSUME NEW f, NEW S, NEW g, Once(f, S)
    PROVE  /\ DOMAIN Named(f, S, g) = Names(f, S)
           /\ \A q \in S \ {initproc} : Named(f, S, g)[f[q]] = f[g[q]]
<1>1. ASSUME NEW q \in S PROVE (CHOOSE r \in S : f[r] = f[q]) = q
  <2>1. \E r \in S : f[r] = f[q]
    OBVIOUS
  <2>2. \A r \in S : f[r] = f[q] => r = q
    BY DEF Once
  <2> QED BY <2>1, <2>2
<1>2. DOMAIN Named(f, S, g) = Names(f, S)
  BY DEF Named
<1>3. ASSUME NEW q \in S \ {initproc} PROVE Named(f, S, g)[f[q]] = f[g[q]]
  <2>1. (CHOOSE r \in S : f[r] = f[q]) = q
    BY <1>1
  <2>2. f[q] \in Names(f, S)
    BY DEF Names
  <2>3. Named(f, S, g)[f[q]] = f[g[CHOOSE r \in S : f[r] = f[q]]]
    BY <2>2 DEF Named
  <2> QED BY <2>1, <2>3
<1> QED BY <1>2, <1>3

\* Two maps of names with the same names and the same pointers are equal.
LEMMA NamedEqual ==
    ASSUME NEW f, NEW S, NEW g, NEW F, Once(f, S),
           F = [n \in DOMAIN F |-> F[n]],
           DOMAIN F = Names(f, S),
           \A q \in S \ {initproc} : F[f[q]] = f[g[q]]
    PROVE  Named(f, S, g) = F
<1> DEFINE N == Named(f, S, g)
<1>1. DOMAIN N = DOMAIN F /\ \A q \in S \ {initproc} : N[f[q]] = F[f[q]]
  BY NamedAt
<1>2. \A n \in DOMAIN F : \E q \in S \ {initproc} : n = f[q]
  BY DEF Names
<1>3. \A n \in DOMAIN F : N[n] = F[n]
  <2> HIDE DEF N
  <2> QED BY <1>1, <1>2
<1>4. N = [n \in DOMAIN N |-> N[n]]
  BY DEF Named
<1> HIDE DEF N
<1>5. N = F
  BY <1>1, <1>3, <1>4
<1> QED BY <1>5 DEF N

LEMMA ParentOfIsNamed ==
    /\ ParentOf = Named(pid, Present, parent)
    /\ ParentOf' = Named(pid', Present', parent')
BY DEF ParentOf, Named, Names, SlotOf

\* What the refinement needs of a state.
LEMMA TreeFacts ==
    ASSUME Family, PidsOnce
    PROVE  /\ Present \subseteq ProcSlots /\ initproc \in Present /\ InUse(initproc)
           /\ Once(pid, Present)
           /\ \A q \in Present : pid[q] \in 1..MaxPid
           /\ \A q \in Present \ {initproc} : parent[q] \in ProcSlots /\ InUse(parent[q])
           /\ \A q \in Present : pid[q] = 1 <=> q = initproc
           /\ \A q \in ProcSlots : InUse(q) <=> q \in Present /\ procstate[q] # "ZOMBIE"
<1>1. Present \subseteq ProcSlots /\ initproc \in Present /\ InUse(initproc)
  BY ProcSlotFacts DEF Family, IdleSlots, Present
<1>2. \A q \in Present : pid[q] \in 0..MaxPid /\ pid[q] # 0
  BY DEF Family, LifeTypeOK, Present, InUse
<1>3. Once(pid, Present)
  BY <1>1, <1>2 DEF PidsOnce, Once
<1>4. \A q \in Present \ {initproc} : parent[q] \in ProcSlots /\ InUse(parent[q])
  BY DEF Family, LifeTypeOK, EverybodyHasParent, Present
<1>5. \A q \in Present : pid[q] = 1 <=> q = initproc
  BY <1>1, <1>2, <1>3 DEF PidsOnce, Once
<1>6. \A q \in ProcSlots : InUse(q) <=> q \in Present /\ procstate[q] # "ZOMBIE"
  BY DEF Present, InUse
<1>7. \A q \in Present : pid[q] \in 1..MaxPid
  BY <1>2
<1> QED BY <1>1, <1>3, <1>4, <1>5, <1>6, <1>7

LEMMA ParentMap ==
    ASSUME Family, PidsOnce
    PROVE  /\ ParentOf = [n \in DOMAIN ParentOf |-> ParentOf[n]]
           /\ DOMAIN ParentOf = Names(pid, Present)
           /\ \A q \in Present \ {initproc} : ParentOf[pid[q]] = pid[parent[q]]
<1>1. ParentOf = [n \in DOMAIN ParentOf |-> ParentOf[n]]
  BY DEF ParentOf
<1>2. /\ DOMAIN ParentOf = Names(pid, Present)
      /\ \A q \in Present \ {initproc} : ParentOf[pid[q]] = pid[parent[q]]
  BY NamedAt, TreeFacts, ParentOfIsNamed
<1> QED BY <1>1, <1>2

\* A step that changes nothing of the processes and zombies but where they are.
LEMMA TreeStutters ==
    ASSUME Family, PidsOnce,
           \A q \in ProcSlots : /\ InUse(q)' <=> InUse(q)
                                /\ procstate'[q] = "ZOMBIE" <=> procstate[q] = "ZOMBIE",
           \A q \in Present : pid'[q] = pid[q] /\ parent'[q] = parent[q]
    PROVE  UNCHANGED <<Alive, Zombies, ParentOf>>
<1> USE TreeFacts
<1>1. Present' = Present
  BY DEF Present
<1>2. Alive' = Alive
  <2>1. {r \in ProcSlots : InUse(r)}' = {r \in ProcSlots : InUse(r)}
    OBVIOUS
  <2> QED BY <2>1 DEF Alive
<1>3. Zombies' = Zombies
  <2>1. \A q \in ProcSlots : procstate[q] = "ZOMBIE" => q \in Present
    BY DEF Present
  <2> QED BY <2>1 DEF Zombies
<1>4. ParentOf' = ParentOf
  <2>1. Once(pid', Present')
    BY <1>1 DEF Once
  <2>2. ParentOf = [n \in DOMAIN ParentOf |-> ParentOf[n]]
    BY ParentMap
  <2>3. /\ DOMAIN ParentOf = Names(pid', Present')
        /\ \A q \in Present' \ {initproc} : ParentOf[pid'[q]] = pid'[parent'[q]]
    <3>1. \A q \in Present \ {initproc} : parent[q] \in Present
      OBVIOUS
    <3>2. Names(pid', Present') = Names(pid, Present)
      BY <1>1 DEF Names
    <3> QED BY <1>1, <3>1, <3>2, ParentMap
  <2> QED BY <2>1, <2>2, <2>3, NamedEqual, ParentOfIsNamed
<1> QED BY <1>2, <1>3, <1>4

\* The end of kfork puts the child into the tree.
LEMMA ForkIsFork ==
    ASSUME Family, PidsOnce, NEW p \in ProcSlots, ForkRun(p)
    PROVE  Tree!Next
<1> USE TreeFacts
<1> DEFINE c == np[p]
           F == [d \in DOMAIN ParentOf \cup {pid[c]} |->
                    IF d = pid[c] THEN pid[p] ELSE ParentOf[d]]
<1>1. /\ c \in ProcSlots /\ procstate[c] = "USED" /\ parent[c] = p /\ p \in ProcSlots /\ InUse(p)
      /\ pid[c] \in 1..MaxPid
  BY DEF Family, LifeTypeOK, ForksInHand, Forks, ForkRun, Goto, InUse
<1>2. UNCHANGED <<pid, parent>> /\ procstate' = [procstate EXCEPT ![c] = "RUNNABLE"]
  BY DEF ForkRun
<1> HIDE DEF c
<1>3. procstate \in [ProcSlots -> {"UNUSED", "USED", "SLEEPING", "RUNNABLE", "ZOMBIE"}]
  BY DEF Family, LifeTypeOK
<1>4. /\ \A q \in ProcSlots : InUse(q)' <=> InUse(q) \/ q = c
      /\ \A q \in ProcSlots : procstate'[q] = "ZOMBIE" <=> procstate[q] = "ZOMBIE"
      /\ c \notin Present /\ p \in Present
  BY <1>1, <1>2, <1>3 DEF InUse, Present
<1>5. Present' = Present \cup {c}
  BY <1>1, <1>4 DEF Present
<1>6. Once(pid, Present \cup {c})
  BY <1>1 DEF PidsOnce, Once
<1>7. Alive' = Alive \cup {pid[c]} /\ Zombies' = Zombies
  <2>1. {r \in ProcSlots : InUse(r)}' = {r \in ProcSlots : InUse(r)} \cup {c}
    BY <1>1, <1>4
  <2>2. {r \in ProcSlots : procstate'[r] = "ZOMBIE"} = {r \in ProcSlots : procstate[r] = "ZOMBIE"}
    BY <1>4
  <2> QED BY <1>2, <2>1, <2>2 DEF Alive, Zombies
<1>8. pid[p] \in Alive /\ pid[c] \notin Alive \cup Zombies
  <2>1. \A q \in Present : pid[q] # pid[c]
    BY <1>4, <1>6 DEF Once
  <2>2. \A q \in ProcSlots : InUse(q) \/ procstate[q] = "ZOMBIE" => q \in Present
    BY DEF Present
  <2> QED BY <1>1, <2>1, <2>2 DEF Alive, Zombies
<1>9. ParentOf' = F
  <2>1. c # initproc /\ initproc \in Present
    BY <1>4
  <2>2. DOMAIN ParentOf = Names(pid, Present)
    BY ParentMap
  <2>3. Names(pid, Present \cup {c}) = DOMAIN ParentOf \cup {pid[c]}
    BY <2>1, <2>2 DEF Names
  <2>4. F[pid[c]] = pid[parent[c]]
    BY <1>1
  <2>5. ASSUME NEW q \in Present \ {initproc} PROVE F[pid[q]] = pid[parent[q]]
    <3>1. pid[q] # pid[c]
      BY <1>4, <1>6 DEF Once
    <3>2. pid[q] \in DOMAIN ParentOf
      BY <2>2 DEF Names
    <3>3. F[pid[q]] = ParentOf[pid[q]]
      BY <3>1, <3>2
    <3> QED BY <3>3, ParentMap
  <2>6. F = [n \in DOMAIN F |-> F[n]] /\ DOMAIN F = DOMAIN ParentOf \cup {pid[c]}
    OBVIOUS
  <2> HIDE DEF F
  <2>7. /\ DOMAIN F = Names(pid, Present \cup {c})
        /\ \A q \in (Present \cup {c}) \ {initproc} : F[pid[q]] = pid[parent[q]]
    BY <2>3, <2>4, <2>5, <2>6
  <2>8. Named(pid, Present \cup {c}, parent) = F
    BY <1>6, <2>6, <2>7, NamedEqual
  <2> QED BY <1>2, <1>5, <2>8, ParentOfIsNamed
<1>10. pid[p] \in 1..MaxPid
  BY <1>4
<1>11. \E m, n \in 1..MaxPid : Tree!Fork(m, n)
  BY <1>1, <1>7, <1>8, <1>9, <1>10, Zenon DEF Tree!Fork, Alive, Zombies, ParentOf
<1> QED BY <1>11, Zenon DEF Tree!Next

\* kexit is one step for the tree: the process, its children, and the zombie it leaves.
LEMMA ExitIsExit ==
    ASSUME Family, PidsOnce, NEW p \in ProcSlots, Kexit(p)
    PROVE  Tree!Next
<1> USE TreeFacts
<1> DEFINE F == [d \in DOMAIN ParentOf |-> IF ParentOf[d] = pid[p] THEN 1 ELSE ParentOf[d]]
<1>1. /\ procstate[p] = "RUNNABLE" /\ p # initproc /\ InUse(p) /\ p \in Present
      /\ procstate \in [ProcSlots -> {"UNUSED", "USED", "SLEEPING", "RUNNABLE", "ZOMBIE"}]
  BY DEF Family, LifeTypeOK, Kexit, Goto, InUse, Present
<1>2. /\ pid' = pid
      /\ parent' = [q \in ProcSlots |-> IF parent[q] = p THEN initproc ELSE parent[q]]
  BY DEF Kexit
<1>3. /\ \A q \in ProcSlots : InUse(q)' <=> InUse(q) /\ q # p
      /\ \A q \in ProcSlots : procstate'[q] = "ZOMBIE" <=> procstate[q] = "ZOMBIE" \/ q = p
  BY <1>1 DEF Kexit, InUse
<1>4. Present' = Present
  BY <1>1, <1>3 DEF Present
<1>5. Alive' = Alive \ {pid[p]} /\ Zombies' = Zombies \cup {pid[p]}
  <2>1. {r \in ProcSlots : InUse(r)}' = {r \in ProcSlots : InUse(r)} \ {p}
    BY <1>3
  <2>2. {r \in ProcSlots : procstate'[r] = "ZOMBIE"} = {r \in ProcSlots : procstate[r] = "ZOMBIE"} \cup {p}
    BY <1>3
  <2>3. \A q \in ProcSlots : InUse(q) /\ pid[q] = pid[p] => q = p
    BY <1>1 DEF Once
  <2>4. Alive' = Alive \ {pid[p]}
    BY <1>2, <2>1, <2>3 DEF Alive
  <2>5. Zombies' = Zombies \cup {pid[p]}
    BY <1>2, <2>2 DEF Zombies
  <2> QED BY <2>4, <2>5
<1>6. ParentOf' = F
  <2>1. DOMAIN ParentOf = Names(pid, Present)
    BY ParentMap
  <2>2. ASSUME NEW q \in Present \ {initproc} PROVE F[pid[q]] = pid[parent'[q]]
    <3>1. pid[q] \in DOMAIN ParentOf /\ ParentOf[pid[q]] = pid[parent[q]]
      BY <2>1, ParentMap DEF Names
    <3>2. parent[q] \in Present
      OBVIOUS
    <3>3. pid[parent[q]] = pid[p] <=> parent[q] = p
      BY <1>1, <3>2 DEF Once
    <3>4. pid[initproc] = 1
      BY DEF PidsOnce
    <3> QED BY <1>2, <3>1, <3>3, <3>4
  <2>3. F = [n \in DOMAIN F |-> F[n]] /\ DOMAIN F = DOMAIN ParentOf
    OBVIOUS
  <2> HIDE DEF F
  <2>4. Named(pid, Present, parent') = F
    BY <2>1, <2>2, <2>3, NamedEqual
  <2> QED BY <1>2, <1>4, <2>4, ParentOfIsNamed
<1>7. pid[p] \in Alive \ {1} /\ pid[p] \in 1..MaxPid
  BY <1>1 DEF Alive
<1>8. \E n \in 1..MaxPid : Tree!Exit(n)
  BY <1>5, <1>6, <1>7, Zenon DEF Tree!Exit, Alive, Zombies, ParentOf
<1> QED BY <1>8, Zenon DEF Tree!Next

\* A zombie that is found is waited for by its own parent, once.
LEMMA ReapIsWait ==
    ASSUME Family, PidsOnce, NEW p \in ProcSlots, WaitReap(p)
    PROVE  Tree!Next
<1> USE TreeFacts
<1>0. PICK c \in ZombieOf(p) : FreeProc(c)
  BY DEF WaitReap
<1> DEFINE F == [d \in DOMAIN ParentOf \ {pid[c]} |-> ParentOf[d]]
<1>1. /\ procstate[p] = "RUNNABLE" /\ InUse(p) /\ p \in Present
      /\ c \in ProcSlots /\ parent[c] = p /\ procstate[c] = "ZOMBIE" /\ c \in Present /\ ~InUse(c)
      /\ procstate \in [ProcSlots -> {"UNUSED", "USED", "SLEEPING", "RUNNABLE", "ZOMBIE"}]
  BY DEF Family, LifeTypeOK, WaitReap, Goto, InUse, Present, ZombieOf
<1>2. /\ \A q \in ProcSlots \ {c} : pid'[q] = pid[q] /\ parent'[q] = parent[q]
      /\ \A q \in ProcSlots : InUse(q)' <=> InUse(q)
      /\ \A q \in ProcSlots : procstate'[q] = "ZOMBIE" <=> procstate[q] = "ZOMBIE" /\ q # c
  BY <1>0, <1>1 DEF Family, LifeTypeOK, FreeProc, InUse
<1>3. Present' = Present \ {c}
  BY <1>1, <1>2 DEF Present
<1>4. Once(pid', Present \ {c})
  BY <1>2 DEF Once
<1>5. Alive' = Alive /\ Zombies' = Zombies \ {pid[c]}
  <2>1. {r \in ProcSlots : InUse(r)}' = {r \in ProcSlots : InUse(r)}
    BY <1>2
  <2>2. {r \in ProcSlots : procstate'[r] = "ZOMBIE"} = {r \in ProcSlots : procstate[r] = "ZOMBIE"} \ {c}
    BY <1>2
  <2>3. \A q \in ProcSlots : procstate[q] = "ZOMBIE" /\ pid[q] = pid[c] => q = c
    BY <1>1 DEF Once, Present
  <2>4. Alive' = Alive
    BY <1>1, <1>2, <2>1 DEF Alive
  <2>5. Zombies' = Zombies \ {pid[c]}
    BY <1>2, <2>2, <2>3 DEF Zombies
  <2> QED BY <2>4, <2>5
<1>6. c # initproc
  BY <1>1
<1>7. ParentOf' = F
  <2>1. DOMAIN ParentOf = Names(pid, Present)
    BY ParentMap
  <2>2. \A q \in Present \ {c} : pid'[q] = pid[q] /\ pid[q] # pid[c]
    BY <1>1, <1>2 DEF Once
  <2>3. Names(pid', Present \ {c}) = DOMAIN ParentOf \ {pid[c]}
    BY <1>1, <1>6, <2>1, <2>2 DEF Names
  <2>4. ASSUME NEW q \in (Present \ {c}) \ {initproc} PROVE F[pid'[q]] = pid'[parent'[q]]
    <3>1. pid[q] \in DOMAIN ParentOf /\ ParentOf[pid[q]] = pid[parent[q]] /\ pid'[q] = pid[q]
      BY <2>1, <2>2, ParentMap DEF Names
    <3>2. F[pid[q]] = ParentOf[pid[q]]
      BY <2>2, <3>1
    <3>3. parent'[q] = parent[q] /\ parent[q] \in ProcSlots \ {c}
      BY <1>1, <1>2
    <3>4. pid'[parent[q]] = pid[parent[q]]
      BY <1>2, <3>3
    <3> QED BY <3>1, <3>2, <3>3, <3>4
  <2>5. F = [n \in DOMAIN F |-> F[n]] /\ DOMAIN F = DOMAIN ParentOf \ {pid[c]}
    OBVIOUS
  <2> HIDE DEF F
  <2>6. /\ DOMAIN F = Names(pid', Present \ {c})
        /\ \A q \in (Present \ {c}) \ {initproc} : F[pid'[q]] = pid'[parent'[q]]
    BY <2>3, <2>4, <2>5
  <2>7. Named(pid', Present \ {c}, parent') = F
    BY <1>4, <2>5, <2>6, NamedEqual
  <2> QED BY <1>3, <2>7, ParentOfIsNamed
<1>8. ParentOf[pid[c]] = pid[p]
  BY <1>1, <1>6, ParentMap
<1>9. pid[p] \in Alive /\ pid[c] \in Zombies /\ pid[p] \in 1..MaxPid /\ pid[c] \in 1..MaxPid
  BY <1>1 DEF Alive, Zombies
<1>10. \E m, n \in 1..MaxPid : Tree!Wait(m, n)
  BY <1>5, <1>7, <1>8, <1>9, Zenon DEF Tree!Wait, Alive, Zombies, ParentOf
<1> QED BY <1>10, Zenon DEF Tree!Next

\* Everything else happens inside of a slot that is not in the tree, or changes only what
\* a process is doing.
LEMMA OthersKeepTree ==
    ASSUME Family, PidsOnce, [LifeNext]_lifevars,
           \A p \in ProcSlots : ~(ForkRun(p) \/ Kexit(p) \/ WaitReap(p))
    PROVE  UNCHANGED <<Alive, Zombies, ParentOf>>
<1>0. procstate \in [ProcSlots -> {"UNUSED", "USED", "SLEEPING", "RUNNABLE", "ZOMBIE"}]
  BY DEF Family, LifeTypeOK
<1>1. CASE UNCHANGED fields
  BY <1>1, TreeStutters DEF fields, InUse
<1>2. ASSUME NEW p \in ProcSlots, Trap(p) \/ Call(p) \/ ForkNone(p) \/ WaitBadAddress(p) \/ WaitNoChild(p)
               \/ WaitNoZombie(p) \/ WaitCheck(p) \/ PauseCheck(p) \/ ReturnToUser(p)
      PROVE  UNCHANGED fields
  BY <1>2 DEF Trap, Call, ForkNone, WaitBadAddress, WaitNoChild, WaitNoZombie, WaitCheck, PauseCheck,
       ReturnToUser
<1>3. ASSUME NEW p \in ProcSlots, Fault(p) PROVE UNCHANGED <<Alive, Zombies, ParentOf>>
  BY <1>3, TreeStutters DEF Fault, InUse
<1>4. ASSUME NEW p \in ProcSlots, NEW q \in ProcSlots, ForkFails(p, q)
      PROVE  UNCHANGED <<Alive, Zombies, ParentOf>>
  BY <1>4, TreeStutters DEF ForkFails, InUse
<1>5. ASSUME NEW p \in ProcSlots, NEW q \in ProcSlots, ForkAlloc(p, q)
      PROVE  UNCHANGED <<Alive, Zombies, ParentOf>>
  <2>1. \A r \in ProcSlots : InUse(r)' <=> InUse(r)
    BY <1>0, <1>5 DEF ForkAlloc, Allocated, InUse
  <2>2. \A r \in ProcSlots : procstate'[r] = "ZOMBIE" <=> procstate[r] = "ZOMBIE"
    BY <1>0, <1>5 DEF ForkAlloc, Allocated
  <2>3. \A r \in Present : r \in ProcSlots /\ r # q
    BY <1>5 DEF ForkAlloc, Allocated, Present, InUse
  <2>4. \A r \in Present : pid'[r] = pid[r] /\ parent'[r] = parent[r]
    BY <1>5, <2>3 DEF ForkAlloc, Family, LifeTypeOK
  <2> QED BY <2>1, <2>2, <2>4, TreeStutters
<1>6. ASSUME NEW p \in ProcSlots, ForkParent(p) PROVE UNCHANGED <<Alive, Zombies, ParentOf>>
  <2>1. np[p] \in ProcSlots /\ procstate[np[p]] = "USED" /\ pid' = pid /\ procstate' = procstate
    BY <1>6 DEF ForkParent, Goto, Family, ForksInHand, Forks
  <2>2. \A r \in Present : r \in ProcSlots /\ r # np[p]
    BY <2>1 DEF Present, InUse
  <2>3. \A r \in Present : parent'[r] = parent[r]
    BY <1>6, <2>2 DEF ForkParent, Family, LifeTypeOK
  <2> QED BY <2>1, <2>3, TreeStutters DEF InUse
<1>7. ASSUME NEW p \in ProcSlots, WaitSleep(p) \/ PauseSleep(p)
      PROVE  UNCHANGED <<Alive, Zombies, ParentOf>>
  <2>1. UNCHANGED <<pid, parent>>
    BY <1>7 DEF WaitSleep, PauseSleep
  <2>2. \A r \in ProcSlots : /\ InUse(r)' <=> InUse(r)
                             /\ procstate'[r] = "ZOMBIE" <=> procstate[r] = "ZOMBIE"
    BY <1>0, <1>7 DEF WaitSleep, PauseSleep, Goto, InUse
  <2> QED BY <2>1, <2>2, TreeStutters
<1>8. ASSUME NEW p \in ProcSlots, NEW n \in KillArgs, Kill(p, n)
      PROVE  UNCHANGED <<Alive, Zombies, ParentOf>>
  <2>1. UNCHANGED <<pid, parent>>
    BY <1>8 DEF Kill
  <2>2. \A r \in ProcSlots : /\ InUse(r)' <=> InUse(r)
                             /\ procstate'[r] = "ZOMBIE" <=> procstate[r] = "ZOMBIE"
    BY <1>0, <1>8 DEF Kill, InUse
  <2> QED BY <2>1, <2>2, TreeStutters
<1>9. CASE Clockintr
  <2>1. UNCHANGED <<pid, parent>>
    BY <1>9 DEF Clockintr
  <2>2. \A r \in ProcSlots : /\ InUse(r)' <=> InUse(r)
                             /\ procstate'[r] = "ZOMBIE" <=> procstate[r] = "ZOMBIE"
    BY <1>0, <1>9 DEF Clockintr, InUse
  <2> QED BY <2>1, <2>2, TreeStutters
<1>10. CASE UNCHANGED lifevars
  BY <1>1, <1>10 DEF lifevars
<1> QED BY <1>1, <1>2, <1>3, <1>4, <1>5, <1>6, <1>7, <1>8, <1>9, <1>10
        DEF LifeNext, Begin, Continue

\* In terms of pids, fork, exit and wait build the tree of processes, for any number of
\* slots and however often they are used again: nobody is waited for twice or by a
\* stranger, and no child is lost when its parent exits.
THEOREM TableIsTree == LifeSpec => ImplementsProcessTree
<1>1. LifeInit => Tree!Init
  <2> SUFFICES ASSUME LifeInit PROVE Tree!Init
    OBVIOUS
  <2>1. {r \in ProcSlots : InUse(r)} = {initproc} /\ {r \in ProcSlots : procstate[r] = "ZOMBIE"} = {}
    BY ProcSlotFacts DEF LifeInit, InUse
  <2>2. Present = {initproc}
    BY <2>1, ProcSlotFacts DEF Present
  <2>3. Alive = {1} /\ Zombies = {}
    BY <2>1, ProcSlotFacts DEF LifeInit, Alive, Zombies
  <2>4. ParentOf = [c \in {} |-> 1]
    BY <2>2 DEF ParentOf
  <2> QED BY <2>3, <2>4, Zenon DEF Tree!Init, Alive, Zombies, ParentOf
<1>2. Family /\ PidsOnce /\ [LifeNext]_lifevars => [Tree!Next]_<<Alive, Zombies, ParentOf>>
  BY ForkIsFork, ExitIsExit, ReapIsWait, OthersKeepTree
<1>3. Family /\ PidsOnce /\ [LifeNext]_lifevars => PidsOnce'
  BY PidsStep
<1> QED BY <1>1, <1>2, <1>3, FamilyInit, FamilyStep, NamesInit, PTL
        DEF LifeSpec, ImplementsProcessTree, Tree!Spec, Tree!tree, Alive, Zombies, ParentOf
=============================================================================
