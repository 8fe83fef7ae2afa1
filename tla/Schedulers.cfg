CONSTANTS
    cpu0 = cpu0
    cpu1 = cpu1
    CPUs <- AllCPUs
    NProc = 3
    Setups <- EachScheduler
    IntMax = 127
    Quantum = 2
    BoostTicks = 1
SPECIFICATION FairSpec
INVARIANTS
    RunsOnOneCPU
PROPERTIES
    RankWithinPass
    EqualsTakeTurns
    TopRankRuns
