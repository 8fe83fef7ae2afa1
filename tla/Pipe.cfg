SPECIFICATION Spec
CONSTANTS
    p1 = p1
    p2 = p2
    p3 = p3
    b0 = b0
    b1 = b1
    Procs = {p1, p2, p3}
    NOFILE = 3
    NFILE = 3
    Pipes = {1}
    NoFile = NoFile
    NoPipe = NoPipe
    PIPESIZE = 2
    IdxMod = 4
    Bytes = {b0, b1}
    NoByte = NoByte
    Nobody = Nobody
    Workloads <- MCWorkloads
INVARIANTS FilesConsistent SleepersHaveReason
PROPERTIES PipesDeliver EndIsSeen
CHECK_DEADLOCK FALSE
