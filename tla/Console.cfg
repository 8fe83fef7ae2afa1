SPECIFICATION Spec
CONSTANTS
    p1 = p1
    p2 = p2
    Procs = {p1, p2}
    INPUT_BUF_SIZE = 3
    IdxMod = 6
    ChunkSize = 2
    RxDepth = 1
    Nobody = Nobody
    Workloads <- MCWorkloads
PROPERTIES ImplementsTerminal CallsReturn
CHECK_DEADLOCK FALSE
