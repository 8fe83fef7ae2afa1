SPECIFICATION Spec
CONSTANTS
    x = x
    y = y
    z = z
    p1 = p1
    p2 = p2
    p3 = p3
    Procs = {p1, p2, p3}
    Buffers = {x, y, z}
    Blocks <- MCBlocks
    Values = {v0, v1}
    Zero = v0
    MaxDesc = 7
    NoBuf = NoBuf
    NoBlock = NoBlock
    Nobody = Nobody
    MaxHeld = 1
    Workloads <- MCWorkloads
INVARIANT CacheConsistent
PROPERTIES ImplementsBlockCache CallsReturn
CHECK_DEADLOCK FALSE
