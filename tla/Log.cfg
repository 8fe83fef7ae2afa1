CONSTANTS
    p1 = p1
    p2 = p2
    b1 = b1
    b2 = b2
    b3 = b3
    b4 = b4
    zero = zero
    one = one
    Zero = zero
    NotCached = NotCached
    Nobody = Nobody
    NoBlock = NoBlock
    Procs <- TwoProcs
    Blocks <- FourBlocks
    Values <- TwoValues
    LogBlocks = 4
    MaxOpBlocks = 2
    OpBlocks = 1
SPECIFICATION Spec
INVARIANTS
    TypeOK
    LogConsistent
PROPERTIES
    EndOpIsDurable
    ImplementsAtomicDisk
SYMMETRY BlockSymmetry
