CONSTANTS
    Requests = 3
    BufferSize = 1
    DelayedOps <- SlowDisk
    MayFail <- AnyThreadFails
SPECIFICATION FairSpec
INVARIANTS
    NothingLostAtExit
PROPERTIES
    ImplementsPromise
    MainReturnsIfCreated
CHECK_DEADLOCK FALSE
