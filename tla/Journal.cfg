CONSTANTS
    main = main
    writer = writer
    MaxRequests = 2
    BufferSize = 1
    Clients <- OneCaller
    Script <- MainScript
    Waiters <- MainWaits
    DelayedOps <- SlowDisk
SPECIFICATION FairSpec
INVARIANTS
    TypeOK
    PendingIsExact
    FreeSlotIsQuiet
PROPERTIES
    CallersReturn
    ImplementsPromise
