CONSTANTS
    main = main
    writer = writer
    MaxRequests = 1
    BufferSize = 1
    Clients <- TwoCallers
    Script <- SharedScript
    Waiters <- MainWaits
    DelayedOps <- NoDelay
SPECIFICATION FairSpec
PROPERTIES
    RequestsAreQueued
