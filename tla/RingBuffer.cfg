CONSTANTS
    p1 = p1
    p2 = p2
    c1 = c1
    c2 = c2
    NoItem = NoItem
    Nobody = Nobody
    Producers <- TwoProducers
    Consumers <- TwoConsumers
    BUFFER_SIZE = 2
    PerProducer = 2
SPECIFICATION RingFairSpec
PROPERTIES
    ImplementsQueue
    Drained
