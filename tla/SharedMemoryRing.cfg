\* Two producer processes, of which one may take over from the other, on a ring
\* of two slots; three messages, so that the ring is full and wraps around;
\* every process may die at any moment.
CONSTANTS
    p1 = p1
    p2 = p2
    consumer = consumer
    m1 = m1
    m2 = m2
    NoPid = NoPid
    Torn = Torn
    Producers <- TwoProducers
    Consumer <- consumer
    Messages <- TwoMessages
    Capacity = 2
    MaxSends = 3
SPECIFICATION FairSpec
INVARIANTS
    SoleProducer
PROPERTIES
    ImplementsChannel
    OperationsReturn
CHECK_DEADLOCK FALSE
