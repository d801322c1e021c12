SPECIFICATION Spec
CONSTANTS
    p1 = p1
    p2 = p2
    c1 = c1
    c2 = c2
    poller = poller
    closer = closer
    QueueCapa = 2
    Producers <- TwoProducers
    Consumers <- TwoConsumers
    Pollers <- OnePoller
    Closers <- ACloser
INVARIANTS TypeOK NoLostWakeup
PROPERTIES Implements
