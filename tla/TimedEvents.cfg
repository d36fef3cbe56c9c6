CONSTANTS
    Objects = {0, 1, 2, 3, 4}
    Kind <- MCKind
    Activation <- MCActivation
    Batches <- MCBatches
    MaxDeltas = 3
    MaxTicks = 4
    MaxEvents = 5
    EventCapacity = 3
    DeadlockWindow = 0
    Domains <- MCDomains
    Producers = {0, 1}
    Consumers = {2, 3}
    QueueOf <- MCQueueOf
    QueueCapacity = 3
    Delays = {0, 1, 2}
SPECIFICATION TimedSpec
INVARIANTS NotificationsExact NoEventMissed NothingStranded
PROPERTIES ImplementsKernel
