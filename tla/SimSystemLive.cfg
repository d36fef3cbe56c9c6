CONSTANTS
    Objects = {0, 1}
    Kind <- LiveKind
    Activation <- LiveActivation
    Batches <- LiveBatches
    MaxDeltas = 2
    MaxTicks = 2
    MaxEvents = 2
    EventCapacity = 2
    DeadlockWindow = 0
    Domains <- LiveDomains
SPECIFICATION RunSpec
PROPERTY EveryRunEnds
CHECK_DEADLOCK FALSE
