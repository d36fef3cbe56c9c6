CONSTANTS
    Objects = {0, 1, 2}
    Kind <- MCKind
    Activation <- MCActivation
    Batches <- MCBatches
    MaxDeltas = 2
    MaxTicks = 3
    MaxEvents = 2
    EventCapacity = 2
    DeadlockWindow = 2
    Domains <- MCDomains
SPECIFICATION Spec
INVARIANT AtomicXfer
