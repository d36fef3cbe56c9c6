SPECIFICATION DevicesSpec
CONSTANTS
    Traces <- MCTraces
    Units <- MCUnits
    MemoryRequests = 2
    Policies <- ScenarioPolicies
    MaxTicks = 20
    Documents <- FeedDocuments
    Consumers = {0, 2}
    Capacity = 2
    MaxBytes = 2
    MaxRecords = 3
    MaxOperands = 1
    MaxDependencies = 2
    MaxDecoded = 9
    LastTick = 4
INVARIANTS
    NpuSound
    ShowcaseSound
    FeedSound
PROPERTY
    DevicesFinish
CHECK_DEADLOCK FALSE
