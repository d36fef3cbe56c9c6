SPECIFICATION CompilerSpec
CONSTANTS
    MaxOffers = 2
    MaxOperations = 2
    MapFiles <- SmallMapFiles
    Width = 3
    MaxRelations = 2
    PortModules <- SmallPortModules
    MaxTokens = 2
    Texts <- SmallTexts
    Constructed <- SmallConstructed
    LimitSets <- SmallLimits
    FrozenModels <- SmallFrozenModels
    LaterEdits <- SmallEdits
    MaxDepth = 3
    MaxOwners = 8
    MaxCallDepth = 2
    MaxCallEdges = 3
    PlannedModels <- SmallPlannedModels
    ChainLength = 5
    MaxProcesses = 3
    MaxCallees = 12
    MaxPcs = 5
    MaxSlots = 2
    MaxWakes = 3
    MaxTransitions = 3
    MaxActions = 8
    MaxFairness = 12
    RuleBodies <- SmallBodies
    RuleTypes <- SmallTypes
    RuleLimits <- SmallRuleLimits
    MaxRounds = 3
    LoweredDesigns <- SmallLoweredDesigns
    ReadFiles <- SmallReadFiles
    MaxObjects = 20
    MaxNodes = 24
    MaxWork = 8
INVARIANTS
    ContractsSound
    AddressMapsSound
    QueuePortsSound
    JsonSound
    FreezeSound
    PlanAuditSound
    ProcessRulesSound
    RuntimeGraphSound
CHECK_DEADLOCK FALSE
