SPECIFICATION ToolchainSpec
CONSTANTS
    Builders = {b1, b2}
    Requests = {r1, r2}
    LinkContents = {c1, c2}
    None = None
    MaxAttempts = 2
    MaxEdits = 1
    Values = {1}
    Amounts = {1, 2}
    Capacity = 2
    Entries = 2
    ReadPorts = 1
    WritePorts = 2
    Bounds <- RunBounds
    MaxValue = 3
    FlowIds = {1}
    MaxProposals = 2
    MaxTicks = 2
    Manifests <- RunManifests
    CompilerRequests <- DriverRequests
    Registries <- BindingRegistries
    Modules <- BindingModules
    Selections <- BindingSelections
    Passes = {p1, p2}
SYMMETRY Symmetry
INVARIANTS
    PublicationSound
    ModelRunSound
    DriverSound
    BindingsSound
PROPERTY
    PublishedStays
CHECK_DEADLOCK FALSE
