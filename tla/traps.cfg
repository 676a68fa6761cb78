SPECIFICATION Spec
CONSTANTS
    WordCount = 32
    NumGpr = 3
    NumVr = 2
    DmaLine = 1
    TileSize = 4
    NewLine = 10
    TxLimit = 2
    MemSize = 16
    RamSize = 4
    Mmio <- MCMmio
    PageMap <- MCPageMap
    TextSize = 12
    MaxBlock = 5
    CacheLine = 8
    Decode <- LightDecode
    CyclesPerTick = 6
    Axi <- WideAxi
    Programs <- TrapPrograms
    Reloads = FALSE
    RamImages <- MCRam
    Pokes = {}
    Peeks = {}
    GprWrites <- TrapGprs
    Entries = {"step"}
    BreakSites = {}
    Targets = {}
    Vectors <- BothVectors
    IeMasks <- AllMask
    HostLines = {"MachineExternal"}
    Mrets = TRUE
    MmuSettings = {TRUE, FALSE}
    VerboseSettings = {}
    Snapshots = FALSE
    Restarts = FALSE
    MaxCycles = 8
    MaxFabric = 60
    MaxTimer = 60
PROPERTIES PreciseTraps HaltIsFinal
