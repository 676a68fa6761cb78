SPECIFICATION Spec
CONSTANTS
    WordCount = 32
    NumGpr = 3
    NumVr = 2
    DmaLine = 1
    TileSize = 4
    NewLine = 10
    TxLimit = 2
    MemSize = 16
    RamSize = 4
    Mmio <- MCMmio
    PageMap <- MCPageMap
    TextSize = 12
    MaxBlock = 5
    CacheLine = 8
    Decode <- LightDecode
    CyclesPerTick = 6
    Axi <- WideAxi
    Programs <- LoadPrograms
    Reloads = FALSE
    RamImages = {}
    Pokes = {}
    Peeks = {}
    GprWrites = {}
    Entries = {"step"}
    BreakSites = {}
    Targets = {}
    Vectors = {}
    IeMasks = {}
    HostLines = {}
    Mrets = FALSE
    MmuSettings = {}
    VerboseSettings = {}
    Snapshots = TRUE
    Restarts = FALSE
    MaxCycles = 14
    MaxFabric = 60
    MaxTimer = 60
INVARIANTS TimeBase AccumBelowTick
