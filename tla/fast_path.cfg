SPECIFICATION Spec
CONSTANTS
    WordCount = 32
    NumGpr = 3
    NumVr = 2
    DmaLine = 1
    TileSize = 4
    NewLine = 10
    TxLimit = 2
    MemSize = 16
    RamSize = 4
    Mmio <- MCMmio
    PageMap <- MCPageMap
    TextSize = 12
    MaxBlock = 5
    CacheLine = 8
    Decode <- MCDecode
    CyclesPerTick = 25
    Axi <- WideAxi
    Programs <- StraightPrograms
    Reloads = TRUE
    RamImages <- MCRam
    Pokes = {}
    Peeks = {}
    GprWrites = {}
    Entries = {"run", "run_fast"}
    BreakSites = {2}
    Targets = {"CPU", "GPU", "ASIC"}
    Vectors = {}
    IeMasks = {}
    HostLines = {}
    Mrets = FALSE
    MmuSettings = {}
    VerboseSettings = {TRUE, FALSE}
    Snapshots = FALSE
    Restarts = TRUE
    MaxCycles = 60
    MaxFabric = 120
    MaxTimer = 60
INVARIANTS TypeOK FreshBlocks TimeBase
PROPERTIES RefinesInterpreter DrainedByTick
