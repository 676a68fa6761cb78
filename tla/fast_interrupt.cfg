SPECIFICATION Spec
CONSTANTS
    WordCount = 32
    NumGpr = 3
    NumVr = 2
    DmaLine = 1
    TileSize = 4
    NewLine = 10
    TxLimit = 2
    MemSize = 16
    RamSize = 4
    Mmio <- MCMmio
    PageMap <- MCPageMap
    TextSize = 12
    MaxBlock = 5
    CacheLine = 8
    Decode <- LightDecode
    CyclesPerTick = 6
    Axi <- WideAxi
    Programs <- SpinPrograms
    Reloads = FALSE
    RamImages = {}
    Pokes = {}
    Peeks = {}
    GprWrites = {}
    Entries = {"run_fast"}
    BreakSites = {}
    Targets = {}
    Vectors <- DirectVector
    IeMasks <- AllMask
    HostLines = {"MachineExternal"}
    Mrets = FALSE
    MmuSettings = {}
    VerboseSettings = {}
    Snapshots = FALSE
    Restarts = FALSE
    MaxCycles = 20
    MaxFabric = 60
    MaxTimer = 60
PROPERTIES SameSemantics
