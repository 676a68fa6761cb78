SPECIFICATION Spec
CONSTANTS
    LineCount = 3
    CacheConfigs <- MCCacheConfigs
    Banks = 2
    RowLines = 2
    RowHit = 16
    RowMiss = 48
    WriteKinds = {TRUE, FALSE}
    Flushable = {1}
    Configurable = {2}
    MaxTick = 4
    RSSize = 3
    PredictorSize = 2
    PipelineConfigs <- MCPipelineConfigs
    Branches = {0, 1, 2}
    MaxIssued = 4
    MaxRun = 3
    NumWarps = 4
    Stalls <- MCStalls
    Ticks = {1, 2}
    Rows = 2
    TileCycles = 3
    MaxTiles = 4
    Values <- MCValues
    Limits = {0, 2}
    Blobs = TRUE
    MaxUndo = 3
    Registers = {0, 1, 2}
    Tile = 3
    Modulus = 97
    Chunks = {1, 3, 9}
    Contents <- MCContents
    MaxCalls = 1
    WordCount = 16
    NumGpr = 2
    NumVr = 2
    DmaLine = 1
    TileSize = 4
    NewLine = 10
    TxLimit = 3
    CyclesPerTick = 3
    Decode <- MCDecode
    Bytes = {0, 5, 6, 10}
    Counts = {0, 4}
    TimerLimits = {2, 3, 4, 7}
    MaxWritten = 4
    MaxClock = 21
INVARIANTS UnitsTypeOK TrueLru NothingLost NoStarvation NewestKept KernelExact UartLossless NoDrift
PROPERTIES IdealCost WritebackCounted CommitsLater TwoBit ExactReverse
