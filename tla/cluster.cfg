SPECIFICATION Spec
CONSTANTS
    WordCount = 32
    NumGpr = 3
    NumVr = 1
    DmaLine = 1
    TileSize = 4
    NewLine = 10
    TxLimit = 2
    MemSize = 16
    RamSize = 1
    Mmio <- NoMmio
    PageMap <- MCPageMap
    Decode <- MCDecode
    CyclesPerTick = 5
    Axi <- MCAxi
    NumCores = 2
    Quantum = 2
    MaxCores = 2
    Window <- MCWindow
    Workloads <- MCWorkloads
    Vectors <- MCVectors
    IpiTargets = {1, 2}
    Calls = {"run", "step_all", "run_fast"}
    Limits = {11}
    MaxCycles = 36
INVARIANTS TypeOK DataBeforeFlag LockStep ClocksAgree IpiPrompt HandshakeInTime
