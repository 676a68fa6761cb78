SPECIFICATION Spec
CONSTANTS
    WordCount = 64
    NumGpr = 16
    NumVr = 4
    DmaLine = 1
    TileSize = 4
    NewLine = 10
    TxLimit = 2
    MemSize = 6
    RamSize = 3
    Mmio <- NoMmio
    PageMap <- MCPageMap
    Decode <- MCDecode
    CyclesPerTick = 30
    Axi <- WideAxi
    ImmCount = 32
    TargetCount = 64
    GuestPrograms <- StraightPrograms
    ScratchA = 4
    ScratchB = 5
    MainResult = 2
    CrcSeed = 9
    LineWords = 8
    CodeValue = 7
    MatrixA = 3
    MatrixB = 6
    Sources <- MCSources
    Iterations = 3
INVARIANTS GuestSimulated BitIdentical IterationsAlike
PROPERTIES EveryProgramHalts
CHECK_DEADLOCK FALSE
