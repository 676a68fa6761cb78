SPECIFICATION Spec
CONSTANTS
    WordCount = 4
    NumGpr = 1
    NumVr = 1
    Decode <- MCDecode
    DmaLine = 1
    TileSize = 1
    CyclesPerTick = 5
    Lines = {"MachineTimer"}
    Masks <- MCMasks
    Vector = 3
    Places = {1}
    MaxDepth = 2
INVARIANTS TypeOK MaskedInHandler
PROPERTIES RoundTrip RaisedByRecord
