SPECIFICATION Spec
CONSTANTS
    Align = 8
    MaxFreeBlocks = 4
    Unlimited = 2000000000
    Misaligned = {4}
    Models <- MCModels
    Batches <- MCBatches
    Shapes <- MCShapes
    MaxTensors = 5
INVARIANTS
    SrcsIntact
    Fits
    MemorySound
    AsInLayerGraphs
CHECK_DEADLOCK FALSE
