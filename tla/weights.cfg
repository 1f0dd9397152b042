SPECIFICATION MCSpec
CONSTANTS
    Confs <- AllConfs
    NumLayers = 4
    NumExperts = 2
    NumGroups = 2
    KVSources = {0}
    IndexSources = {0, 2}
    EngramLayers = {2}
    Ratio <- Ratios
    Serving <- ServingConfs
    Batches <- CpuBatches
    PackedBatches <- WideBatches
    MaxCalls = 2
    Threads = 2
    Small = 1
    Chunk = 2
    Blocks13 = 2
    Blocks2 = 1
    MaxTokens = 2
    CoopRows = 1
    TempRows = 3
    Tier1 = 1
    Tier2 = 2
    Checkpoints <- AllCheckpoints
INVARIANTS WeightsRight ExpertsOnce ScalesKept
