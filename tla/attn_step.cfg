SPECIFICATION Spec
CONSTANTS
    Confs <- MCConfs
    Prompt <- MCPrompt
    MaxLen = 6
    MaxTokens = 6
    Window = 2
    SwaBlock = 2
    CompBlock = 1
    RingFloor = 1
    TopK = 2
    PrefillChunk = 1
    MaxGather = 2
    MaxLogits = 3
    SwaBlocks = {1, 2, 3, 4, 5}
    CompBlocks = {1, 2, 3, 4, 5}
    RingBlocks = {1, 2}
INVARIANTS AttentionRight SampledRight DraftsRight
PROPERTY WritesOwn
CHECK_DEADLOCK FALSE
