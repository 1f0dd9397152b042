SPECIFICATION FairSpec
CONSTANTS
    r1 = r1
    r2 = r2
    Req = {r1, r2}
    Garbage = garbage
    Token = {t1}
    StopTokens = {}
    PP = 2
    NumSpec = 1
    Prompt <- Prompts11
    MaxTokens <- Tokens22
    MaxModelLen = 4
    MaxBatched = 3
    MaxRunning = 2
    BlockSize = 1
    NumBlocks = 4
    Lookahead = 0
    MaxResets = 1
    Cancellable = {}
PROPERTIES Completes RanksForget
CHECK_DEADLOCK FALSE
