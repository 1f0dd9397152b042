SPECIFICATION Spec
CONSTANTS
    r1 = r1
    r2 = r2
    Garbage = garbage
    Req = {r1, r2}
    Token = {t1}
    StopTokens = {}
    PP = 3
    NumSpec = 1
    Prompt <- Prompts11
    MaxTokens <- Tokens43
    MaxModelLen = 5
    MaxBatched = 3
    MaxRunning = 2
    BlockSize = 1
    NumBlocks = 5
    Lookahead = 0
    MaxResets = 0
    Cancellable = {}
INVARIANTS NoDraftOnlyStep QueuedOnce
CHECK_DEADLOCK FALSE
