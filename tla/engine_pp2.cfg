SPECIFICATION Spec
CONSTANTS
    r1 = r1
    r2 = r2
    Garbage = garbage
    Req = {r1, r2}
    Token = {t1, t2}
    StopTokens = {t2}
    PP = 2
    NumSpec = 2
    Prompt <- Prompts51
    MaxTokens <- Tokens22
    MaxModelLen = 7
    MaxBatched = 2
    MaxRunning = 2
    BlockSize = 2
    NumBlocks = 4
    Lookahead = 1
    MaxResets = 1
    Cancellable = {r1, r2}
INVARIANTS TypeOK RanksKnow DraftsContinueOutput BlocksReserved
PROPERTIES KeepsPromise
CHECK_DEADLOCK FALSE
