SPECIFICATION Spec
CONSTANTS
    r1 = r1
    r2 = r2
    Garbage = garbage
    Req = {r1}
    Token = {t1, t2}
    StopTokens = {}
    PP = 3
    NumSpec = 1
    Prompt <- Prompts3
    MaxTokens <- Tokens4
    MaxModelLen = 7
    MaxBatched = 2
    MaxRunning = 1
    BlockSize = 2
    NumBlocks = 4
    Lookahead = 1
    MaxResets = 2
    Cancellable = {r1}
INVARIANTS ReceiversAgree SamplerAgrees DeliveredContinues StaleIsOldest
CHECK_DEADLOCK FALSE
