SPECIFICATION FairSpec
CONSTANTS
    Worker = {w1, w2, w3}
    Chunk = 2
    RowLo = 1
    RowHi = 3
    Inputs <- SmallInputs
    MaxLookups = 2
INVARIANTS LookupCorrect PoolAccounts JobsInsideCall
PROPERTY NoWakeupLost
