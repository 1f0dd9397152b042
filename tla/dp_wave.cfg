SPECIFICATION Spec
CONSTANTS
    N = 2
    Req = {r1, r2}
    Work = 1
    SyncEvery = 2
    Modes = {"keep", "wait"}
    MaxPauses = 1
    MaxEvents = 2
INVARIANTS SameOperation PauseHolds NobodyAlone
CHECK_DEADLOCK FALSE
