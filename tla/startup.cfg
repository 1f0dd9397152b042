SPECIFICATION StartSpec
CONSTANTS
    Starts <- MCStarts
    Scenarios <- MCScenarios
    Memories <- MCMemories
    Granule = 8
INVARIANTS PlanSound ResolveStable ConfigSound CacheRight WorkerKeeps
CHECK_DEADLOCK FALSE
