SPECIFICATION Spec
CONSTANTS
    Req = {r1}
    Cancellable = {r1}
    Work = 1
    QueueSize = 2
    DrainModes = {FALSE}
    Calls <- SleepCalls
    MaxEvents = 2
    ClientWaits = FALSE
    Fails = FALSE
INVARIANT ScheduledIsResident
CHECK_DEADLOCK FALSE
