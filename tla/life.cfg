SPECIFICATION FairSpec
CONSTANTS
    Req = {r1, r2}
    Cancellable = {r1}
    Work = 1
    QueueSize = 2
    DrainModes = {TRUE, FALSE}
    Calls <- AllCalls
    MaxEvents = 2
    ClientWaits = TRUE
    Fails = TRUE
INVARIANTS PromiseKept NoStepAsleep EndedOnce
PROPERTIES Ends Answered
CHECK_DEADLOCK FALSE
