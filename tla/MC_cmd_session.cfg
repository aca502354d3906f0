CONSTANTS
    Cmds = {c1, c2, c3}
    Waits = {c1, c2}
    NoIo = {c2}
    NoCmd = NoCmd
    MaxSubmit = 1
    MaxStarts = 0
    CanTimeout = FALSE
    CanStop = FALSE
    CanLoseHw = TRUE
    CanSleep = FALSE
SPECIFICATION FairSpec
INVARIANTS CallerStillWaits NoLostWakeup
PROPERTIES EveryWaiterReturns ImplementsCommandQueue
CHECK_DEADLOCK FALSE
