CONSTANTS
    Cmds = {c1, c2}
    Waits = {c1}
    NoIo = {c2}
    NoCmd = NoCmd
    MaxSubmit = 1
    MaxStarts = 0
    CanTimeout = FALSE
    CanStop = FALSE
    CanLoseHw = FALSE
    CanSleep = TRUE
SPECIFICATION Spec
INVARIANTS NoLostWakeup
CHECK_DEADLOCK FALSE
