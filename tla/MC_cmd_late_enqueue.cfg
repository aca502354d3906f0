CONSTANTS
    Cmds = {c1, c2}
    Waits = {c1}
    NoIo = {c2}
    NoCmd = NoCmd
    MaxSubmit = 2
    MaxStarts = 0
    CanTimeout = TRUE
    CanStop = TRUE
    CanLoseHw = FALSE
    CanSleep = FALSE
SPECIFICATION Spec
INVARIANTS NothingAfterDrain
CHECK_DEADLOCK FALSE
