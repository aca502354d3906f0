CONSTANTS
    Cmds = {c1, c2}
    Waits = {c1}
    NoIo = {c2}
    NoCmd = NoCmd
    MaxSubmit = 2
    MaxStarts = 1
    CanTimeout = TRUE
    CanStop = TRUE
    CanLoseHw = FALSE
    CanSleep = TRUE
SPECIFICATION FairSpec
INVARIANTS TypeOK SctxIsLive GivesUpSafely OneOwner
PROPERTIES KeepsCommandOrder StopCompletes
CHECK_DEADLOCK FALSE
