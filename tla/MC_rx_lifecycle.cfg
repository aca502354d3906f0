CONSTANTS
    WSize = 2
    FirstFrame = 4094
    LastFrame = 4096
    Established = TRUE
    MaxAddba = 1
    MaxDelba = 1
    MaxBar = 1
    MaxOut = 3
    CanStop = TRUE
    CanFree = TRUE
SPECIFICATION Spec
INVARIANTS TypeOK QueueSorted PendingHasTimer
CHECK_DEADLOCK FALSE
