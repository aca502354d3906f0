CONSTANTS
    WSize = 3
    FirstFrame = 4093
    LastFrame = 4095
    Established = TRUE
    MaxAddba = 0
    MaxDelba = 0
    MaxBar = 0
    MaxOut = 7
    CanStop = FALSE
    CanFree = TRUE
SPECIFICATION Spec
INVARIANTS FreedIsQuiet
CHECK_DEADLOCK FALSE
