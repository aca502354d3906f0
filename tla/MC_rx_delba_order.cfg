CONSTANTS
    WSize = 3
    FirstFrame = 4093
    LastFrame = 4098
    Established = TRUE
    MaxAddba = 0
    MaxDelba = 1
    MaxBar = 0
    MaxOut = 7
    CanStop = FALSE
    CanFree = FALSE
SPECIFICATION Spec
PROPERTIES LeavesInOrder
CHECK_DEADLOCK FALSE
