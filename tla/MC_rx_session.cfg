CONSTANTS
    WSize = 3
    FirstFrame = 4093
    LastFrame = 4099
    Established = TRUE
    MaxAddba = 0
    MaxDelba = 0
    MaxBar = 0
    MaxOut = 7
    CanStop = FALSE
    CanFree = FALSE
SPECIFICATION FairSpec
INVARIANTS DeliversInOrder
PROPERTIES ImplementsReorderBuffer
CHECK_DEADLOCK FALSE
