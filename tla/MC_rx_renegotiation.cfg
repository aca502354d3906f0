CONSTANTS
    WSize = 2
    FirstFrame = 4095
    LastFrame = 4096
    Established = TRUE
    MaxAddba = 1
    MaxDelba = 1
    MaxBar = 1
    MaxOut = 3
    CanStop = FALSE
    CanFree = TRUE
SPECIFICATION FairSpec
PROPERTIES EveryFrameLeaves
CHECK_DEADLOCK FALSE
