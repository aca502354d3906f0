CONSTANTS
    ChNum = 2
    ScanCntMax = 1
    MaxCalls = 3
    CanTimeout = TRUE
    Waiters = {"user", "proc"}
SPECIFICATION FairSpec
INVARIANTS TypeOK KernelAgrees RequestHasReporter SurveyDriven AbortAnswers DownIsQuiet
PROPERTIES EveryRequestAnswered SurveyEnds
CHECK_DEADLOCK FALSE
