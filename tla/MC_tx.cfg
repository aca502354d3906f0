CONSTANTS
    Senders = {s1, s2, s3}
    Waits = {s1, s2}
    Probes = {s1}
    OnCmd = {s2}
    Net = Net
    ExtBufs = {e1, e2}
    DataBufs = {d1, d2}
    Nothing = Nothing
    TryCnt = 1
    MaxAgg = 2
    FifoSize = 1
    MaxCalls = 3
    SemaMax = 1
SPECIFICATION FairSpec
INVARIANTS TypeOK OneOwner NoLostWakeup SuccessHasItsReport
PROPERTIES ImplementsTxQueue ComesToRest
CHECK_DEADLOCK FALSE
