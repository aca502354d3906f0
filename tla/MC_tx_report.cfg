CONSTANTS
    Senders = {s1, s2}
    Waits = {s1, s2}
    Probes = {s1}
    OnCmd = {s2}
    Net = Net
    ExtBufs = {e1, e2}
    DataBufs = {d1}
    Nothing = Nothing
    TryCnt = 1
    MaxAgg = 1
    FifoSize = 1
    MaxCalls = 2
    SemaMax = 1
SPECIFICATION Spec
INVARIANTS SuccessMeansAcked
CHECK_DEADLOCK FALSE
