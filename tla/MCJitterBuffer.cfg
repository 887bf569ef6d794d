SPECIFICATION FairSpec
CONSTANTS
    SeqMod = 32
    LateWindow = 3
    ResyncThreshold = 2
    MaxLossEvents = 2
    ScanLimit = 2
    EmitFloor = 2
    MaxSize = 3
    Latencies = {1}
    Rtts = {0, 1}
    RttSafety = 0
    MaxAge = 2
    Stream <- MCStream
    Restart <- MCRestart
    Copies <- MCCopies
    MaxReorder = 2
    MaxLosses = 1
    MaxCalls = 1
    Reentrant = {}
INVARIANTS
    JitterTypeOK
    Capacity
    Ordered
    Accounted
    NoneStranded
PROPERTIES
    Drains
    HeardAfterRestart
CHECK_DEADLOCK FALSE
