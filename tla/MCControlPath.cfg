SPECIFICATION Spec
CONSTANTS
    SeqSpace = 8
    WordSpace = 1048576
    AbsSpace = 4
    TickRate = 4
    MsPerSec = 10
    Epoch = 3
    RingSize = 2
    ThrottleWindow = 2
    SweepWindows = 1
    BlpBits = 1
    LostMod = 16
    FirMod = 16
    MantissaMax = 15
    Quantum = 250
    SmallMax = 5
    LargeMax = 11
    RefUnit = 2
    RefMax = 1
    VectorLen = 2
    MaxRun = 3
    FbMod = 2
    UsPerMs = 1000
    MinBps = 50
    MaxBps = 104
    StartBps = 100
    RembFloor = 10
    HistoryMax = 2
    BackoffMs = 0
    DrainMs <- MCDrainMs
    MinWindowMs = 1
    BitsPerByteMs = 40
    SeqMod = 8
    RocMod = 2
    Words = 1
    WordBits = 2
    SrtcpMod = 16
    Modes = {"recovery", "rate", "reports", "layers"}
    Counting <- MCCounting
    Media <- MCMedia
    ExtMaps <- MCExtMaps
    TheirIds <- MCTheirIds
    StartSeq = 6
    StartNow <- MCStartNow
    MaxNow <- MCMaxNow
    Waits = {1}
    Sayings <- MCSayings
    MaxLost <- MCMaxLost
    MaxDups <- MCMaxDups
    MaxFeedback <- MCMaxFeedback
    MaxChanges <- MCMaxChanges
CHECK_DEADLOCK FALSE
INVARIANTS
    ReceivedIsSent
    FeedbackOnce
PROPERTIES
    FeedbackFaithful
    NoStorm
    EventuallyRecovered
    EstimateTracksDelay
