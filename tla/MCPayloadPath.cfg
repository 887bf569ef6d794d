SPECIFICATION Spec
CONSTANTS
    SeqSpace = 16
    TsMod = 64
    UsPerSec = 4
    ClockRate = 6
    Mtu = 6
    PidMod = 4
    OctetBase = 4
    MaxAuSize = 6
    ConstantDuration = 2
    Redundancy = 2
    MaxTsOffset = 5
    MaxBlockLen = 3
    HistorySize = 5
    MaxDuration = 7
    GroupSize = 3
    MaxMask = 5
    WindowSize = 5
    MaxFec = 2
    Shapes <- MCShapes
    StartSeq = 15
    StartUs = 35
    MaxFrames <- MCMaxFrames
    MaxReorder <- MCMaxReorder
    MaxLost <- MCMaxLost
    MaxDups <- MCMaxDups
CHECK_DEADLOCK FALSE
INVARIANTS
    IntactSurvives
    NothingTwice
    InSendingOrder
    RedundancyHeals
    NothingInvented
    PeekAgrees
    NoFalseAlarm
