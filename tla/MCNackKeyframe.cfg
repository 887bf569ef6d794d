SPECIFICATION FairNackSpec
CONSTANTS
    NumBuckets = 3
    MaxNumValues = 2
    MaxSeq = 6
    Keyframes = {3}
    MaxPacketAge = 4
    MaxNackEntries = 2
    MaxNackRetries = 2
    SendNackDelay = 1
    RttFloor = 1
    Rtts = {0}
    MaxAge = 1
    MaxLate = 2
    MaxEarly = 2
    MaxJump = 4
    Watched = {1, 4}
INVARIANT NoneBelowKeyframe
CHECK_DEADLOCK FALSE
