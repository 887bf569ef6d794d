SPECIFICATION ReliableSpec
CONSTANTS
    SeqMod = 16
    RocMod = 2
    Words = 2
    WordBits = 2
    MaxIndex = 21
    MaxDeliveries = 2
    ReplayEnabled = TRUE
    Start = 12
    MaxSkip = 3
    MaxLate = 3
    LateOverWrap = FALSE
INVARIANTS
    StreamTypeOK
    SenderInSync
    LateStraddleDecrypts
PROPERTY
    ReceiverKeepsUp
CHECK_DEADLOCK FALSE
