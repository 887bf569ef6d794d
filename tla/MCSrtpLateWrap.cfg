SPECIFICATION StreamSpec
CONSTANTS
    SeqMod = 16
    RocMod = 2
    Words = 2
    WordBits = 2
    MaxIndex = 31
    MaxDeliveries = 2
    ReplayEnabled = TRUE
    Start = 13
    MaxSkip = 3
    MaxLate = 3
    LateOverWrap = TRUE
INVARIANTS
    LateStraddleDecrypts
CHECK_DEADLOCK FALSE
