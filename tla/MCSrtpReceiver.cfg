SPECIFICATION RecvSpec
CONSTANTS
    SeqMod = 12
    RocMod = 2
    Words = 2
    WordBits = 2
    MaxIndex = 18
    MaxDeliveries = 2
    ReplayEnabled = TRUE
INVARIANTS
    RecvTypeOK
    WindowExact
    NoReplay
    NoFalseReject
PROPERTY
    FilterSpec
CHECK_DEADLOCK FALSE
