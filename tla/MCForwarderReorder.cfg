SPECIFICATION ForwarderSpec
CONSTANTS
    SeqMod = 8
    TsMod = 32
    StartSeq = 6
    StartTs = 29
    Stretches <- MCStretches
    Length = 3
    TsStep = 3
    Jumps = {0, 5}
    ReorderAtSwitch = TRUE
INVARIANTS
    NoReuse
CHECK_DEADLOCK FALSE
