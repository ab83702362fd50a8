CONSTANTS
    t1 = t1
    t2 = t2
    NoThread = NoThread
    Threads <- TwoThreads
    Tuners = {"R820T", "FC0012"}
    Freqs = {1, 2}
    Rates = {1, 2}
    Gains = {0, 1, 2}
    DefaultIf = 3
    WideIf <- NarrowAndWide
    UnlockedOverlap = FALSE
    MaxCalls = 4
    MaxErrors = 1
SPECIFICATION Spec
SYMMETRY Alike
CHECK_DEADLOCK FALSE
INVARIANTS
    ShadowIsChip
    GainStands
    ReceivesAsRecorded
    GateServesI2c
