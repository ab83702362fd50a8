CONSTANTS
    Boards <- AllBoards
    R820tFreqs = {100000, 462000, 20000}
    Fc0012Freqs = {100000, 800000}
    Gains <- SomeGains
    Rates = {1024000, 2400000}
    MaxOpens = 2
    MaxCalls = 3
    MaxErrors = 1
SPECIFICATION Spec
CHECK_DEADLOCK FALSE
INVARIANTS
    ModeFitsTuner
    SettingsStand
    GainAddsUp
    ClosedIsQuiet
