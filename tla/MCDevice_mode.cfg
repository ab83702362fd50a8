CONSTANTS
    Boards <- AllBoards
    R820tFreqs = {100000}
    Fc0012Freqs = {100000, 800000}
    Gains <- SomeGains
    Rates = {1024000, 2400000}
    MaxOpens = 1
    MaxCalls = 3
    MaxErrors = 0
SPECIFICATION Spec
CHECK_DEADLOCK FALSE
PROPERTIES
    ModeReasserted
