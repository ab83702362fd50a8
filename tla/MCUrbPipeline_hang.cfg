CONSTANTS
    Depth <- ThreeUrbs
    SharedLoop = FALSE
    MaxTransfers <- OneRoundAndMore
    MaxErrors = 1
SPECIFICATION Spec
INVARIANTS
    ReapNeverHangs
CHECK_DEADLOCK FALSE
