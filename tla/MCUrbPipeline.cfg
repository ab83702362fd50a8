CONSTANTS
    Depth <- ThreeUrbs
    SharedLoop = FALSE
    MaxTransfers <- OneRoundAndMore
    MaxErrors = 1
SPECIFICATION FairSpec
INVARIANTS
    SubmittedOnce
    DeliveredInOrder
PROPERTIES
    UnplugEndsStream
\* The stream ends, and so does everything here.
CHECK_DEADLOCK FALSE
