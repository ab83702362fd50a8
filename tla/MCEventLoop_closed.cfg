CONSTANTS
    d1 = d1
    d2 = d2
    t1 = t1
    t2 = t2
    None = None
    Devices <- TwoDevices
    LoopThreads <- TwoLoops
    StartsOverlapEnds = FALSE
SPECIFICATION Spec
INVARIANTS
    ServedDevicesLive
