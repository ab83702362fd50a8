\* One slot serves start's own subscription; two callers compete for the other.
\* start and stop are called only when no other call runs, and no other device streams.
CONSTANTS
    u1 = u1
    u2 = u2
    x1 = x1
    x2 = x2
    x3 = x3
    None = None
    Callers <- TwoCallers
    Threads <- ThreeThreads
    NSlots = 2
    MayOverlap <- IndependentSubscribers
    SharedLoop = FALSE
SPECIFICATION FairSpec
INVARIANTS
    JoinedOnce
    RingOutlivesThreads
    SlotServesOneThread
    QuietWhenStopped
PROPERTIES
    CallsReturn
