CONSTANTS
    c1 = c1
    Consumers <- OneConsumer
    RingSize <- TwoSegments
    SegmentSize = 2
    Modulus <- TwoRings
    Lens <- PartOrSegment
    MaxWritten <- PastTheWrap
SPECIFICATION FairSpec
INVARIANTS
    TypeOK
    IntactUnlessOverrun
    NeverReadsUnpublished
    LossOnlyWhenLapped
    RingHoldsLatest
PROPERTIES
    ImplementsStream
    ThreadsEnd
    BacklogIsDelivered
