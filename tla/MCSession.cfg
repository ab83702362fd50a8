CONSTANTS
    p1 = p1
    p2 = p2
    s1 = s1
    s2 = s2
    s3 = s3
    Gone = Gone
    None = None
    Paths <- TwoPaths
    Sessions <- ThreeSessions
    MaxDevices = 2
SPECIFICATION Spec
SYMMETRY Interchangeable
INVARIANTS
    SlotsAgree
    NothingLeft
    OpenDeviceWorks
