CONSTANTS
    c1 = c1
    c2 = c2
    c3 = c3
    Convs <- ThreeConvs
    Slow <- OneSlow
    PendingFrames = 1
    Outbound = 1
    MaxConversations = 2
    MaxFrames = 3
    MaxEvents = 2
SPECIFICATION FairSpec
CONSTRAINT OneBusy
CHECK_DEADLOCK FALSE
INVARIANTS
    TypeOK
    InOrder
    OneRelay
    OneLateFrame
    ClosedClean
PROPERTIES
    FramesHandled
    CancelledCloses
