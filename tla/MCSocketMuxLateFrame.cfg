CONSTANTS
    c1 = c1
    c2 = c2
    c3 = c3
    Convs <- ThreeConvs
    Slow <- OneSlow
    PendingFrames = 1
    Outbound = 1
    MaxConversations = 2
    MaxFrames = 3
    MaxEvents = 2
SPECIFICATION Spec
CONSTRAINT OneBusy
CHECK_DEADLOCK FALSE
INVARIANTS
    NoLateFrame
