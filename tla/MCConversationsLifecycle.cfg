CONSTANTS
    Sockets = {k1, k2}
    Convs = {c1}
    Sessions = {s1, s2, s3}
    Handlers = {h1}
    None = None
CONSTRAINT Lifecycle
CHECK_DEADLOCK TRUE
SPECIFICATION Spec
SYMMETRY Symmetry
VIEW View
INVARIANTS
    TypeOK
    GateExclusive
    NoLostWakeup
    ViewersExact
    SubscribesAlone
    ClosedOnce
    HeldIsLive
PROPERTIES
    SweepSpares
