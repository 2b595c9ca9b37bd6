CONSTANTS
    Convs = {c1, c2}
    None = None
    MaxWire = 1
    MaxAsked = 2
    MaxWaits = 1
SPECIFICATION Spec
SYMMETRY Symmetry
INVARIANTS
    TypeOK
    ComesBack
    WaitsForOpening
    CutOffRebuilt
    PendingAsked
PROPERTIES
    KeepsWorking
