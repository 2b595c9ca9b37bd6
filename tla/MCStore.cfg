CONSTANTS
    Convs = {c1, c2}
    Handlers = {h1, h2}
    None = None
    Torn = Torn
    MaxRows = 2
SPECIFICATION Spec
SYMMETRY Symmetry
VIEW View
INVARIANTS
    TypeOK
    SettledIsSaved
PROPERTIES
    KeepsIndex
    OneRowEach
