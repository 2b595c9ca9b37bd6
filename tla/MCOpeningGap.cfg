CONSTANTS
    Clients = {c1, c2}
    Page = c1
    Past = 1
    MaxTurns = 2
    Limit = 1
SPECIFICATION OpeningSpec
CHECK_DEADLOCK FALSE
PROPERTIES
    NotReplayedIsDrawn
