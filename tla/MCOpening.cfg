CONSTANTS
    Clients = {c1, c2}
    Page = c1
    Past = 2
    MaxTurns = 4
    Limit = 1
SPECIFICATION OpeningFairSpec
CHECK_DEADLOCK FALSE
INVARIANTS
    TypeOK
    NoLostTurn
    TranscriptWhole
    DrawnAgainOnlyLate
PROPERTIES
    FeedsTurns
    CurrentShown
