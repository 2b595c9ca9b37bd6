CONSTANTS
    Convs = {c1}
    None = None
    MaxWire = 1
    MaxAsked = 1
    MaxWaits = 1
SPECIFICATION FairSpec
PROPERTIES
    ExpiryShown
